-------------------------- MODULE OrgAccessProofs --------------------------
(***************************************************************************)
(* What OrgAccess guarantees for every number of users, requests, keys and  *)
(* memberships, proved: the types, that only owners make owners, that the    *)
(* last owner goes only by requests that overlap, by how much the seats and  *)
(* the keys of the plan can be passed, and that only owners, or requests    *)
(* that overlap, unseat owners.                                             *)
(***************************************************************************)
EXTENDS OrgAccess, FiniteSetTheorems, TLAPS

USE DEF Roles, Ops

-----------------------------------------------------------------------------
(* Types.                                                                  *)

LEMMA RoleScopesType == \A r : RoleScopes(r) \subseteq Scopes
  BY DEF RoleScopes, Scopes

\* The values a request takes.
Requests ==
    [op : Ops \cup {"none"}, as : Roles \cup {"none"},
     at : {"idle", "admitted", "counted", "guarded", "ready"},
     about : Users, to : Roles \cup {"none", "same"},
     saw : Nat, scopes : SUBSET Scopes]

\* What every step preserves.
IInv == TypeOK /\ RequestsWellFormed

LEMMA NoRequestType == NoRequest \in Requests /\ WellFormed(NoRequest)
  BY FounderAssumption, BoundsAssumption DEF NoRequest, Requests, WellFormed

LEMMA InitIInv == Init => IInv
  BY NoRequestType, FounderAssumption, BoundsAssumption
     DEF Init, IInv, TypeOK, RequestsWellFormed, Requests

\* A step that only moves a request on keeps the invariant.
LEMMA ProgressIInv ==
  ASSUME IInv, NEW h \in Handlers, NEW q \in Requests, WellFormed(q), Progress(h, q)
  PROVE  IInv'
  <1>1. RequestsWellFormed'
    BY DEF Progress, IInv, TypeOK, RequestsWellFormed
  <1>2. TypeOK'
    BY <1>1 DEF Progress, IInv, TypeOK, Requests
  <1> QED
    BY <1>1, <1>2 DEF IInv

\* So does one that lets a request in.
LEMMA EnterIInv ==
  ASSUME IInv, NEW h \in Handlers, NEW q \in Requests, WellFormed(q),
         req' = [req EXCEPT ![h] = q], alone' = {h} \/ alone' = {},
         UNCHANGED <<role, row, joins, key>>
  PROVE  IInv'
  <1>1. RequestsWellFormed'
    BY DEF IInv, TypeOK, RequestsWellFormed
  <1>2. TypeOK'
    BY <1>1 DEF IInv, TypeOK, Requests
  <1> QED
    BY <1>1, <1>2 DEF IInv

\* A step that ends a request keeps what is known of the others.
LEMMA EndWellFormed ==
  ASSUME IInv, NEW h \in Handlers, req' = [req EXCEPT ![h] = NoRequest]
  PROVE  RequestsWellFormed' /\ req' \in [Handlers -> Requests]
  BY NoRequestType DEF IInv, TypeOK, RequestsWellFormed, Requests

LEMMA ServeIInv ==
  ASSUME IInv, NEW h \in Handlers, Serve(h)
  PROVE  IInv'
  <1>0. req[h] \in Requests /\ WellFormed(req[h])
    BY DEF IInv, TypeOK, RequestsWellFormed, Requests
  <1>1. ASSUME NEW u \in Users, NEW op \in Ops, Authenticate(h, u, op)
        PROVE  IInv'
    <2> DEFINE q == [NoRequest EXCEPT !.op = op, !.at = "admitted", !.as = role[u]]
    <2>1. role[u] \in Roles
      BY <1>1 DEF Authenticate, Required
    <2>2. q \in Requests /\ WellFormed(q)
      BY <2>1, NoRequestType DEF Requests, WellFormed
    <2> QED
      BY <1>1, <2>2, EnterIInv DEF Authenticate
  <1>2. CASE CountSeats(h)
    <2> DEFINE q == [req[h] EXCEPT !.at = "counted"]
    <2>1. q \in Requests /\ WellFormed(q)
      BY <1>0 DEF Requests, WellFormed
    <2> QED
      BY <1>2, <2>1, ProgressIInv DEF CountSeats
  <1>3. ASSUME NEW u \in Users, NEW r \in Grants, CheckNew(h, u, r)
        PROVE  IInv'
    <2> DEFINE q == [req[h] EXCEPT !.at = "ready", !.about = u, !.to = r]
    <2>1. q \in Requests /\ WellFormed(q)
      BY <1>0, <1>3, InputsAssumption DEF CheckNew, Requests, WellFormed
    <2> QED
      BY <1>3, <2>1, ProgressIInv DEF CheckNew
  <1>4. ASSUME NEW u \in Users, NEW r \in Grants \cup {"none"}, LoadMember(h, u, r)
        PROVE  IInv'
    <2> DEFINE q == [req[h] EXCEPT
                 !.at = IF role[u] = "owner" /\ Guarded(h, r) THEN "guarded" ELSE "ready",
                 !.about = u, !.to = IF role[u] = r THEN "same" ELSE r, !.saw = row[u]]
    <2>1. row[u] \in Nat
      BY DEF IInv, TypeOK
    <2>2. q \in Requests /\ WellFormed(q)
      BY <1>0, <1>4, <2>1, InputsAssumption DEF LoadMember, Requests, WellFormed
    <2> QED
      BY <1>4, <2>2, ProgressIInv DEF LoadMember
  <1>5. CASE RefuseIfLastOwner(h)
    <2> DEFINE q == [req[h] EXCEPT !.at = "ready"]
    <2>1. q \in Requests /\ WellFormed(q)
      BY <1>0, <1>5 DEF RefuseIfLastOwner, Requests, WellFormed
    <2> QED
      BY <1>5, <2>1, ProgressIInv DEF RefuseIfLastOwner
  <1>6. ASSUME NEW asked \in Asks, CountKeys(h, asked)
        PROVE  IInv'
    <2> DEFINE q == [req[h] EXCEPT !.at = "ready",
                                   !.scopes = asked \cap RoleScopes(req[h].as)]
    <2>1. asked \cap RoleScopes(req[h].as) \in SUBSET Scopes
      BY RoleScopesType
    <2>2. q \in Requests /\ WellFormed(q)
      BY <1>0, <1>6, <2>1 DEF CountKeys, Requests, WellFormed
    <2> QED
      BY <1>6, <2>2, ProgressIInv DEF CountKeys
  <1>7. CASE CommitAdd(h)
    <2>1. req[h].to \in Roles /\ req[h].about \in Users
      BY <1>0, <1>7 DEF CommitAdd, Ready, WellFormed, Requests
    <2>2. role' \in [Users -> Roles \cup {"none"}]
      BY <1>7, <2>1 DEF CommitAdd, IInv, TypeOK
    <2>3. joins' \in 1..MaxJoins /\ row' \in [Users -> Nat]
      BY <1>7, <2>1, BoundsAssumption DEF CommitAdd, IInv, TypeOK
    <2>4. \A u \in Users : role'[u] # "none" => row'[u] > 0
      BY <1>7, <2>1, BoundsAssumption DEF CommitAdd, IInv, TypeOK
    <2> QED
      BY <1>7, <2>2, <2>3, <2>4, EndWellFormed DEF CommitAdd, Ready, IInv, TypeOK, Requests
  <1>8. CASE CommitChange(h)
    <2>1. req[h].to \in Roles \cup {"same"} /\ req[h].about \in Users
      BY <1>0, <1>8 DEF CommitChange, Ready, WellFormed, Requests
    <2>2. /\ role' \in [Users -> Roles \cup {"none"}]
          /\ \A u \in Users : role'[u] # "none" => row[u] > 0
      BY <1>8, <2>1 DEF CommitChange, IInv, TypeOK
    <2> QED
      BY <1>8, <2>2, EndWellFormed DEF CommitChange, Ready, IInv, TypeOK, Requests
  <1>9. CASE CommitRemove(h)
    <2>1. /\ role' \in [Users -> Roles \cup {"none"}]
          /\ \A u \in Users : role'[u] # "none" => row[u] > 0
      BY <1>9 DEF CommitRemove, IInv, TypeOK
    <2> QED
      BY <1>9, <2>1, EndWellFormed DEF CommitRemove, Ready, IInv, TypeOK, Requests
  <1>10. CASE CommitMint(h)
    <2>1. key' \in [Keys -> SUBSET Scopes]
      BY <1>0, <1>10 DEF CommitMint, IInv, TypeOK, Requests
    <2> QED
      BY <1>10, <2>1, EndWellFormed DEF CommitMint, Ready, IInv, TypeOK, Requests
  <1>11. ASSUME NEW k \in Keys, Revoke(h, k)
         PROVE  IInv'
    <2>1. key' \in [Keys -> SUBSET Scopes]
      BY <1>11 DEF Revoke, IInv, TypeOK
    <2> QED
      BY <1>11, <2>1, EndWellFormed DEF Revoke, IInv, TypeOK, Requests
  <1>12. CASE Abandon(h)
    BY <1>12, NoRequestType, ProgressIInv DEF Abandon
  <1> QED
    BY <1>1, <1>2, <1>3, <1>4, <1>5, <1>6, <1>7, <1>8, <1>9, <1>10, <1>11, <1>12
       DEF Serve, Commit

LEMMA NextIInv == IInv /\ [Next]_vars => IInv'
  <1> SUFFICES ASSUME IInv, [Next]_vars PROVE IInv'
    OBVIOUS
  <1>1. CASE UNCHANGED vars
    BY <1>1 DEF vars, IInv, TypeOK, RequestsWellFormed
  <1> QED
    BY <1>1, ServeIInv DEF Next

(* Every member has a row and one of the four roles, and every key about to  *)
(* be made at least one scope, through all overlapping requests.            *)
THEOREM TypeCorrect == Spec => []TypeOK
  <1>1. IInv => TypeOK
    BY DEF IInv
  <1> QED
    BY <1>1, InitIInv, NextIInv, PTL DEF Spec
-----------------------------------------------------------------------------
(* Only owners make owners.                                                *)

LEMMA NextEntitled == IInv /\ Entitled /\ [Next]_vars => Entitled'
  <1> SUFFICES ASSUME IInv, Entitled, [Next]_vars PROVE Entitled'
    OBVIOUS
  <1> USE DEF Entitled, ActsAsOwner
  <1>1. ASSUME NEW h \in Handlers, NEW q,
               req' = [req EXCEPT ![h] = q],
               q.op = "change" => q.as = "owner",
               q.op = "add" /\ q.at = "ready" /\ q.to = "owner" => q.as = "owner"
        PROVE  Entitled'
    BY <1>1 DEF IInv, TypeOK
  <1>2. ASSUME NEW h \in Handlers, req' = [req EXCEPT ![h] = NoRequest]
        PROVE  Entitled'
    BY <1>1, <1>2 DEF NoRequest
  <1>3. ASSUME NEW h \in Handlers, Serve(h)
        PROVE  Entitled'
    <2>0. req[h] \in Requests
      BY DEF IInv, TypeOK, Requests
    <2>1. ASSUME NEW u \in Users, NEW op \in Ops, Authenticate(h, u, op)
          PROVE  Entitled'
      BY <1>1, <2>1 DEF Authenticate, Progress, Required, NoRequest
    <2>2. CASE CountSeats(h)
      BY <1>1, <2>0, <2>2 DEF CountSeats, Progress, Requests
    <2>3. ASSUME NEW u \in Users, NEW r \in Grants, CheckNew(h, u, r)
          PROVE  Entitled'
      BY <1>1, <2>0, <2>3 DEF CheckNew, Progress, Requests
    <2>4. ASSUME NEW u \in Users, NEW r \in Grants \cup {"none"}, LoadMember(h, u, r)
          PROVE  Entitled'
      BY <1>1, <2>0, <2>4 DEF LoadMember, Progress, Requests
    <2>5. CASE RefuseIfLastOwner(h)
      <3>1. req[h].op # "add"
        BY <2>5 DEF RefuseIfLastOwner, IInv, RequestsWellFormed, WellFormed
      <3> QED
        BY <1>1, <2>0, <2>5, <3>1 DEF RefuseIfLastOwner, Progress, Requests
    <2>6. ASSUME NEW asked \in Asks, CountKeys(h, asked)
          PROVE  Entitled'
      BY <1>1, <2>0, <2>6 DEF CountKeys, Progress, Requests
    <2>7. CASE Commit(h)
      BY <1>2, <2>7 DEF Commit, CommitAdd, CommitChange, CommitRemove, CommitMint, Ready
    <2>8. ASSUME NEW k \in Keys, Revoke(h, k)
          PROVE  Entitled'
      BY <1>2, <2>8 DEF Revoke
    <2>9. CASE Abandon(h)
      BY <1>2, <2>9 DEF Abandon, Progress
    <2> QED
      BY <1>3, <2>1, <2>2, <2>3, <2>4, <2>5, <2>6, <2>7, <2>8, <2>9 DEF Serve
  <1> QED
    BY <1>3 DEF Next, vars

\* The steps that change a role.
LEMMA OnlyCommitsChangeRoles ==
  ASSUME [Next]_vars, role' # role
  PROVE  \E h \in Handlers : CommitAdd(h) \/ CommitChange(h) \/ CommitRemove(h)
  BY DEF Next, Serve, Commit, Authenticate, CountSeats, CheckNew, LoadMember,
     RefuseIfLastOwner, CountKeys, CommitMint, Revoke, Abandon, Progress, vars

(* No sequence of requests, however they overlap, makes an owner unless one  *)
(* of them was let in as an owner's: admins cannot promote, not even each    *)
(* other or through add_member.                                             *)
THEOREM OwnersOnlyByOwners == Spec => OwnersMadeByOwners
  <1> DEFINE Made == \A u \in Users : role[u] # "owner" /\ role'[u] = "owner" =>
               \E h \in Handlers : ActsAsOwner(h) /\ req[h].about = u /\ req'[h] = NoRequest
  <1>1. ASSUME IInv, Entitled, [Next]_vars
        PROVE  [Made]_vars
    <2> SUFFICES ASSUME NEW u \in Users, role[u] # "owner", role'[u] = "owner"
                 PROVE  \E h \in Handlers : /\ ActsAsOwner(h) /\ req[h].about = u
                                            /\ req'[h] = NoRequest
      OBVIOUS
    <2>1. PICK h \in Handlers : CommitAdd(h) \/ CommitChange(h) \/ CommitRemove(h)
      BY <1>1, OnlyCommitsChangeRoles
    <2>2. req'[h] = NoRequest
      BY <1>1, <2>1 DEF CommitAdd, CommitChange, CommitRemove, Ready, IInv, TypeOK
    <2>3. CASE CommitAdd(h)
      BY <1>1, <2>2, <2>3 DEF CommitAdd, Ready, IInv, TypeOK, Entitled
    <2>4. CASE CommitChange(h)
      BY <1>1, <2>2, <2>4 DEF CommitChange, Ready, IInv, TypeOK, Entitled
    <2>5. CASE CommitRemove(h)
      BY <1>1, <2>5 DEF CommitRemove, IInv, TypeOK
    <2> QED
      BY <2>1, <2>3, <2>4, <2>5
  <1>2. Init => Entitled
    BY DEF Init, Entitled, NoRequest
  <1> QED
    BY <1>1, <1>2, InitIInv, NextIInv, NextEntitled, PTL DEF Spec, OwnersMadeByOwners

-----------------------------------------------------------------------------
(* The last owner goes only by requests that overlap.                       *)

LEMMA OwnersFinite == IsFiniteSet(Owners)
  BY FiniteAssumption, FS_Subset DEF Owners

\* Of two owners one remains when the other goes.
LEMMA AnotherOwner ==
  ASSUME Cardinality(Owners) > 1, NEW u
  PROVE  \E v \in Owners : v # u
  <1> SUFFICES ASSUME \A v \in Owners : v = u PROVE FALSE
    OBVIOUS
  <1>1. Owners \subseteq {u}
    OBVIOUS
  <1>2. Cardinality({u}) = 1 /\ IsFiniteSet({u})
    BY FS_Singleton
  <1>3. Cardinality(Owners) <= 1
    BY <1>1, <1>2, FS_Subset
  <1>4. Cardinality(Owners) \in Nat
    BY OwnersFinite, FS_CardinalityType
  <1> QED
    BY <1>3, <1>4

\* A step of a request that is not let in by it is one of a request in progress.
LEMMA ServeMoves ==
  ASSUME IInv, NEW h \in Handlers, Serve(h)
  PROVE  /\ req' = [req EXCEPT ![h] = req'[h]]
         /\ \/ \E u \in Users, op \in Ops : Authenticate(h, u, op)
            \/ req[h] # NoRequest /\ alone' = alone
  <1> DEFINE Moved == req' = [req EXCEPT ![h] = req'[h]]
  <1>0. ASSUME req[h].at # "idle" PROVE req[h] # NoRequest
    BY <1>0 DEF NoRequest
  <1>1. ASSUME NEW q, req' = [req EXCEPT ![h] = q]
        PROVE  Moved
    BY <1>1 DEF IInv, TypeOK
  <1>2. CASE \E u \in Users, op \in Ops : Authenticate(h, u, op)
    BY <1>1, <1>2 DEF Authenticate
  <1>3. CASE CountSeats(h)
    BY <1>0, <1>1, <1>3 DEF CountSeats, Progress
  <1>4. CASE \E u \in Users, r \in Grants : CheckNew(h, u, r)
    BY <1>0, <1>1, <1>4 DEF CheckNew, Progress
  <1>5. CASE \E asked \in Asks : CountKeys(h, asked)
    BY <1>0, <1>1, <1>5 DEF CountKeys, Progress
  <1>6. CASE \E u \in Users, r \in Grants \cup {"none"} : LoadMember(h, u, r)
    BY <1>0, <1>1, <1>6 DEF LoadMember, Progress
  <1>7. CASE RefuseIfLastOwner(h)
    BY <1>0, <1>1, <1>7 DEF RefuseIfLastOwner, Progress
  <1>8. CASE Abandon(h)
    BY <1>1, <1>8 DEF Abandon, Progress
  <1>9. CASE Commit(h)
    BY <1>0, <1>1, <1>9 DEF Commit, CommitAdd, CommitChange, CommitRemove, CommitMint, Ready
  <1>10. CASE \E k \in Keys : Revoke(h, k)
    BY <1>0, <1>1, <1>10 DEF Revoke
  <1> QED
    BY <1>2, <1>3, <1>4, <1>5, <1>6, <1>7, <1>8, <1>9, <1>10 DEF Serve

LEMMA NextAlone == IInv /\ AloneIsAlone /\ [Next]_vars => AloneIsAlone'
  <1> SUFFICES ASSUME IInv, AloneIsAlone, [Next]_vars PROVE AloneIsAlone'
    OBVIOUS
  <1>1. ASSUME NEW h \in Handlers, Serve(h)
        PROVE  AloneIsAlone'
    <2>1. req' = [req EXCEPT ![h] = req'[h]] /\ DOMAIN req = Handlers /\ alone \subseteq Handlers
      BY <1>1, ServeMoves DEF IInv, TypeOK
    <2>2. ASSUME NEW u \in Users, NEW op \in Ops, Authenticate(h, u, op)
          PROVE  AloneIsAlone'
      BY <2>1, <2>2 DEF Authenticate, AloneIsAlone
    <2>3. CASE req[h] # NoRequest /\ alone' = alone
      BY <2>1, <2>3 DEF AloneIsAlone
    <2> QED
      BY <1>1, <2>2, <2>3, ServeMoves
  <1> QED
    BY <1>1 DEF Next, vars, AloneIsAlone

SInv == IInv /\ AloneIsAlone /\ Spared

LEMMA NextSpared == SInv /\ [Next]_vars => Spared'
  <1> SUFFICES ASSUME SInv, [Next]_vars PROVE Spared'
    OBVIOUS
  <1>1. ASSUME NEW h \in Handlers, Serve(h)
        PROVE  Spared'
    <2>0. req[h] \in Requests /\ DOMAIN req = Handlers /\ req' = [req EXCEPT ![h] = req'[h]]
      BY <1>1, ServeMoves DEF SInv, IInv, TypeOK, Requests
    <2> DEFINE Harmless == ~(req'[h].op \in {"change", "remove"} /\ req'[h].at = "ready")
    <2>1. ASSUME role' = role, alone' = alone, Harmless
          PROVE  Spared'
      <3>1. Owners' = Owners /\ alone \subseteq Handlers
        BY <2>1 DEF Owners, SInv, IInv, TypeOK
      <3>2. \A g \in Handlers : g # h => req'[g] = req[g]
        BY <2>0
      <3> QED
        BY <2>1, <3>1, <3>2 DEF SInv, Spared
    <2>2. ASSUME NEW u \in Users, NEW op \in Ops, Authenticate(h, u, op)
          PROVE  Spared'
      BY <2>0, <2>2 DEF Authenticate, Spared, NoRequest
    <2>3. CASE CountSeats(h) \/ \E u \in Users, r \in Grants : CheckNew(h, u, r)
      BY <2>0, <2>1, <2>3 DEF CountSeats, CheckNew, Progress, Requests
    <2>4. ASSUME NEW asked \in Asks, CountKeys(h, asked)
          PROVE  Spared'
      BY <2>0, <2>1, <2>4 DEF CountKeys, Progress, Requests
    <2>5. ASSUME NEW u \in Users, NEW r \in Grants \cup {"none"}, LoadMember(h, u, r)
          PROVE  Spared'
      <3>1. /\ req'[h].about = u
            /\ \/ req'[h].to = "same" \/ role[u] # "owner"
               \/ req'[h].at = "guarded" \/ req'[h].to = "owner"
        BY <2>0, <2>5 DEF LoadMember, Progress, Guarded, Requests
      <3>2. Owners' = Owners /\ role' = role /\ alone' = alone
        BY <2>5 DEF LoadMember, Progress, Owners
      <3>3. \A g \in Handlers : g # h => req'[g] = req[g]
        BY <2>0
      <3>4. alone \subseteq Handlers
        BY DEF SInv, IInv, TypeOK
      <3> QED
        BY <3>1, <3>2, <3>3, <3>4 DEF SInv, Spared
    <2>6. CASE RefuseIfLastOwner(h)
      <3>1. Owners' = Owners /\ role' = role /\ alone' = alone /\ Cardinality(Owners) > 1
        BY <2>6 DEF RefuseIfLastOwner, Progress, Owners
      <3> QED
        BY <3>1 DEF Spared
    <2>7. ASSUME req' = [req EXCEPT ![h] = NoRequest], req[h] # NoRequest, alone' = alone
          PROVE  Spared'
      BY <2>0, <2>7 DEF SInv, AloneIsAlone, Spared, NoRequest, IInv, TypeOK
    <2>8. CASE Commit(h) \/ Abandon(h) \/ \E k \in Keys : Revoke(h, k)
      BY <2>7, <2>8 DEF Commit, CommitAdd, CommitChange, CommitRemove, CommitMint, Ready,
         Revoke, Abandon, Progress, NoRequest
    <2> QED
      BY <1>1, <2>2, <2>3, <2>4, <2>5, <2>6, <2>8 DEF Serve
  <1>2. CASE UNCHANGED vars
    BY <1>2 DEF vars, SInv, Spared, Owners
  <1> QED
    BY <1>1, <1>2 DEF Next

LEMMA NextSInv == SInv /\ [Next]_vars => SInv'
  BY NextIInv, NextAlone, NextSpared DEF SInv

LEMMA InitSInv == Init => SInv
  <1>1. Init => AloneIsAlone /\ Spared
    BY DEF Init, AloneIsAlone, Spared
  <1> QED
    BY <1>1, InitIInv DEF SInv

\* Whoever takes the last owner away has overlapped another request.
LEMMA OrphaningOverlaps ==
  ASSUME SInv, [Next]_vars, OwnerRemains, ~OwnerRemains'
  PROVE  \E h \in Handlers \ alone : req[h].at = "ready" /\ req'[h] = NoRequest
  <1>1. role' # role
    BY DEF OwnerRemains, Owners
  <1>2. PICK h \in Handlers : CommitAdd(h) \/ CommitChange(h) \/ CommitRemove(h)
    BY <1>1, OnlyCommitsChangeRoles
  <1>3. req'[h] = NoRequest /\ req[h].at = "ready"
    BY <1>2 DEF CommitAdd, CommitChange, CommitRemove, Ready, SInv, IInv, TypeOK
  <1> DEFINE u == req[h].about
  <1>4. u \in Users
    BY DEF SInv, IInv, TypeOK
  <1>5. /\ \A v \in Users \ {u} : role'[v] = role[v]
        /\ \/ role'[u] = "owner" \/ role[u] # "owner"
           \/ req[h].op \in {"change", "remove"} /\ req[h].to \notin {"owner", "same"}
    <2>1. CASE CommitAdd(h)
      BY <1>4, <2>1 DEF CommitAdd, SInv, IInv, TypeOK
    <2>2. CASE CommitChange(h)
      BY <1>4, <2>2 DEF CommitChange, Ready, SInv, IInv, TypeOK
    <2>3. CASE CommitRemove(h)
      <3>1. req[h].to \notin {"owner", "same"}
        BY <2>3 DEF CommitRemove, Ready, SInv, IInv, RequestsWellFormed, WellFormed
      <3> QED
        BY <1>4, <2>3, <3>1 DEF CommitRemove, Ready, SInv, IInv, TypeOK
    <2> QED
      BY <1>2, <2>1, <2>2, <2>3
  <1>6. PICK o \in Users : role[o] = "owner"
    BY DEF OwnerRemains, Owners
  <1>7. \A v \in Users : role'[v] # "owner"
    BY DEF OwnerRemains, Owners
  <1>8. role[u] = "owner" /\ role'[u] # "owner"
    BY <1>4, <1>5, <1>6, <1>7
  <1>9. ~(Cardinality(Owners) > 1)
    <2>1. \A v \in Owners : v = u
      BY <1>5, <1>7 DEF Owners
    <2> QED
      BY <2>1, AnotherOwner
  <1>10. h \notin alone
    BY <1>3, <1>5, <1>8, <1>9 DEF SInv, Spared
  <1> QED
    BY <1>3, <1>10

(* _refuse_if_last_owner keeps its promise against every sequence of the     *)
(* member routes, for any number of requests: what takes the last owner     *)
(* away is a request that ran at the same time as another.                  *)
THEOREM LastOwnerTakesOverlap == Spec => LastOwnerNeedsOverlap
  <1> DEFINE Overlapped == OwnerRemains /\ ~OwnerRemains' =>
               \E h \in Handlers \ alone : req[h].at = "ready" /\ req'[h] = NoRequest
  <1>1. SInv /\ [Next]_vars => [Overlapped]_vars
    BY OrphaningOverlaps
  <1> QED
    BY <1>1, InitSInv, NextSInv, PTL DEF Spec, LastOwnerNeedsOverlap

\* A request in progress is alone where there is only one at a time.
OnlyAlone == \A h \in Handlers : req[h] # NoRequest => h \in alone

(* When an organisation's requests do not overlap there is always an owner.  *)
THEOREM SerialKeepsOwner ==
  ASSUME \A g, h \in Handlers : g = h
  PROVE  Spec => []OwnerRemains
  <1> DEFINE Inv == SInv /\ OnlyAlone /\ OwnerRemains
  <1>1. Init => Inv
    <2>1. Init => OnlyAlone /\ OwnerRemains
      BY FounderAssumption DEF Init, OnlyAlone, OwnerRemains, Owners
    <2> QED
      BY <2>1, InitSInv
  <1>2. Inv /\ [Next]_vars => Inv'
    <2> SUFFICES ASSUME Inv, [Next]_vars PROVE Inv'
      OBVIOUS
    <2>1. OnlyAlone'
      <3>1. ASSUME NEW h \in Handlers, Serve(h)
            PROVE  OnlyAlone'
        <4>1. CASE \E u \in Users, op \in Ops : Authenticate(h, u, op)
          BY <4>1 DEF Authenticate, OnlyAlone
        <4>2. CASE req[h] # NoRequest /\ alone' = alone
          BY <4>2 DEF OnlyAlone
        <4> QED
          BY <3>1, <4>1, <4>2, ServeMoves DEF SInv
      <3> QED
        BY <3>1 DEF Next, vars, OnlyAlone
    <2>2. OwnerRemains'
      <3> SUFFICES ASSUME ~OwnerRemains' PROVE FALSE
        OBVIOUS
      <3>1. PICK h \in Handlers \ alone : req[h].at = "ready"
        BY OrphaningOverlaps
      <3> QED
        BY <3>1 DEF OnlyAlone, NoRequest
    <2> QED
      BY <2>1, <2>2, NextSInv
  <1> QED
    BY <1>1, <1>2, PTL DEF Spec

-----------------------------------------------------------------------------
(* The plan is passed by at most one for each other request.               *)

LEMMA SetsFinite ==
  /\ IsFiniteSet(Members) /\ IsFiniteSet(Unrevoked)
  /\ IsFiniteSet(Joining) /\ IsFiniteSet(Minting) /\ IsFiniteSet(Handlers)
  /\ Cardinality(Members) \in Nat /\ Cardinality(Unrevoked) \in Nat
  /\ Cardinality(Joining) \in Nat /\ Cardinality(Minting) \in Nat
  /\ Cardinality(Handlers) \in Nat \ {0}
  <1>2. /\ IsFiniteSet(Members) /\ IsFiniteSet(Unrevoked)
        /\ IsFiniteSet(Joining) /\ IsFiniteSet(Minting)
    BY FiniteAssumption, FS_Subset DEF Members, Unrevoked, Joining, Minting
  <1>3. Cardinality(Handlers) \in Nat /\ Cardinality(Handlers) # 0
    BY FiniteAssumption, FS_CardinalityType, FS_EmptySet
  <1> QED
    BY <1>2, <1>3, FiniteAssumption, FS_CardinalityType

\* Taken and reserved places: nothing is taken that was not reserved.
LEMMA PlacesKept ==
  ASSUME NEW T, NEW R, NEW T2, NEW R2, IsFiniteSet(T), IsFiniteSet(R),
         \/ T2 \subseteq T /\ R2 \subseteq R
         \/ \E x, h : T2 \subseteq T \cup {x} /\ h \in R /\ R2 \subseteq R \ {h}
  PROVE  Cardinality(T2) + Cardinality(R2) <= Cardinality(T) + Cardinality(R)
  <1>0. Cardinality(T) \in Nat /\ Cardinality(R) \in Nat
    BY FS_CardinalityType
  <1>1. CASE T2 \subseteq T /\ R2 \subseteq R
    <2>1. /\ IsFiniteSet(T2) /\ Cardinality(T2) <= Cardinality(T)
          /\ IsFiniteSet(R2) /\ Cardinality(R2) <= Cardinality(R)
      BY <1>1, FS_Subset
    <2> QED
      BY <1>0, <2>1, FS_CardinalityType
  <1>2. ASSUME NEW x, NEW h, T2 \subseteq T \cup {x}, h \in R, R2 \subseteq R \ {h}
        PROVE  Cardinality(T2) + Cardinality(R2) <= Cardinality(T) + Cardinality(R)
    <2>1. IsFiniteSet(T \cup {x}) /\ Cardinality(T \cup {x}) <= Cardinality(T) + 1
      <3>1. Cardinality(T \cup {x}) = IF x \in T THEN Cardinality(T) ELSE Cardinality(T) + 1
        BY FS_AddElement
      <3>2. IsFiniteSet(T \cup {x})
        BY FS_AddElement
      <3> QED
        BY <1>0, <3>1, <3>2
    <2>2. IsFiniteSet(R \ {h}) /\ Cardinality(R \ {h}) = Cardinality(R) - 1
      BY <1>2, FS_RemoveElement
    <2>3. /\ IsFiniteSet(T2) /\ Cardinality(T2) <= Cardinality(T \cup {x})
          /\ IsFiniteSet(R2) /\ Cardinality(R2) <= Cardinality(R \ {h})
      BY <1>2, <2>1, <2>2, FS_Subset
    <2>4. /\ Cardinality(T2) \in Nat /\ Cardinality(R2) \in Nat
          /\ Cardinality(T \cup {x}) \in Nat /\ Cardinality(R \ {h}) \in Nat
      BY <2>1, <2>2, <2>3, FS_CardinalityType
    <2> QED
      BY <1>0, <2>1, <2>2, <2>3, <2>4
  <1> QED
    BY <1>1, <1>2

\* A step other than CountSeats takes no seat that was not reserved.
LEMMA SeatsStep ==
  ASSUME IInv, [Next]_vars, ~\E h \in Handlers : CountSeats(h)
  PROVE  \/ Members' \subseteq Members /\ Joining' \subseteq Joining
         \/ \E x, h : /\ Members' \subseteq Members \cup {x}
                      /\ h \in Joining /\ Joining' \subseteq Joining \ {h}
  <1>0. ASSUME NEW h \in Handlers, NEW q, req' = [req EXCEPT ![h] = q],
               q.op = "add" /\ q.at \in {"counted", "ready"} => h \in Joining
        PROVE  Joining' \subseteq Joining
    BY <1>0 DEF Joining, IInv, TypeOK
  <1>1. ASSUME NEW h \in Handlers, req' = [req EXCEPT ![h] = NoRequest]
        PROVE  Joining' \subseteq Joining \ {h}
    BY <1>1 DEF Joining, IInv, TypeOK, NoRequest
  <1>2. ASSUME NEW h \in Handlers, Serve(h), ~Commit(h)
        PROVE  Members' \subseteq Members /\ Joining' \subseteq Joining
    <2>0. req[h] \in Requests /\ WellFormed(req[h])
      BY DEF IInv, TypeOK, RequestsWellFormed, Requests
    <2>1. ASSUME NEW u \in Users, NEW op \in Ops, Authenticate(h, u, op)
          PROVE  Joining' \subseteq Joining
      BY <1>0, <2>1 DEF Authenticate, Progress, NoRequest
    <2>2. ASSUME NEW u \in Users, NEW r \in Grants, CheckNew(h, u, r)
          PROVE  Joining' \subseteq Joining
      BY <1>0, <2>0, <2>2 DEF CheckNew, Progress, Requests, Joining
    <2>3. ASSUME NEW u \in Users, NEW r \in Grants \cup {"none"}, LoadMember(h, u, r)
          PROVE  Joining' \subseteq Joining
      BY <1>0, <2>0, <2>3 DEF LoadMember, Progress, Requests
    <2>4. CASE RefuseIfLastOwner(h)
      <3>1. req[h].op # "add"
        BY <2>0, <2>4 DEF RefuseIfLastOwner, WellFormed
      <3> QED
        BY <1>0, <2>0, <2>4, <3>1 DEF RefuseIfLastOwner, Progress, Requests, Members
    <2>5. ASSUME NEW asked \in Asks, CountKeys(h, asked)
          PROVE  Joining' \subseteq Joining
      BY <1>0, <2>0, <2>5 DEF CountKeys, Progress, Requests
    <2>6. ASSUME Abandon(h) \/ \E k \in Keys : Revoke(h, k)
          PROVE  Joining' \subseteq Joining
      BY <1>1, <2>6 DEF Abandon, Revoke, Progress
    <2>7. Members' = Members
      BY <1>2 DEF Serve, Authenticate, CountSeats, CheckNew, LoadMember, RefuseIfLastOwner,
         CountKeys, Revoke, Abandon, Progress, Members
    <2> QED
      BY <1>2, <2>1, <2>2, <2>3, <2>4, <2>5, <2>6, <2>7 DEF Serve
  <1>3. ASSUME NEW h \in Handlers, Commit(h)
        PROVE  \/ Members' \subseteq Members /\ Joining' \subseteq Joining
               \/ \E x : /\ Members' \subseteq Members \cup {x}
                         /\ h \in Joining /\ Joining' \subseteq Joining \ {h}
    <2>1. Joining' \subseteq Joining \ {h}
      BY <1>1, <1>3 DEF Commit, CommitAdd, CommitChange, CommitRemove, CommitMint, Ready
    <2>2. CASE CommitAdd(h)
      <3>1. h \in Joining
        BY <2>2 DEF CommitAdd, Ready, Joining
      <3>2. Members' \subseteq Members \cup {req[h].about}
        BY <2>2 DEF CommitAdd, Members, IInv, TypeOK
      <3> QED
        BY <2>1, <3>1, <3>2
    <2>3. CASE CommitChange(h) \/ CommitRemove(h) \/ CommitMint(h)
      <3>1. Members' \subseteq Members
        BY <2>3 DEF CommitChange, CommitRemove, CommitMint, Members, IInv, TypeOK
      <3> QED
        BY <2>1, <3>1
    <2> QED
      BY <1>3, <2>2, <2>3 DEF Commit
  <1>4. CASE UNCHANGED vars
    BY <1>4 DEF vars, Members, Joining
  <1>5. CASE \E h \in Handlers : Serve(h)
    BY <1>2, <1>3, <1>5
  <1> QED
    BY <1>4, <1>5 DEF Next

LEMMA NextSeats == IInv /\ SeatsReserved /\ [Next]_vars => SeatsReserved'
  <1> SUFFICES ASSUME IInv, SeatsReserved, [Next]_vars PROVE SeatsReserved'
    OBVIOUS
  <1>1. ASSUME NEW h \in Handlers, CountSeats(h)
        PROVE  SeatsReserved'
    <2>1. Members' = Members /\ Cardinality(Members) <= MaxMembers - 1
      BY <1>1, SetsFinite, PlanAssumption DEF CountSeats, Below, Progress, Members
    <2>2. Cardinality(Joining') <= Cardinality(Handlers) /\ Cardinality(Joining') \in Nat
      <3>1. Joining' \subseteq Handlers
        BY DEF Joining
      <3> QED
        BY <3>1, SetsFinite, FS_Subset, FS_CardinalityType
    <2>3. Cardinality(Members') = Cardinality(Members)
      BY <2>1
    <2> QED
      BY <2>1, <2>2, <2>3, SetsFinite, PlanAssumption DEF SeatsReserved
  <1>2. CASE ~\E h \in Handlers : CountSeats(h)
    <2>1. Cardinality(Members') + Cardinality(Joining')
            <= Cardinality(Members) + Cardinality(Joining)
      BY <1>2, SeatsStep, SetsFinite, PlacesKept
    <2>2. Cardinality(Members') \in Nat /\ Cardinality(Joining') \in Nat
      <3>1. IsFiniteSet(Members') /\ IsFiniteSet(Joining')
        BY FiniteAssumption, FS_Subset DEF Members, Joining
      <3> QED
        BY <3>1, FS_CardinalityType
    <2> QED
      BY <2>1, <2>2, SetsFinite, PlanAssumption DEF SeatsReserved
  <1> QED
    BY <1>1, <1>2

(* However many add_member requests overlap, and whatever else happens to    *)
(* the members meanwhile, the plan's seats are passed by at most one for    *)
(* each request but the first that can run at the same time.                *)
THEOREM SeatsBounded == Spec => []SeatsOvershoot
  <1>1. Init => SeatsReserved
    <2> SUFFICES ASSUME Init PROVE SeatsReserved
      OBVIOUS
    <2>1. Members = {Founder} /\ Joining = {}
      BY FounderAssumption DEF Init, Members, Joining, NoRequest
    <2>2. Cardinality(Members) = 1 /\ Cardinality(Joining) = 0
      BY <2>1, FS_Singleton, FS_EmptySet
    <2> QED
      BY <2>2, SetsFinite, PlanAssumption DEF SeatsReserved
  <1>2. SeatsReserved => SeatsOvershoot
    BY SetsFinite, PlanAssumption DEF SeatsReserved, SeatsOvershoot
  <1> QED
    BY <1>1, <1>2, InitIInv, NextIInv, NextSeats, PTL DEF Spec

\* A step other than CountKeys takes no key that was not reserved.
LEMMA KeysStep ==
  ASSUME IInv, [Next]_vars, ~\E h \in Handlers, asked \in Asks : CountKeys(h, asked)
  PROVE  \/ Unrevoked' \subseteq Unrevoked /\ Minting' \subseteq Minting
         \/ \E x, h : /\ Unrevoked' \subseteq Unrevoked \cup {x}
                      /\ h \in Minting /\ Minting' \subseteq Minting \ {h}
  <1>0. ASSUME NEW h \in Handlers, NEW q, req' = [req EXCEPT ![h] = q],
               q.op = "mint" => q.at # "ready"
        PROVE  Minting' \subseteq Minting
    BY <1>0 DEF Minting, IInv, TypeOK
  <1>1. ASSUME NEW h \in Handlers, req' = [req EXCEPT ![h] = NoRequest]
        PROVE  Minting' \subseteq Minting \ {h}
    BY <1>1 DEF Minting, IInv, TypeOK, NoRequest
  <1>2. ASSUME NEW h \in Handlers, Serve(h), ~CommitMint(h)
        PROVE  Unrevoked' \subseteq Unrevoked /\ Minting' \subseteq Minting
    <2>0. req[h] \in Requests /\ WellFormed(req[h])
      BY DEF IInv, TypeOK, RequestsWellFormed, Requests
    <2>1. ASSUME NEW u \in Users, NEW op \in Ops, Authenticate(h, u, op)
          PROVE  Minting' \subseteq Minting
      BY <1>0, <2>1 DEF Authenticate, NoRequest
    <2>2. ASSUME CountSeats(h) \/ \E u \in Users, r \in Grants : CheckNew(h, u, r)
          PROVE  Minting' \subseteq Minting
      BY <1>0, <2>0, <2>2 DEF CountSeats, CheckNew, Progress, Requests
    <2>3. ASSUME NEW u \in Users, NEW r \in Grants \cup {"none"}, LoadMember(h, u, r)
          PROVE  Minting' \subseteq Minting
      BY <1>0, <2>0, <2>3 DEF LoadMember, Progress, Requests
    <2>4. ASSUME RefuseIfLastOwner(h)
          PROVE  Minting' \subseteq Minting
      <3>1. req[h].op # "mint"
        BY <2>0, <2>4 DEF RefuseIfLastOwner, WellFormed
      <3> QED
        BY <1>0, <2>0, <2>4, <3>1 DEF RefuseIfLastOwner, Progress, Requests
    <2>5. ASSUME Abandon(h) \/ CommitAdd(h) \/ CommitChange(h) \/ CommitRemove(h)
                   \/ \E k \in Keys : Revoke(h, k)
          PROVE  Minting' \subseteq Minting
      BY <1>1, <2>5
         DEF Abandon, CommitAdd, CommitChange, CommitRemove, Ready, Revoke, Progress
    <2>6. Unrevoked' \subseteq Unrevoked
      BY <1>2 DEF Serve, Commit, Authenticate, CountSeats, CheckNew, LoadMember,
         RefuseIfLastOwner, CountKeys, CommitAdd, CommitChange, CommitRemove, Revoke,
         Abandon, Progress, Unrevoked, IInv, TypeOK
    <2>7. ~\E asked \in Asks : CountKeys(h, asked)
      OBVIOUS
    <2>8. Minting' \subseteq Minting
      BY <1>2, <2>1, <2>2, <2>3, <2>4, <2>5, <2>7 DEF Serve, Commit
    <2> QED
      BY <2>6, <2>8
  <1>3. ASSUME NEW h \in Handlers, CommitMint(h)
        PROVE  \E x : /\ Unrevoked' \subseteq Unrevoked \cup {x}
                      /\ h \in Minting /\ Minting' \subseteq Minting \ {h}
    <2>1. PICK k \in Keys : /\ req[h].op = "mint" /\ req[h].at = "ready"
                            /\ req' = [req EXCEPT ![h] = NoRequest]
                            /\ key' = [key EXCEPT ![k] = req[h].scopes]
      BY <1>3 DEF CommitMint, Ready
    <2>2. h \in Minting /\ Minting' \subseteq Minting \ {h}
      BY <1>1, <2>1 DEF Minting
    <2>3. Unrevoked' \subseteq Unrevoked \cup {k}
      BY <2>1 DEF Unrevoked, IInv, TypeOK
    <2> QED
      BY <2>2, <2>3
  <1>4. CASE UNCHANGED vars
    BY <1>4 DEF vars, Unrevoked, Minting
  <1>5. CASE \E h \in Handlers : Serve(h)
    BY <1>2, <1>3, <1>5
  <1> QED
    BY <1>4, <1>5 DEF Next

LEMMA NextKeys == IInv /\ KeysReserved /\ [Next]_vars => KeysReserved'
  <1> SUFFICES ASSUME IInv, KeysReserved, [Next]_vars PROVE KeysReserved'
    OBVIOUS
  <1>1. ASSUME NEW h \in Handlers, NEW asked \in Asks, CountKeys(h, asked)
        PROVE  KeysReserved'
    <2>1. Unrevoked' = Unrevoked /\ Cardinality(Unrevoked) <= MaxApiKeys - 1
      BY <1>1, SetsFinite, PlanAssumption DEF CountKeys, Below, Progress, Unrevoked
    <2>2. Cardinality(Minting') <= Cardinality(Handlers) /\ Cardinality(Minting') \in Nat
      <3>1. Minting' \subseteq Handlers
        BY DEF Minting
      <3> QED
        BY <3>1, SetsFinite, FS_Subset, FS_CardinalityType
    <2>3. Cardinality(Unrevoked') = Cardinality(Unrevoked)
      BY <2>1
    <2> QED
      BY <2>1, <2>2, <2>3, SetsFinite, PlanAssumption DEF KeysReserved
  <1>2. CASE ~\E h \in Handlers, asked \in Asks : CountKeys(h, asked)
    <2>1. Cardinality(Unrevoked') + Cardinality(Minting')
            <= Cardinality(Unrevoked) + Cardinality(Minting)
      BY <1>2, KeysStep, SetsFinite, PlacesKept
    <2>2. Cardinality(Unrevoked') \in Nat /\ Cardinality(Minting') \in Nat
      <3>1. IsFiniteSet(Unrevoked') /\ IsFiniteSet(Minting')
        BY FiniteAssumption, FS_Subset DEF Unrevoked, Minting
      <3> QED
        BY <3>1, FS_CardinalityType
    <2> QED
      BY <2>1, <2>2, SetsFinite, PlanAssumption DEF KeysReserved
  <1> QED
    BY <1>1, <1>2

(* The same for API keys: however many are minted at once, while others are *)
(* revoked, the plan's keys are passed by at most one for each other request. *)
THEOREM KeysBounded == Spec => []KeysOvershoot
  <1>1. Init => KeysReserved
    <2> SUFFICES ASSUME Init PROVE KeysReserved
      OBVIOUS
    <2>1. Unrevoked = {} /\ Minting = {}
      BY DEF Init, Unrevoked, Minting, NoRequest
    <2>2. Cardinality(Unrevoked) = 0 /\ Cardinality(Minting) = 0
      BY <2>1, FS_EmptySet
    <2> QED
      BY <2>2, SetsFinite, PlanAssumption DEF KeysReserved
  <1>2. KeysReserved => KeysOvershoot
    BY SetsFinite, PlanAssumption DEF KeysReserved, KeysOvershoot
  <1> QED
    BY <1>1, <1>2, InitIInv, NextIInv, NextKeys, PTL DEF Spec

-----------------------------------------------------------------------------
(* Only owners, or a role gone stale, unseat owners.                       *)

AInv == IInv /\ Entitled /\ AloneIsAlone /\ Authorised

LEMMA NextAuthorised == AInv /\ [Next]_vars => Authorised'
  <1> SUFFICES ASSUME AInv, [Next]_vars PROVE Authorised'
    OBVIOUS
  <1>1. ASSUME NEW h \in Handlers, Serve(h)
        PROVE  Authorised'
    <2>0. /\ req[h] \in Requests /\ DOMAIN req = Handlers /\ alone \subseteq Handlers
          /\ req' = [req EXCEPT ![h] = req'[h]]
      BY <1>1, ServeMoves DEF AInv, IInv, TypeOK, Requests
    <2>1. \A g \in Handlers : g # h => req'[g] = req[g]
      BY <2>0
    <2>2. ASSUME role' = role, alone' = alone,
                 /\ req'[h].op \in {"change", "remove"} /\ req'[h].at \in {"guarded", "ready"}
                 /\ role[req'[h].about] = "owner"
                 => req'[h].as = "owner"
          PROVE  Authorised'
      BY <2>0, <2>1, <2>2 DEF AInv, Authorised, ActsAsOwner
    <2>3. ASSUME NEW u \in Users, NEW op \in Ops, Authenticate(h, u, op)
          PROVE  Authorised'
      BY <2>0, <2>3 DEF Authenticate, Authorised, NoRequest
    <2>4. CASE CountSeats(h) \/ \E u \in Users, r \in Grants : CheckNew(h, u, r)
      BY <2>0, <2>2, <2>4 DEF CountSeats, CheckNew, Progress, Requests
    <2>5. ASSUME NEW asked \in Asks, CountKeys(h, asked)
          PROVE  Authorised'
      BY <2>0, <2>2, <2>5 DEF CountKeys, Progress, Requests
    <2>6. ASSUME NEW u \in Users, NEW r \in Grants \cup {"none"}, LoadMember(h, u, r)
          PROVE  Authorised'
      BY <2>0, <2>2, <2>6 DEF LoadMember, Progress, Requests
    <2>7. CASE RefuseIfLastOwner(h)
      <3>1. /\ role' = role /\ alone' = alone
            /\ req'[h].op = req[h].op /\ req'[h].as = req[h].as /\ req'[h].about = req[h].about
        BY <2>0, <2>7 DEF RefuseIfLastOwner, Progress, Requests
      <3>2. /\ h \in alone /\ req[h].op \in {"change", "remove"}
            /\ role[req[h].about] = "owner"
            => req[h].as = "owner"
        BY <2>7 DEF RefuseIfLastOwner, AInv, Authorised, ActsAsOwner
      <3> QED
        BY <2>0, <2>1, <3>1, <3>2 DEF AInv, Authorised, ActsAsOwner
    <2>8. ASSUME req' = [req EXCEPT ![h] = NoRequest], req[h] # NoRequest, alone' = alone
          PROVE  Authorised'
      BY <2>0, <2>8 DEF AInv, AloneIsAlone, Authorised, NoRequest
    <2>9. CASE Commit(h) \/ Abandon(h) \/ \E k \in Keys : Revoke(h, k)
      BY <2>8, <2>9 DEF Commit, CommitAdd, CommitChange, CommitRemove, CommitMint, Ready,
         Revoke, Abandon, Progress, NoRequest
    <2> QED
      BY <1>1, <2>3, <2>4, <2>5, <2>6, <2>7, <2>9 DEF Serve
  <1>2. CASE UNCHANGED vars
    BY <1>2 DEF vars, AInv, Authorised, ActsAsOwner
  <1> QED
    BY <1>1, <1>2 DEF Next

LEMMA NextAInv == AInv /\ [Next]_vars => AInv'
  BY NextIInv, NextEntitled, NextAlone, NextAuthorised DEF AInv

LEMMA InitAInv == Init => AInv
  <1>1. Init => Entitled /\ AloneIsAlone /\ Authorised
    BY DEF Init, Entitled, AloneIsAlone, Authorised, NoRequest
  <1> QED
    BY <1>1, InitIInv DEF AInv

(* "Only an owner can remove an owner" holds of every sequence of requests,  *)
(* and of all that run in parallel but those whose loaded role went stale:   *)
(* whoever loses an owner's role without an owner's request loses it to one  *)
(* that overlapped another.                                                 *)
THEOREM OwnersUnseatedFairly == Spec => OwnersUnseatedByOwners
  <1> DEFINE Unseated == \A u \in Users : role[u] = "owner" /\ role'[u] # "owner" =>
               \E h \in Handlers : req[h].about = u /\ req'[h] = NoRequest
                                   /\ (h \in alone => ActsAsOwner(h))
  <1>1. ASSUME AInv, [Next]_vars
        PROVE  [Unseated]_vars
    <2> SUFFICES ASSUME NEW u \in Users, role[u] = "owner", role'[u] # "owner"
                 PROVE  \E h \in Handlers : req[h].about = u /\ req'[h] = NoRequest
                                            /\ (h \in alone => ActsAsOwner(h))
      OBVIOUS
    <2>1. PICK h \in Handlers : CommitAdd(h) \/ CommitChange(h) \/ CommitRemove(h)
      BY <1>1, OnlyCommitsChangeRoles
    <2>2. req[h].at = "ready" /\ req'[h] = NoRequest
      BY <1>1, <2>1 DEF CommitAdd, CommitChange, CommitRemove, Ready, AInv, IInv, TypeOK
    <2>3. req[h].about = u /\ req[h].op \in {"change", "remove"}
      <3>1. CASE CommitAdd(h)
        BY <1>1, <3>1 DEF CommitAdd, AInv, IInv, TypeOK
      <3>2. CASE CommitChange(h)
        BY <1>1, <3>2 DEF CommitChange, Ready, AInv, IInv, TypeOK
      <3>3. CASE CommitRemove(h)
        BY <1>1, <3>3 DEF CommitRemove, Ready, AInv, IInv, TypeOK
      <3> QED
        BY <2>1, <3>1, <3>2, <3>3
    <2>4. h \in alone => ActsAsOwner(h)
      BY <1>1, <2>2, <2>3 DEF AInv, Authorised
    <2> QED
      BY <2>2, <2>3, <2>4
  <1> QED
    BY <1>1, InitAInv, NextAInv, PTL DEF Spec, OwnersUnseatedByOwners
=============================================================================
