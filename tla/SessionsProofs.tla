--------------------------- MODULE SessionsProofs ---------------------------
(***************************************************************************)
(* What password changes guarantee for any number of requests, passwords   *)
(* and changes and any length of time, proved.                             *)
(***************************************************************************)
EXTENDS Sessions, TLAPS

-----------------------------------------------------------------------------
(* Time.                                                                   *)

LEMMA RoundedDown ==
  \A n \in Ticks : IssuedAt(n) \in Ticks /\ IssuedAt(n) <= n
  <1> TAKE n \in Ticks
  <1>1. n \in Nat /\ n <= LastTick /\ Second \in Nat \ {0} /\ LastTick \in Nat
    BY ClockAssumption DEF Ticks
  <1>2. n = Second * (n \div Second) + (n % Second)
    BY <1>1
  <1>3. (n \div Second) \in Nat /\ (n % Second) \in 0..(Second - 1)
    BY <1>1
  <1>4. (n \div Second) * Second \in Nat /\ (n \div Second) * Second <= n
    BY <1>1, <1>2, <1>3
  <1> QED
    BY <1>1, <1>4 DEF IssuedAt, Ticks

-----------------------------------------------------------------------------
(* What the steps do to the requests.                                      *)

LEMMA NotAlone ==
  ASSUME NEW r \in Requests, NEW b \in BOOLEAN, NEW q, q = [r EXCEPT !.alone = b]
  PROVE  /\ q \in Requests
         /\ q.op = r.op /\ q.at = r.at /\ q.password = r.password /\ q.era = r.era
         /\ q.since = r.since /\ q.now = r.now
         /\ q.rehash = r.rehash /\ q.alone = b
  BY DEF Requests

LEMMA EnterSets ==
  ASSUME TypeOK, NEW h \in Handlers, NEW r \in Requests, Enter(h, r)
  PROVE  /\ req[h] = NoRequest
         /\ req' \in [Handlers -> Requests]
         /\ req'[h] = [r EXCEPT !.alone = (Busy = {})]
         /\ \A g \in Handlers : g # h =>
              req'[g] = IF req[g].at # "idle" THEN [req[g] EXCEPT !.alone = FALSE]
                        ELSE req[g]
  <1>1. req \in [Handlers -> Requests]
    BY DEF TypeOK
  <1>2. [r EXCEPT !.alone = (Busy = {})] \in Requests
    BY NotAlone
  <1>3. \A g \in Handlers : [req[g] EXCEPT !.alone = FALSE] \in Requests
    BY <1>1, NotAlone
  <1> QED
    BY <1>1, <1>2, <1>3 DEF Enter

\* Field by field: the request that enters, and those it finds.
LEMMA EnterFields ==
  ASSUME TypeOK, NEW h \in Handlers, NEW r \in Requests, Enter(h, r)
  PROVE  /\ req'[h].op = r.op /\ req'[h].at = r.at /\ req'[h].password = r.password
         /\ req'[h].era = r.era /\ req'[h].since = r.since /\ req'[h].now = r.now
         /\ req'[h].rehash = r.rehash /\ req'[h].alone = (Busy = {})
         /\ \A g \in Handlers : g # h =>
              /\ req'[g].op = req[g].op /\ req'[g].at = req[g].at
              /\ req'[g].password = req[g].password /\ req'[g].era = req[g].era
              /\ req'[g].since = req[g].since /\ req'[g].now = req[g].now
              /\ req'[g].rehash = req[g].rehash
              /\ req[g].at # "idle" => req'[g].alone = FALSE
              /\ req[g].at = "idle" => req'[g] = req[g]
  <1> DEFINE b == (Busy = {})
  <1>1. b \in BOOLEAN /\ req'[h] = [r EXCEPT !.alone = b]
    BY EnterSets
  <1> HIDE DEF b
  <1>2. /\ req'[h].op = r.op /\ req'[h].at = r.at /\ req'[h].password = r.password
        /\ req'[h].era = r.era /\ req'[h].since = r.since /\ req'[h].now = r.now
        /\ req'[h].rehash = r.rehash /\ req'[h].alone = b
    BY <1>1, NotAlone
  <1>3. ASSUME NEW g \in Handlers, g # h, req[g].at # "idle"
        PROVE  /\ req'[g].op = req[g].op /\ req'[g].at = req[g].at
               /\ req'[g].password = req[g].password /\ req'[g].era = req[g].era
               /\ req'[g].since = req[g].since /\ req'[g].now = req[g].now
               /\ req'[g].rehash = req[g].rehash /\ req'[g].alone = FALSE
    <2>1. req[g] \in Requests /\ req'[g] = [req[g] EXCEPT !.alone = FALSE]
      BY <1>3, EnterSets DEF TypeOK
    <2> QED
      BY <2>1, NotAlone
  <1>4. \A g \in Handlers : g # h /\ req[g].at = "idle" => req'[g] = req[g]
    BY EnterSets
  <1> QED
    BY <1>2, <1>3, <1>4, Zenon DEF b

\* A request that comes in keeps the types.
LEMMA EnterTypes ==
  ASSUME TypeOK, NEW h \in Handlers, NEW r \in Requests, Enter(h, r),
         r.at # "idle", WellFormed(r)
  PROVE  TypeOK'
  <1>1. WellFormed(req'[h])
    BY EnterFields DEF WellFormed
  <1>2. ASSUME NEW g \in Handlers, g # h
        PROVE  WellFormed(req'[g])
    <2>1. WellFormed(req[g])
      BY DEF TypeOK
    <2> QED
      BY <1>2, <2>1, EnterFields DEF WellFormed
  <1> QED
    BY <1>1, <1>2, EnterSets DEF TypeOK, Enter

LEMMA LeaveSets ==
  ASSUME TypeOK, NEW h \in Handlers, Leave(h)
  PROVE  /\ req' \in [Handlers -> Requests]
         /\ req'[h] = NoRequest
         /\ \A g \in Handlers : g # h => req'[g] = req[g]
  <1>1. NoRequest \in Requests
    BY ClockAssumption, BoundsAssumption DEF NoRequest, Requests, Ticks, NoPassword
  <1> QED
    BY <1>1 DEF TypeOK, Leave

\* Issue and Stamp advance a request, with a time.
LEMMA AdvanceSets ==
  ASSUME TypeOK, NEW h \in Handlers, NEW n \in Ticks,
         req' = [req EXCEPT ![h].at = "done", ![h].now = n]
  PROVE  /\ req' \in [Handlers -> Requests]
         /\ req'[h].op = req[h].op /\ req'[h].at = "done" /\ req'[h].now = n
         /\ req'[h].password = req[h].password /\ req'[h].era = req[h].era
         /\ req'[h].since = req[h].since
         /\ req'[h].rehash = req[h].rehash /\ req'[h].alone = req[h].alone
         /\ \A g \in Handlers : g # h => req'[g] = req[g]
  <1>1. req[h] \in Requests /\ req \in [Handlers -> Requests]
    BY DEF TypeOK
  <1>2. /\ req'[h] = [req[h] EXCEPT !.at = "done", !.now = n]
        /\ \A g \in Handlers : g # h => req'[g] = req[g]
    BY <1>1
  <1>3. [req[h] EXCEPT !.at = "done", !.now = n] \in Requests
    BY <1>1 DEF Requests
  <1>5. req' \in [Handlers -> Requests]
    BY <1>1, <1>2, <1>3
  <1>6. req'[h].op = req[h].op /\ req'[h].at = "done" /\ req'[h].now = n
    BY <1>1, <1>2 DEF Requests
  <1>7. /\ req'[h].password = req[h].password /\ req'[h].era = req[h].era
        /\ req'[h].since = req[h].since
    BY <1>1, <1>2 DEF Requests
  <1>8. req'[h].rehash = req[h].rehash
    BY <1>1, <1>2 DEF Requests
  <1>9. req'[h].alone = req[h].alone
    BY <1>1, <1>2 DEF Requests
  <1> QED
    BY <1>2, <1>5, <1>6, <1>7, <1>8, <1>9, Zenon

\* An advanced request keeps the types.
LEMMA AdvanceTypes ==
  ASSUME TypeOK, NEW h \in Handlers, NEW n \in Ticks,
         req' = [req EXCEPT ![h].at = "done", ![h].now = n],
         UNCHANGED <<clock, cost, user, issued, chosen, changes>>
  PROVE  TypeOK'
  <1>1. WellFormed(req'[h])
    <2>1. WellFormed(req[h])
      BY DEF TypeOK
    <2> QED
      BY <2>1, AdvanceSets DEF WellFormed
  <1>2. \A g \in Handlers : g # h => WellFormed(req'[g])
    BY AdvanceSets DEF TypeOK
  <1> QED
    BY <1>1, <1>2, AdvanceSets DEF TypeOK

\* A request that leaves keeps the types of the requests.
LEMMA LeaveTypes ==
  ASSUME TypeOK, NEW h \in Handlers, Leave(h)
  PROVE  req' \in [Handlers -> Requests] /\ \A g \in Handlers : WellFormed(req'[g])
  <1>1. WellFormed(NoRequest)
    BY DEF WellFormed, NoRequest
  <1> QED
    BY <1>1, LeaveSets DEF TypeOK

-----------------------------------------------------------------------------
(* Type correctness.                                                       *)

LEMMA InitTypes == Init => TypeOK
  <1> SUFFICES ASSUME Init PROVE TypeOK
    OBVIOUS
  <1>1. 0 \in Ticks /\ 0 \in 0..MaxCost /\ 0 \in 0..MaxChanges
    BY ClockAssumption, BoundsAssumption DEF Ticks
  <1>2. NoRequest \in Requests
    BY <1>1 DEF NoRequest, Requests
  <1>3. WellFormed(NoRequest)
    BY DEF WellFormed, NoRequest
  <1>4. /\ req \in [Handlers -> Requests]
        /\ \A h \in Handlers : WellFormed(req[h])
    BY <1>2, <1>3 DEF Init
  <1>5. user \in [password : Passwords \cup {NoPassword}, cost : 0..MaxCost,
                  validFrom : Ticks \cup {Never}, active : BOOLEAN]
    BY <1>1 DEF Init
  <1> QED
    BY <1>1, <1>4, <1>5 DEF Init, TypeOK

\* The requests that come in are requests.
LEMMA RequestsTyped ==
  ASSUME TypeOK, NEW p \in Passwords
  PROVE  /\ NoRequest \in Requests
         /\ [NoRequest EXCEPT !.op = "login", !.at = "read", !.since = clock,
                !.password = p, !.rehash = (user.cost # cost), !.era = changes] \in Requests
         /\ [NoRequest EXCEPT !.op = "change", !.at = "read", !.since = clock,
                !.password = p] \in Requests
  <1> DEFINE rehash == (user.cost # cost)
  <1>1. clock \in Ticks /\ 0 \in Ticks /\ changes \in 0..MaxChanges /\ 0 \in 0..MaxChanges
    BY ClockAssumption, BoundsAssumption DEF TypeOK, Ticks
  <1>2. NoRequest \in Requests
    BY <1>1 DEF NoRequest, Requests
  <1>3. rehash \in BOOLEAN
    OBVIOUS
  <1> HIDE DEF rehash
  <1>4. [NoRequest EXCEPT !.op = "login", !.at = "read", !.since = clock,
           !.password = p, !.rehash = rehash, !.era = changes] \in Requests
    BY <1>1, <1>3 DEF NoRequest, Requests
  <1>5. [NoRequest EXCEPT !.op = "change", !.at = "read", !.since = clock,
           !.password = p] \in Requests
    BY <1>1 DEF NoRequest, Requests
  <1> QED
    BY <1>2, <1>4, <1>5 DEF rehash

LEMMA RefreshTyped ==
  ASSUME TypeOK, NEW t \in issued
  PROVE  /\ t \in Pairs
         /\ [NoRequest EXCEPT !.op = "refresh", !.at = "read", !.since = clock,
                !.era = t.era] \in Requests
  <1>1. t \in Pairs
    BY DEF TypeOK
  <1>2. t.era \in 0..MaxChanges
    BY <1>1 DEF Pairs
  <1>3. clock \in Ticks /\ 0 \in Ticks
    BY ClockAssumption DEF TypeOK, Ticks
  <1>4. [NoRequest EXCEPT !.op = "refresh", !.at = "read", !.since = clock,
           !.era = t.era] \in Requests
    BY <1>2, <1>3 DEF NoRequest, Requests
  <1> QED
    BY <1>1, <1>4

LEMMA NextTypes ==
  ASSUME TypeOK, [Next]_vars
  PROVE  TypeOK'
  <1>0. clock \in Ticks /\ LastTick \in Nat /\ MaxCost \in Nat /\ MaxChanges \in Nat
    BY ClockAssumption, BoundsAssumption DEF TypeOK
  <1>1. ASSUME NEW p \in Passwords, Signup(p)
        PROVE  TypeOK'
    <2>1. IssuedAt(clock) \in Ticks /\ 0 \in 0..MaxChanges
      BY <1>0, RoundedDown
    <2>2. user' \in [password : Passwords \cup {NoPassword}, cost : 0..MaxCost,
                     validFrom : Ticks \cup {Never}, active : BOOLEAN]
      BY <1>1 DEF Signup, TypeOK
    <2>3. issued' \subseteq Pairs
      BY <1>1, <2>1 DEF Signup, Pairs
    <2> QED
      BY <1>1, <2>2, <2>3 DEF Signup, TypeOK
  <1>2. ASSUME NEW h \in Handlers, NEW p \in Passwords, Login(h, p)
        PROVE  TypeOK'
    <2> DEFINE r == [NoRequest EXCEPT !.op = "login", !.at = "read", !.since = clock,
                        !.password = p, !.rehash = (user.cost # cost), !.era = changes]
    <2>1. r \in Requests /\ Enter(h, r)
      BY <1>2, RequestsTyped DEF Login
    <2>2. r.op = "login" /\ r.at = "read" /\ r.password = p
      BY DEF NoRequest
    <2>3. WellFormed(r)
      BY <2>2 DEF WellFormed
    <2> HIDE DEF r
    <2> QED
      BY <2>1, <2>2, <2>3, EnterTypes
  <1>3. ASSUME NEW h \in Handlers, NEW t \in issued, Refresh(h, t)
        PROVE  TypeOK'
    <2> DEFINE r == [NoRequest EXCEPT !.op = "refresh", !.at = "read", !.since = clock,
                        !.era = t.era]
    <2>1. r \in Requests /\ Enter(h, r)
      BY <1>3, RefreshTyped DEF Refresh
    <2>2. r.op = "refresh" /\ r.at = "read" /\ ~r.rehash
      BY DEF NoRequest
    <2>3. WellFormed(r)
      BY <2>2 DEF WellFormed
    <2> HIDE DEF r
    <2> QED
      BY <2>1, <2>2, <2>3, EnterTypes
  <1>4. ASSUME NEW h \in Handlers, NEW p \in Passwords,
               ChangePassword(h, p)
        PROVE  TypeOK'
    <2> DEFINE r == [NoRequest EXCEPT !.op = "change", !.at = "read", !.since = clock,
                        !.password = p]
    <2>1. r \in Requests /\ Enter(h, r)
      BY <1>4, RequestsTyped DEF ChangePassword
    <2>2. r.op = "change" /\ r.at = "read" /\ r.password = p /\ ~r.rehash
      BY DEF NoRequest
    <2>3. WellFormed(r)
      BY <2>2 DEF WellFormed
    <2> HIDE DEF r
    <2> QED
      BY <2>1, <2>2, <2>3, EnterTypes
  <1>5. ASSUME NEW h \in Handlers, Issue(h)
        PROVE  TypeOK'
    <2>1. IssuedAt(clock) \in Ticks
      BY <1>0, RoundedDown
    <2> QED
      BY <1>5, <2>1, AdvanceTypes DEF Issue
  <1>6. ASSUME NEW h \in Handlers, Stamp(h)
        PROVE  TypeOK'
    BY <1>0, <1>6, AdvanceTypes DEF Stamp
  <1>7. ASSUME NEW h \in Handlers, CommitSession(h)
        PROVE  TypeOK'
    <2>1. req[h] \in Requests
      BY DEF TypeOK
    <2>2. [era |-> req[h].era, iat |-> req[h].now] \in Pairs
      BY <2>1 DEF Requests, Pairs
    <2>3. user' \in [password : Passwords \cup {NoPassword}, cost : 0..MaxCost,
                     validFrom : Ticks \cup {Never}, active : BOOLEAN]
      BY <1>7, <2>1 DEF CommitSession, TypeOK, Requests
    <2>4. Leave(h)
      BY <1>7 DEF CommitSession
    <2>5. req' \in [Handlers -> Requests] /\ \A g \in Handlers : WellFormed(req'[g])
      BY <2>4, LeaveTypes
    <2> QED
      BY <1>7, <2>2, <2>3, <2>5 DEF CommitSession, TypeOK
  <1>8. ASSUME NEW h \in Handlers, CommitChange(h)
        PROVE  TypeOK'
    <2>1. req[h] \in Requests
      BY DEF TypeOK
    <2>2. req[h].password \in Passwords /\ req[h].now \in Ticks
      <3>1. WellFormed(req[h]) /\ req[h].op = "change"
        BY <1>8 DEF CommitChange, TypeOK
      <3> QED
        BY <2>1, <3>1 DEF WellFormed, Requests
    <2>3. changes' \in 0..MaxChanges
      BY <1>0, <1>8 DEF CommitChange, TypeOK
    <2>4. Leave(h)
      BY <1>8 DEF CommitChange
    <2>5. req' \in [Handlers -> Requests] /\ \A g \in Handlers : WellFormed(req'[g])
      BY <2>4, LeaveTypes
    <2>6. user' \in [password : Passwords \cup {NoPassword}, cost : 0..MaxCost,
                     validFrom : Ticks \cup {Never}, active : BOOLEAN]
      BY <1>8, <2>2 DEF CommitChange, TypeOK
    <2> QED
      BY <1>8, <2>2, <2>3, <2>5, <2>6 DEF CommitChange, TypeOK
  <1>9. ASSUME NEW h \in Handlers, Abandon(h)
        PROVE  TypeOK'
    <2>1. req' \in [Handlers -> Requests] /\ \A g \in Handlers : WellFormed(req'[g])
      BY <1>9, LeaveTypes DEF Abandon
    <2> QED
      BY <1>9, <2>1 DEF Abandon, TypeOK
  <1>10. CASE Disable
    <2>1. user' \in [password : Passwords \cup {NoPassword}, cost : 0..MaxCost,
                     validFrom : Ticks \cup {Never}, active : BOOLEAN]
      BY <1>10 DEF Disable, TypeOK
    <2> QED
      BY <1>10, <2>1 DEF Disable, TypeOK
  <1>11. CASE Upgrade \/ Tick \/ UNCHANGED vars
    <2>1. cost' \in 0..MaxCost /\ clock' \in Ticks
      BY <1>0, <1>11 DEF Upgrade, Tick, vars, TypeOK, Ticks
    <2> QED
      BY <1>11, <2>1 DEF Upgrade, Tick, vars, TypeOK
  <1> QED
    BY <1>1, <1>2, <1>3, <1>4, <1>5, <1>6, <1>7, <1>8, <1>9, <1>10, <1>11 DEF Next, Serve

(* The types of Sessions hold for any number of requests and passwords.     *)
THEOREM TypeCorrect == Spec => []TypeOK
  BY InitTypes, NextTypes, PTL DEF Spec

-----------------------------------------------------------------------------
(* A request that is alone has been alone all along.                       *)

LEMMA NextAlone ==
  ASSUME TypeOK, AloneIsAlone, [Next]_vars
  PROVE  AloneIsAlone'
  <1>1. ASSUME NEW h \in Handlers, NEW r \in Requests, Enter(h, r), r.at # "idle"
        PROVE  AloneIsAlone'
    <2>1. req'[h].alone = (Busy = {}) /\ req'[h].at # "idle"
      BY <1>1, EnterFields
    <2>2. \A g \in Handlers : g # h =>
            (req'[g].at # "idle" <=> req[g].at # "idle")
      BY <1>1, EnterFields
    <2>3. \A g \in Handlers : g # h /\ req'[g].at # "idle" => ~req'[g].alone
      BY <1>1, EnterFields
    <2>4. Busy = {} => Busy' = {h}
      BY <2>1, <2>2 DEF Busy
    <2> QED
      BY <2>1, <2>3, <2>4 DEF AloneIsAlone
  <1>2. ASSUME NEW h \in Handlers, Leave(h)
        PROVE  AloneIsAlone'
    <2>1. req'[h] = NoRequest /\ \A g \in Handlers : g # h => req'[g] = req[g]
      BY <1>2, LeaveSets
    <2>2. Busy' = Busy \ {h} /\ req'[h].at = "idle"
      BY <2>1 DEF Busy, NoRequest
    <2> SUFFICES ASSUME NEW g \in Handlers, req'[g].at # "idle", req'[g].alone
                 PROVE  Busy' = {g}
      BY DEF AloneIsAlone
    <2>3. g # h /\ Busy = {g}
      BY <2>1, <2>2 DEF AloneIsAlone
    <2> QED
      BY <2>2, <2>3
  <1>3. ASSUME NEW h \in Handlers, NEW n \in Ticks, req[h].at # "idle",
               req' = [req EXCEPT ![h].at = "done", ![h].now = n]
        PROVE  AloneIsAlone'
    <2>1. /\ req'[h].at # "idle" /\ req'[h].alone = req[h].alone
          /\ \A g \in Handlers : g # h => req'[g] = req[g]
      BY <1>3, AdvanceSets
    <2>2. Busy' = Busy
      BY <1>3, <2>1 DEF Busy
    <2> QED
      BY <1>3, <2>1, <2>2 DEF AloneIsAlone
  <1>4. ASSUME NEW h \in Handlers, Serve(h)
        PROVE  AloneIsAlone'
    <2>1. ASSUME NEW p \in Passwords, Login(h, p)
          PROVE  AloneIsAlone'
      <3> DEFINE r == [NoRequest EXCEPT !.op = "login", !.at = "read", !.since = clock,
                          !.password = p, !.rehash = (user.cost # cost), !.era = changes]
      <3>1. r \in Requests /\ Enter(h, r)
        BY <2>1, RequestsTyped DEF Login
      <3>2. r.at # "idle"
        BY DEF NoRequest
      <3> HIDE DEF r
      <3> QED
        BY <1>1, <3>1, <3>2
    <2>2. ASSUME NEW t \in issued, Refresh(h, t)
          PROVE  AloneIsAlone'
      <3> DEFINE r == [NoRequest EXCEPT !.op = "refresh", !.at = "read", !.since = clock,
                          !.era = t.era]
      <3>1. r \in Requests /\ Enter(h, r)
        BY <2>2, RefreshTyped DEF Refresh
      <3>2. r.at # "idle"
        BY DEF NoRequest
      <3> HIDE DEF r
      <3> QED
        BY <1>1, <3>1, <3>2
    <2>3. ASSUME NEW p \in Passwords, ChangePassword(h, p)
          PROVE  AloneIsAlone'
      <3> DEFINE r == [NoRequest EXCEPT !.op = "change", !.at = "read", !.since = clock,
                          !.password = p]
      <3>1. r \in Requests /\ Enter(h, r)
        BY <2>3, RequestsTyped DEF ChangePassword
      <3>2. r.at # "idle"
        BY DEF NoRequest
      <3> HIDE DEF r
      <3> QED
        BY <1>1, <3>1, <3>2
    <2>4. CASE Issue(h)
      <3>1. IssuedAt(clock) \in Ticks
        BY RoundedDown DEF TypeOK
      <3> QED
        BY <1>3, <2>4, <3>1 DEF Issue
    <2>5. CASE Stamp(h)
      BY <1>3, <2>5 DEF Stamp, TypeOK
    <2>6. CASE CommitSession(h) \/ CommitChange(h) \/ Abandon(h)
      BY <1>2, <2>6 DEF CommitSession, CommitChange, Abandon
    <2> QED
      BY <1>4, <2>1, <2>2, <2>3, <2>4, <2>5, <2>6 DEF Serve
  <1>5. CASE (\E p \in Passwords : Signup(p)) \/ Disable \/ Upgrade \/ Tick \/ UNCHANGED vars
    BY <1>5 DEF Signup, Disable, Upgrade, Tick, vars, AloneIsAlone, Busy
  <1> QED
    BY <1>4, <1>5 DEF Next

-----------------------------------------------------------------------------
(* The invariant.                                                          *)

SessionInv == TypeOK /\ AloneIsAlone /\ IssuedBefore /\ AloneKnows

LEMMA Numbers ==
  ASSUME TypeOK
  PROVE  /\ clock \in Nat /\ changes \in Nat
         /\ \A t \in issued : t \in Pairs /\ t.iat \in Nat /\ t.era \in Nat
         /\ \A h \in Handlers :
              /\ req[h] \in Requests
              /\ req[h].since \in Nat /\ req[h].now \in Nat /\ req[h].era \in Nat
  <1>1. clock \in Nat /\ changes \in Nat
    BY ClockAssumption, BoundsAssumption DEF TypeOK, Ticks
  <1>2. \A t \in issued : t \in Pairs
    BY DEF TypeOK
  <1>3. \A t \in issued : t.iat \in Nat /\ t.era \in Nat
    BY <1>2, ClockAssumption, BoundsAssumption DEF Pairs, Ticks
  <1>4. \A h \in Handlers : req[h] \in Requests
    BY DEF TypeOK
  <1>5. \A h \in Handlers :
          req[h].since \in Nat /\ req[h].now \in Nat /\ req[h].era \in Nat
    <2> TAKE h \in Handlers
    <2>1. req[h].since \in Ticks /\ req[h].now \in Ticks /\ req[h].era \in 0..MaxChanges
      BY <1>4 DEF Requests
    <2> QED
      BY <2>1, ClockAssumption, BoundsAssumption DEF Ticks
  <1> QED
    BY <1>1, <1>2, <1>3, <1>4, <1>5

\* Whoever has left has no operation.
LEMMA IdleHasNone ==
  ASSUME TypeOK, NEW h \in Handlers, req[h].at = "idle"
  PROVE  req[h].op = "none" /\ req[h] = NoRequest
  BY DEF TypeOK, WellFormed, NoRequest

LEMMA SameSurvivors ==
  ASSUME UNCHANGED <<issued, changes>>, user'.validFrom = user.validFrom
  PROVE  Survivors' = Survivors
  BY DEF Survivors, Revoked

\* Requests that come in: what they read is what there is.
LEMMA EnterKeeps ==
  ASSUME SessionInv, NEW h \in Handlers, NEW r \in Requests, Enter(h, r),
         r.at = "read", r.since = clock, r.now = 0, r.era <= changes,
         user.password # NoPassword,
         r.op = "login" => r.password = user.password /\ r.era = changes,
         r.op = "refresh" /\ Survivors = {} => r.era = changes
  PROVE  IssuedBefore' /\ AloneKnows'
  <1>0. TypeOK /\ AloneIsAlone /\ IssuedBefore /\ AloneKnows
    BY DEF SessionInv
  <1>1. UNCHANGED <<clock, cost, user, issued, chosen, changes>>
    BY DEF Enter
  <1>2. Survivors' = Survivors
    BY <1>1, SameSurvivors
  <1>3. /\ req'[h].op = r.op /\ req'[h].at = "read" /\ req'[h].password = r.password
        /\ req'[h].era = r.era /\ req'[h].since = clock /\ req'[h].now = 0
        /\ \A g \in Handlers : g # h =>
             /\ req'[g].op = req[g].op /\ req'[g].at = req[g].at
             /\ req'[g].password = req[g].password /\ req'[g].era = req[g].era
             /\ req'[g].since = req[g].since /\ req'[g].now = req[g].now
    BY <1>0, EnterFields
  <1>4. ASSUME NEW g \in Handlers, g # h, req'[g].alone
        PROVE  req[g] = NoRequest /\ req[g].op = "none"
    BY <1>0, <1>4, EnterFields, IdleHasNone
  <1>5. IssuedBefore'
    <2>1. \A t \in issued' : t.iat <= clock' /\ t.era <= changes'
      BY <1>0, <1>1 DEF IssuedBefore
    <2>2. \A g \in Handlers :
            /\ req'[g].since <= clock' /\ req'[g].now <= clock' /\ req'[g].era <= changes'
            /\ req'[g].op = "change" /\ req'[g].at = "done" => req'[g].since < req'[g].now
      BY <1>0, <1>1, <1>3, Numbers DEF IssuedBefore
    <2>3. ASSUME NEW g \in Handlers, req'[g].op = "change", req'[g].alone, NEW t \in issued'
          PROVE  t.iat <= req'[g].since
      <3>1. g = h
        BY <2>3, <1>3, <1>4
      <3> QED
        BY <3>1, <1>0, <1>1, <1>3 DEF IssuedBefore
    <2>4. user'.password # NoPassword
      BY <1>1
    <2> QED
      BY <2>1, <2>2, <2>3, <2>4 DEF IssuedBefore
  <1>6. AloneKnows'
    BY <1>1, <1>2, <1>3, <1>4 DEF AloneKnows
  <1> QED
    BY <1>5, <1>6

\* Requests that get on: they know what they knew.
LEMMA AdvanceKeeps ==
  ASSUME SessionInv, NEW h \in Handlers, NEW n \in Ticks, n <= clock,
         req' = [req EXCEPT ![h].at = "done", ![h].now = n], req[h].at # "idle",
         req[h].op = "change" => req[h].since < n,
         UNCHANGED <<clock, cost, user, issued, chosen, changes>>
  PROVE  IssuedBefore' /\ AloneKnows'
  <1>0. TypeOK /\ AloneIsAlone /\ IssuedBefore /\ AloneKnows
    BY DEF SessionInv
  <1>1. /\ req'[h].op = req[h].op /\ req'[h].at = "done" /\ req'[h].now = n
        /\ req'[h].password = req[h].password /\ req'[h].era = req[h].era
        /\ req'[h].since = req[h].since /\ req'[h].alone = req[h].alone
        /\ \A g \in Handlers : g # h => req'[g] = req[g]
    BY <1>0, AdvanceSets
  <1>2. Survivors' = Survivors
    BY SameSurvivors
  <1>3. user.password # NoPassword
    BY <1>0 DEF IssuedBefore, Busy
  <1>4. IssuedBefore'
    <2>1. \A g \in Handlers :
            /\ req'[g].since <= clock' /\ req'[g].now <= clock' /\ req'[g].era <= changes'
            /\ req'[g].op = "change" /\ req'[g].at = "done" => req'[g].since < req'[g].now
            /\ req'[g].op = "change" /\ req'[g].alone =>
                 \A t \in issued' : t.iat <= req'[g].since
      <3> TAKE g \in Handlers
      <3>1. CASE g # h
        BY <3>1, <1>0, <1>1 DEF IssuedBefore
      <3>2. CASE g = h
        BY <3>2, <1>0, <1>1 DEF IssuedBefore
      <3> QED
        BY <3>1, <3>2
    <2> QED
      BY <2>1, <1>0, <1>3 DEF IssuedBefore
  <1>5. AloneKnows'
    BY <1>0, <1>1, <1>2 DEF AloneKnows
  <1> QED
    BY <1>4, <1>5

\* Requests that leave: nobody alone is left.
LEMMA LeaveKeeps ==
  ASSUME SessionInv, NEW h \in Handlers, Leave(h), req[h].at # "idle",
         clock' = clock, changes' \in Nat, changes' >= changes,
         \A t \in issued' : t.iat <= clock /\ t.era <= changes',
         user'.password # NoPassword
  PROVE  IssuedBefore' /\ AloneKnows'
  <1>0. TypeOK /\ AloneIsAlone /\ IssuedBefore /\ AloneKnows
    BY DEF SessionInv
  <1>1. req'[h] = NoRequest /\ \A g \in Handlers : g # h => req'[g] = req[g]
    BY <1>0, LeaveSets
  <1>2. ASSUME NEW g \in Handlers, req'[g].alone
        PROVE  req'[g].op = "none"
    <2>1. CASE g = h
      BY <2>1, <1>1 DEF NoRequest
    <2>2. CASE g # h
      <3>1. req[g].at = "idle"
        BY <1>0, <1>1, <1>2, <2>2 DEF AloneIsAlone, Busy
      <3> QED
        BY <3>1, <2>2, <1>0, <1>1, IdleHasNone
    <2> QED
      BY <2>1, <2>2
  <1>3. IssuedBefore'
    <2>1. \A g \in Handlers :
            /\ req'[g].since <= clock' /\ req'[g].now <= clock' /\ req'[g].era <= changes'
            /\ req'[g].op = "change" /\ req'[g].at = "done" => req'[g].since < req'[g].now
      <3> TAKE g \in Handlers
      <3>1. CASE g # h
        BY <3>1, <1>0, <1>1, Numbers DEF IssuedBefore
      <3>2. CASE g = h
        BY <3>2, <1>0, <1>1, Numbers DEF NoRequest
      <3> QED
        BY <3>1, <3>2
    <2> QED
      BY <2>1, <1>2 DEF IssuedBefore
  <1>4. AloneKnows'
    BY <1>2 DEF AloneKnows
  <1> QED
    BY <1>3, <1>4

LEMMA InitSession == Init => SessionInv
  <1> SUFFICES ASSUME Init PROVE SessionInv
    OBVIOUS
  <1>1. \A h \in Handlers : req[h] = NoRequest
    BY DEF Init
  <1>2. Busy = {}
    BY <1>1 DEF Busy, NoRequest
  <1>3. AloneIsAlone
    BY <1>2 DEF AloneIsAlone, Busy
  <1>4. IssuedBefore
    BY <1>1, <1>2 DEF Init, IssuedBefore, NoRequest
  <1>5. AloneKnows
    BY <1>1 DEF AloneKnows, NoRequest
  <1> QED
    BY <1>3, <1>4, <1>5, InitTypes DEF SessionInv

LEMMA NextSession ==
  ASSUME SessionInv, [Next]_vars
  PROVE  SessionInv'
  <1>0. TypeOK /\ AloneIsAlone /\ IssuedBefore /\ AloneKnows /\ TypeOK' /\ AloneIsAlone'
    BY NextTypes, NextAlone DEF SessionInv
  <1> SUFFICES IssuedBefore' /\ AloneKnows'
    BY <1>0 DEF SessionInv
  <1>a. clock \in Nat /\ changes \in Nat
    BY <1>0, Numbers
  <1>1. ASSUME NEW p \in Passwords, Signup(p)
        PROVE  IssuedBefore' /\ AloneKnows'
    <2>1. Busy = {} /\ changes = 0
      BY <1>0, <1>1 DEF Signup, IssuedBefore
    <2>2. \A h \in Handlers : req[h].op = "none"
      BY <1>0, <2>1, IdleHasNone DEF Busy
    <2>3. issued' = {[era |-> 0, iat |-> IssuedAt(clock)]} /\ IssuedAt(clock) <= clock
      BY <1>0, <1>1, RoundedDown DEF Signup, TypeOK
    <2>4. UNCHANGED <<clock, changes, req>> /\ user'.password = p
      BY <1>0, <1>1 DEF Signup, TypeOK
    <2>5. \A t \in issued' : t.iat <= clock' /\ t.era <= changes'
      BY <2>1, <2>3, <2>4
    <2>6. p # NoPassword
      BY NamesAssumption DEF NoPassword
    <2>7. IssuedBefore'
      BY <1>0, <2>2, <2>4, <2>5, <2>6 DEF IssuedBefore
    <2> QED
      BY <2>2, <2>4, <2>7 DEF AloneKnows
  <1>2. ASSUME NEW h \in Handlers, NEW p \in Passwords, Login(h, p)
        PROVE  IssuedBefore' /\ AloneKnows'
    <2> DEFINE r == [NoRequest EXCEPT !.op = "login", !.at = "read", !.since = clock,
                        !.password = p, !.rehash = (user.cost # cost), !.era = changes]
    <2>1. r \in Requests /\ Enter(h, r)
      BY <1>0, <1>2, RequestsTyped DEF Login
    <2>2. /\ r.op = "login" /\ r.at = "read" /\ r.password = p
          /\ r.since = clock /\ r.now = 0 /\ r.era = changes
      BY DEF NoRequest
    <2>3. user.password = p /\ p # NoPassword
      BY <1>2, NamesAssumption DEF Login, NoPassword
    <2> HIDE DEF r
    <2> QED
      BY <1>a, <2>1, <2>2, <2>3, EnterKeeps
  <1>3. ASSUME NEW h \in Handlers, NEW t \in issued, Refresh(h, t)
        PROVE  IssuedBefore' /\ AloneKnows'
    <2> DEFINE r == [NoRequest EXCEPT !.op = "refresh", !.at = "read", !.since = clock,
                        !.era = t.era]
    <2>1. r \in Requests /\ Enter(h, r)
      BY <1>0, <1>3, RefreshTyped DEF Refresh
    <2>2. /\ r.op = "refresh" /\ r.at = "read" /\ r.since = clock /\ r.now = 0
          /\ r.era = t.era
      BY DEF NoRequest
    <2>3. t.era <= changes /\ t.era \in Nat /\ user.password # NoPassword
      BY <1>0, Numbers DEF IssuedBefore
    <2>4. Survivors = {} => t.era = changes
      BY <1>3, <1>a, <2>3 DEF Refresh, Refreshes, Survivors
    <2> HIDE DEF r
    <2> QED
      BY <2>1, <2>2, <2>3, <2>4, EnterKeeps
  <1>4. ASSUME NEW h \in Handlers, NEW p \in Passwords,
               ChangePassword(h, p)
        PROVE  IssuedBefore' /\ AloneKnows'
    <2> DEFINE r == [NoRequest EXCEPT !.op = "change", !.at = "read", !.since = clock,
                        !.password = p]
    <2>1. r \in Requests /\ Enter(h, r) /\ user.password # NoPassword
      BY <1>0, <1>4, RequestsTyped DEF ChangePassword
    <2>2. r.op = "change" /\ r.at = "read" /\ r.since = clock /\ r.now = 0 /\ r.era = 0
      BY DEF NoRequest
    <2> HIDE DEF r
    <2> QED
      BY <1>a, <2>1, <2>2, EnterKeeps
  <1>5. ASSUME NEW h \in Handlers, Issue(h)
        PROVE  IssuedBefore' /\ AloneKnows'
    <2>1. IssuedAt(clock) \in Ticks /\ IssuedAt(clock) <= clock
      BY <1>0, RoundedDown DEF TypeOK
    <2> QED
      BY <1>5, <2>1, AdvanceKeeps DEF Issue
  <1>6. ASSUME NEW h \in Handlers, Stamp(h)
        PROVE  IssuedBefore' /\ AloneKnows'
    <2>1. clock \in Ticks /\ clock <= clock /\ req[h].since < clock
      BY <1>0, <1>6, <1>a, Numbers DEF Stamp, TypeOK
    <2> QED
      BY <1>6, <2>1, AdvanceKeeps DEF Stamp
  <1>7. ASSUME NEW h \in Handlers, CommitSession(h)
        PROVE  IssuedBefore' /\ AloneKnows'
    <2>1. req[h].now <= clock /\ req[h].era <= changes
      BY <1>0 DEF IssuedBefore
    <2>2. \A t \in issued' : t.iat <= clock /\ t.era <= changes
      BY <1>0, <1>7, <2>1 DEF CommitSession, IssuedBefore
    <2>3. user.password # NoPassword
      BY <1>0, <1>7 DEF CommitSession, IssuedBefore, Busy
    <2>4. user'.password # NoPassword
      <3>1. CASE ~req[h].rehash
        BY <1>7, <2>3, <3>1 DEF CommitSession
      <3>2. CASE req[h].rehash
        <4>1. WellFormed(req[h])
          BY <1>0 DEF TypeOK
        <4>2. req[h].password \in Passwords
          BY <3>2, <4>1 DEF WellFormed
        <4>3. user'.password = req[h].password
          BY <1>0, <1>7, <3>2 DEF CommitSession, TypeOK
        <4> QED
          BY <4>2, <4>3, NamesAssumption DEF NoPassword
      <3> QED
        BY <3>1, <3>2
    <2>5. Leave(h) /\ req[h].at # "idle" /\ clock' = clock /\ changes' = changes
      BY <1>7 DEF CommitSession
    <2> QED
      BY <1>a, <2>2, <2>4, <2>5, LeaveKeeps
  <1>8. ASSUME NEW h \in Handlers, CommitChange(h)
        PROVE  IssuedBefore' /\ AloneKnows'
    <2>1. Leave(h) /\ req[h].at # "idle" /\ clock' = clock /\ changes' = changes + 1
      BY <1>8 DEF CommitChange
    <2>2. \A t \in issued' : t.iat <= clock /\ t.era <= changes'
      BY <1>0, <1>8, <1>a, Numbers DEF CommitChange, IssuedBefore
    <2>3. user'.password # NoPassword
      <3>1. WellFormed(req[h]) /\ req[h].op = "change"
        BY <1>0, <1>8 DEF CommitChange, TypeOK
      <3>2. user'.password = req[h].password
        BY <1>0, <1>8 DEF CommitChange, TypeOK
      <3> QED
        BY <3>1, <3>2, NamesAssumption DEF WellFormed, NoPassword
    <2>4. changes' \in Nat /\ changes' >= changes
      BY <1>a, <2>1
    <2> QED
      BY <2>1, <2>2, <2>3, <2>4, LeaveKeeps
  <1>9. ASSUME NEW h \in Handlers, Abandon(h)
        PROVE  IssuedBefore' /\ AloneKnows'
    <2>1. user.password # NoPassword
      BY <1>0, <1>9 DEF Abandon, IssuedBefore, Busy
    <2>2. /\ Leave(h) /\ req[h].at # "idle" /\ clock' = clock /\ changes' = changes
          /\ user' = user /\ issued' = issued
      BY <1>9 DEF Abandon
    <2>3. \A t \in issued' : t.iat <= clock /\ t.era <= changes'
      BY <1>0, <2>2 DEF IssuedBefore
    <2> QED
      BY <1>a, <2>1, <2>2, <2>3, LeaveKeeps
  <1>10. CASE Disable \/ Upgrade \/ Tick \/ UNCHANGED vars
    <2>1. /\ UNCHANGED <<issued, changes, req>>
          /\ user'.password = user.password /\ user'.validFrom = user.validFrom
      BY <1>0, <1>10 DEF Disable, Upgrade, Tick, vars, TypeOK
    <2>2. clock' \in Nat /\ clock' >= clock
      BY <1>10, <1>a DEF Disable, Upgrade, Tick, vars
    <2>3. Survivors' = Survivors /\ Busy' = Busy
      BY <2>1, SameSurvivors DEF Busy
    <2>4. AloneKnows'
      BY <1>0, <2>1, <2>3 DEF AloneKnows
    <2>5. \A t \in issued : t.iat <= clock'
      BY <1>0, <1>a, <2>2, Numbers DEF IssuedBefore
    <2>6. \A h \in Handlers : req[h].since <= clock' /\ req[h].now <= clock'
      BY <1>0, <1>a, <2>2, Numbers DEF IssuedBefore
    <2>7. IssuedBefore'
      BY <1>0, <2>1, <2>3, <2>5, <2>6 DEF IssuedBefore
    <2> QED
      BY <2>4, <2>7
  <1> QED
    BY <1>1, <1>2, <1>3, <1>4, <1>5, <1>6, <1>7, <1>8, <1>9, <1>10 DEF Next, Serve

-----------------------------------------------------------------------------
(* Who survives a password change.                                         *)

LEMMA NewSurvivors ==
  ASSUME SessionInv, [Next]_vars, Survivors = {}, Survivors' # {}
  PROVE  \E h \in Handlers : req[h].at = "done" /\ ~req[h].alone /\ req'[h] = NoRequest
  <1>0. TypeOK /\ AloneIsAlone /\ IssuedBefore /\ AloneKnows
    BY DEF SessionInv
  <1>a. clock \in Nat /\ changes \in Nat
    BY <1>0, Numbers
  <1>1. ASSUME NEW p \in Passwords, Signup(p)
        PROVE  FALSE
    <2>1. changes' = 0 /\ \A t \in issued' : t.era = 0
      BY <1>0, <1>1 DEF Signup, IssuedBefore
    <2> QED
      BY <2>1 DEF Survivors
  <1>2. ASSUME NEW h \in Handlers, CommitSession(h)
        PROVE  req[h].at = "done" /\ ~req[h].alone /\ req'[h] = NoRequest
    <2>1. req[h].at = "done" /\ req'[h] = NoRequest
      BY <1>0, <1>2, LeaveSets DEF CommitSession
    <2>2. ASSUME req[h].alone
          PROVE  FALSE
      <3>1. req[h].era = changes
        BY <1>0, <1>2, <2>2 DEF CommitSession, AloneKnows
      <3>2. user'.validFrom = user.validFrom /\ changes' = changes
        BY <1>0, <1>2 DEF CommitSession, TypeOK
      <3>3. \A t \in issued' : t \in issued \/ t.era = changes
        BY <1>2, <3>1 DEF CommitSession
      <3>4. \A t \in issued : t.era < changes => Revoked(t)
        BY DEF Survivors
      <3> QED
        BY <1>a, <3>2, <3>3, <3>4 DEF Survivors, Revoked
    <2> QED
      BY <2>1, <2>2
  <1>3. ASSUME NEW h \in Handlers, CommitChange(h)
        PROVE  req[h].at = "done" /\ ~req[h].alone /\ req'[h] = NoRequest
    <2>1. req[h].at = "done" /\ req[h].op = "change" /\ req'[h] = NoRequest
      BY <1>0, <1>3, LeaveSets DEF CommitChange
    <2>2. ASSUME req[h].alone
          PROVE  FALSE
      <3>1. \A t \in issued : t.iat < req[h].now
        BY <1>0, <2>1, <2>2, Numbers DEF IssuedBefore
      <3>2. user'.validFrom = req[h].now /\ issued' = issued
        BY <1>0, <1>3 DEF CommitChange, TypeOK
      <3>3. req[h].now # Never
        BY <1>0, Numbers DEF Never
      <3> QED
        BY <3>1, <3>2, <3>3 DEF Survivors, Revoked
    <2> QED
      BY <2>1, <2>2
  <1>4. ASSUME UNCHANGED <<issued, changes>>, user'.validFrom = user.validFrom
        PROVE  FALSE
    BY <1>4, SameSurvivors
  <1>5. ASSUME NEW h \in Handlers,
               \/ \E p \in Passwords : Login(h, p)
               \/ \E t \in issued : Refresh(h, t)
               \/ Issue(h)
               \/ \E p \in Passwords : ChangePassword(h, p)
               \/ Stamp(h)
               \/ Abandon(h)
        PROVE  FALSE
    BY <1>4, <1>5 DEF Login, Refresh, Issue, ChangePassword, Stamp, Abandon, Enter
  <1>6. CASE Disable \/ Upgrade \/ Tick \/ UNCHANGED vars
    BY <1>0, <1>4, <1>6 DEF Disable, Upgrade, Tick, vars, TypeOK
  <1> QED
    BY <1>1, <1>2, <1>3, <1>5, <1>6 DEF Next, Serve

(* Of refresh and change_password: however many requests, sessions and      *)
(* changes there are, a session first survives a change of the password     *)
(* only by the commit of a request that overlapped another one.             *)
THEOREM SurvivalTakesOverlap == Spec => SurvivorNeedsOverlap
  <1>1. Init => SessionInv
    BY InitSession
  <1>2. SessionInv /\ [Next]_vars => SessionInv'
    BY NextSession
  <1>3. SessionInv /\ [Next]_vars =>
          [Survivors = {} /\ Survivors' # {} =>
             \E h \in Handlers :
               req[h].at = "done" /\ ~req[h].alone /\ req'[h] = NoRequest]_vars
    BY NewSurvivors
  <1> QED
    BY <1>1, <1>2, <1>3, PTL DEF Spec, SurvivorNeedsOverlap

-----------------------------------------------------------------------------
(* The password.                                                           *)

\* The password stops being the one last chosen only by an overlapping rehash.
LEMMA NewOldPassword ==
  ASSUME SessionInv, [Next]_vars, LastPasswordCounts, ~LastPasswordCounts'
  PROVE  \E h \in Handlers : req[h].rehash /\ ~req[h].alone /\ req'[h] = NoRequest
  <1>0. TypeOK /\ AloneKnows /\ user.password = chosen /\ user'.password # chosen'
    BY DEF SessionInv, LastPasswordCounts
  <1>1. ASSUME NEW p \in Passwords, Signup(p)
        PROVE  FALSE
    BY <1>0, <1>1 DEF Signup, TypeOK
  <1>2. ASSUME NEW h \in Handlers, CommitSession(h)
        PROVE  req[h].rehash /\ ~req[h].alone /\ req'[h] = NoRequest
    <2>1. req'[h] = NoRequest
      BY <1>0, <1>2, LeaveSets DEF CommitSession
    <2>2. req[h].rehash
      BY <1>0, <1>2 DEF CommitSession
    <2>3. WellFormed(req[h])
      BY <1>0 DEF TypeOK
    <2>4. req[h].op = "login"
      BY <2>2, <2>3 DEF WellFormed
    <2>5. user'.password = req[h].password /\ chosen' = chosen
      BY <1>0, <1>2, <2>2 DEF CommitSession, TypeOK
    <2>6. ~req[h].alone
      BY <1>0, <2>4, <2>5 DEF AloneKnows
    <2> QED
      BY <2>1, <2>2, <2>6
  <1>3. ASSUME NEW h \in Handlers, CommitChange(h)
        PROVE  FALSE
    BY <1>0, <1>3 DEF CommitChange, TypeOK
  <1>4. ASSUME NEW h \in Handlers,
               \/ \E p \in Passwords : Login(h, p)
               \/ \E t \in issued : Refresh(h, t)
               \/ Issue(h)
               \/ \E p \in Passwords : ChangePassword(h, p)
               \/ Stamp(h)
               \/ Abandon(h)
        PROVE  FALSE
    BY <1>0, <1>4 DEF Login, Refresh, Issue, ChangePassword, Stamp, Abandon, Enter
  <1>5. CASE Disable \/ Upgrade \/ Tick \/ UNCHANGED vars
    BY <1>0, <1>5 DEF Disable, Upgrade, Tick, vars, TypeOK
  <1> QED
    BY <1>1, <1>2, <1>3, <1>4, <1>5 DEF Next, Serve

(* Of login and change_password: however many requests there are, an old     *)
(* password comes back only by the rehash of a login that overlapped        *)
(* another request.                                                         *)
THEOREM OldPasswordTakesOverlap == Spec => OldPasswordNeedsOverlap
  <1>1. Init => SessionInv
    BY InitSession
  <1>2. SessionInv /\ [Next]_vars => SessionInv'
    BY NextSession
  <1>3. SessionInv /\ [Next]_vars =>
          [LastPasswordCounts /\ ~LastPasswordCounts' =>
             \E h \in Handlers :
               req[h].rehash /\ ~req[h].alone /\ req'[h] = NoRequest]_vars
    BY NewOldPassword
  <1> QED
    BY <1>1, <1>2, <1>3, PTL DEF Spec, OldPasswordNeedsOverlap

-----------------------------------------------------------------------------
(* One request at a time.                                                  *)

SerialInv ==
    /\ SessionInv
    /\ Survivors = {}
    /\ user.password = chosen
    /\ \A h \in Handlers : req[h].alone

LEMMA NextSerial ==
  ASSUME NEW only, Handlers = {only}, SerialInv, [Next]_vars
  PROVE  SerialInv'
  <1>0. /\ SessionInv /\ SessionInv' /\ TypeOK /\ AloneKnows
        /\ \A h \in Handlers : req[h].alone
    BY NextSession DEF SerialInv, SessionInv
  <1>1. Survivors' = {}
    BY <1>0, NewSurvivors DEF SerialInv
  <1>2. user'.password = chosen'
    <2>1. LastPasswordCounts
      BY DEF SerialInv, LastPasswordCounts
    <2> QED
      BY <1>0, <2>1, NewOldPassword DEF LastPasswordCounts
  <1>3. \A h \in Handlers : req'[h].alone
    <2>1. ASSUME NEW h \in Handlers, NEW r \in Requests, Enter(h, r)
          PROVE  req'[h].alone
      <3>1. req[h] = NoRequest
        BY <1>0, <2>1, EnterSets
      <3>2. Busy = {}
        BY <3>1 DEF Busy, NoRequest
      <3> QED
        BY <1>0, <2>1, <3>2, EnterFields
    <2>2. ASSUME NEW h \in Handlers, Leave(h)
          PROVE  req'[h].alone
      BY <1>0, <2>2, LeaveSets DEF NoRequest
    <2>3. ASSUME NEW h \in Handlers, Serve(h)
          PROVE  req'[h].alone
      <3>1. ASSUME NEW p \in Passwords, Login(h, p)
            PROVE  req'[h].alone
        BY <1>0, <2>1, <3>1, RequestsTyped DEF Login
      <3>2. ASSUME NEW t \in issued, Refresh(h, t)
            PROVE  req'[h].alone
        BY <1>0, <2>1, <3>2, RefreshTyped DEF Refresh
      <3>3. ASSUME NEW p \in Passwords, ChangePassword(h, p)
            PROVE  req'[h].alone
        BY <1>0, <2>1, <3>3, RequestsTyped DEF ChangePassword
      <3>4. CASE Issue(h)
        <4>1. IssuedAt(clock) \in Ticks
          BY <1>0, RoundedDown DEF TypeOK
        <4> QED
          BY <1>0, <3>4, <4>1, AdvanceSets DEF Issue
      <3>5. CASE Stamp(h)
        <4>1. clock \in Ticks
          BY <1>0 DEF TypeOK
        <4> QED
          BY <1>0, <3>5, <4>1, AdvanceSets DEF Stamp
      <3>6. CASE CommitSession(h) \/ CommitChange(h) \/ Abandon(h)
        BY <2>2, <3>6 DEF CommitSession, CommitChange, Abandon
      <3> QED
        BY <2>3, <3>1, <3>2, <3>3, <3>4, <3>5, <3>6 DEF Serve
    <2>4. CASE (\E p \in Passwords : Signup(p)) \/ Disable \/ Upgrade \/ Tick \/ UNCHANGED vars
      BY <1>0, <2>4 DEF Signup, Disable, Upgrade, Tick, vars
    <2>5. \A h \in Handlers : h = only
      OBVIOUS
    <2> QED
      BY <2>3, <2>4, <2>5 DEF Next
  <1> QED
    BY <1>0, <1>1, <1>2, <1>3 DEF SerialInv

(* Of change_password and login: while an account has one request at a time *)
(* a session never survives a change, and the password is the last chosen,  *)
(* for any passwords, lifetimes and releases with other Argon2 parameters.  *)
THEOREM SerialChangeHolds ==
  ASSUME NEW only, Handlers = {only}
  PROVE  Spec => [](ChangeEndsSessions /\ LastPasswordCounts)
  <1>1. Init => SerialInv
    <2> SUFFICES ASSUME Init PROVE SerialInv
      OBVIOUS
    <2>1. Survivors = {} /\ user.password = chosen
      BY DEF Init, Survivors
    <2>2. \A h \in Handlers : req[h].alone
      BY DEF Init, NoRequest
    <2> QED
      BY <2>1, <2>2, InitSession DEF SerialInv
  <1>2. SerialInv /\ [Next]_vars => SerialInv'
    BY NextSerial
  <1>3. SerialInv => ChangeEndsSessions /\ LastPasswordCounts
    BY DEF SerialInv, Survivors, ChangeEndsSessions, LastPasswordCounts, Refreshes
  <1> QED
    BY <1>1, <1>2, <1>3, PTL DEF Spec
=============================================================================
