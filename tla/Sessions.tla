------------------------------ MODULE Sessions ------------------------------
(***************************************************************************)
(* One user's account and sessions (api/routes/auth.py, security/tokens.py, *)
(* api/deps.py). There is no session table: a pair of tokens is good until  *)
(* it expires, unless it says it was issued before the user's               *)
(* tokens_valid_from. A token's issue time is in whole seconds, the column  *)
(* is not. A request reads the user once, spends its time on Argon2, and    *)
(* writes and commits on what it read.                                     *)
(***************************************************************************)
EXTENDS Integers

CONSTANTS
    Handlers,     \* requests in progress at once
    Passwords,
    Second,       \* ticks of the clock in a second
    AccessLife,   \* access_token_minutes, in ticks
    RefreshLife,  \* refresh_token_days, in ticks
    Keyed,        \* whether the user has made an API key
    LastTick,     \* bound: ticks, 0..LastTick
    MaxChanges,   \* bound: password changes
    MaxCost       \* bound: the Argon2 parameters a deployment comes to have, 0..MaxCost

ASSUME ClockAssumption == Second \in Nat \ {0} /\ LastTick \in Nat
ASSUME LifeAssumption == AccessLife \in Nat /\ RefreshLife \in Nat
ASSUME KeyAssumption == Keyed \in BOOLEAN
ASSUME BoundsAssumption == MaxChanges \in Nat /\ MaxCost \in Nat
ASSUME NamesAssumption == "none" \notin Passwords

VARIABLES
    clock,    \* the time
    cost,     \* the parameters of hash_password
    user,     \* the user's row
    issued,   \* the token pairs handed out
    chosen,   \* the password last chosen
    changes,  \* password changes so far (bounded by MaxChanges)
    req       \* req[h]: the request h is serving

vars == <<clock, cost, user, issued, chosen, changes, req>>

Ticks == 0..LastTick
Never == -1
NoPassword == "none"

\* A pair, and how many changes there had been when its login was let in.
Pairs == [era : 0..MaxChanges, iat : Ticks]

Requests ==
    [op : {"none", "login", "refresh", "change"}, at : {"idle", "read", "done"},
     password : Passwords \cup {NoPassword}, rehash : BOOLEAN, since : Ticks,
     now : Ticks, era : 0..MaxChanges, alone : BOOLEAN]

NoRequest ==
    [op |-> "none", at |-> "idle", password |-> NoPassword, rehash |-> FALSE,
     since |-> 0, now |-> 0, era |-> 0, alone |-> TRUE]

Busy == {h \in Handlers : req[h].at # "idle"}

Init ==
    /\ clock = 0
    /\ cost = 0
    /\ user = [password |-> NoPassword, cost |-> 0, validFrom |-> Never, active |-> TRUE]
    /\ issued = {}
    /\ chosen = NoPassword
    /\ changes = 0
    /\ req = [h \in Handlers |-> NoRequest]

-----------------------------------------------------------------------------
(* Tokens.                                                                 *)

\* A slip: rounded up to the next second.
IssuedAtRoundedUp(now) == ((now + Second - 1) \div Second) * Second

\* iat: int(now.timestamp()).
IssuedAt(now) == (now \div Second) * Second

\* A slip: the start of the session is not compared.
RevokedNever(t) == FALSE

\* issued_at < revoked_before.
Revoked(t) == user.validFrom # Never /\ t.iat < user.validFrom

\* Of the access token of a pair, by _principal_from_jwt.
Authenticates(t) == clock < t.iat + AccessLife /\ user.active /\ ~Revoked(t)

\* Of its refresh token, by refresh.
Refreshes(t) == clock < t.iat + RefreshLife /\ user.active /\ ~Revoked(t)

-----------------------------------------------------------------------------
(* Requests.                                                               *)

\* A request gets in; whether another one is in progress is noted in both.
Enter(h, request) ==
    /\ req[h] = NoRequest
    /\ req' = [g \in Handlers |->
                 IF g = h THEN [request EXCEPT !.alone = (Busy = {})]
                 ELSE IF req[g].at # "idle" THEN [req[g] EXCEPT !.alone = FALSE] ELSE req[g]]
    /\ UNCHANGED <<clock, cost, user, issued, chosen, changes>>

Leave(h) == req' = [req EXCEPT ![h] = NoRequest]

\* signup: the unique email lets one through, and the first pair is handed out.
Signup(p) ==
    /\ user.password = NoPassword
    /\ user' = [user EXCEPT !.password = p, !.cost = cost]
    /\ chosen' = p
    /\ issued' = {[era |-> 0, iat |-> IssuedAt(clock)]}
    /\ UNCHANGED <<clock, cost, changes, req>>

\* A slip: only the account is looked up, the password is not verified.
LoginUnverified(h, p) ==
    /\ user.active /\ user.password # NoPassword
    /\ Enter(h, [NoRequest EXCEPT !.op = "login", !.at = "read", !.since = clock,
                                  !.password = p, !.rehash = (user.cost # cost),
                                  !.era = changes])

\* login: the password is verified, and needs_rehash asked, on the row as read.
Login(h, p) ==
    /\ user.active /\ user.password = p
    /\ Enter(h, [NoRequest EXCEPT !.op = "login", !.at = "read", !.since = clock,
                                  !.password = p, !.rehash = (user.cost # cost),
                                  !.era = changes])

\* refresh: the token is decoded and compared with the row as read.
Refresh(h, t) ==
    /\ Refreshes(t)
    /\ Enter(h, [NoRequest EXCEPT !.op = "refresh", !.at = "read", !.since = clock,
                                  !.era = t.era])

\* _issue takes the time; the response and the commit come later.
Issue(h) ==
    /\ req[h].op \in {"login", "refresh"} /\ req[h].at = "read"
    /\ req' = [req EXCEPT ![h].at = "done", ![h].now = IssuedAt(clock)]
    /\ UNCHANGED <<clock, cost, user, issued, chosen, changes>>

\* The rehash, if any, is written, and the pair reaches the client.
CommitSession(h) ==
    /\ req[h].op \in {"login", "refresh"} /\ req[h].at = "done"
    /\ user' = IF req[h].rehash
               THEN [user EXCEPT !.password = req[h].password, !.cost = cost] ELSE user
    /\ issued' = issued \cup {[era |-> req[h].era, iat |-> req[h].now]}
    /\ Leave(h)
    /\ UNCHANGED <<clock, cost, chosen, changes>>

\* change_password, by a session's access token or by an API key, which carries
\* its creator's user id: the caller knows the current password.
ChangePassword(h, new) ==
    /\ changes < MaxChanges
    /\ user.password # NoPassword
    /\ Keyed \/ \E t \in issued : Authenticates(t)
    /\ Enter(h, [NoRequest EXCEPT !.op = "change", !.at = "read", !.since = clock,
                                  !.password = new])

\* tokens_valid_from = now, once Argon2 has verified one password and hashed
\* the other: more than a tick after the request came in.
Stamp(h) ==
    /\ req[h].op = "change" /\ req[h].at = "read"
    /\ clock > req[h].since
    /\ req' = [req EXCEPT ![h].at = "done", ![h].now = clock]
    /\ UNCHANGED <<clock, cost, user, issued, chosen, changes>>

CommitChange(h) ==
    /\ req[h].op = "change" /\ req[h].at = "done"
    /\ changes < MaxChanges
    /\ user' = [user EXCEPT !.password = req[h].password, !.cost = cost,
                            !.validFrom = req[h].now]
    /\ chosen' = req[h].password
    /\ changes' = changes + 1
    /\ Leave(h)
    /\ UNCHANGED <<clock, cost, issued>>

\* Refused, or failed before the commit.
Abandon(h) ==
    /\ req[h].at # "idle"
    /\ Leave(h)
    /\ UNCHANGED <<clock, cost, user, issued, chosen, changes>>

\* An operator disables the account (no route does).
Disable ==
    /\ user.active
    /\ user' = [user EXCEPT !.active = FALSE]
    /\ UNCHANGED <<clock, cost, issued, chosen, changes, req>>

\* A release raises the Argon2 parameters.
Upgrade ==
    /\ cost < MaxCost
    /\ cost' = cost + 1
    /\ UNCHANGED <<clock, user, issued, chosen, changes, req>>

Tick ==
    /\ clock < LastTick
    /\ clock' = clock + 1
    /\ UNCHANGED <<cost, user, issued, chosen, changes, req>>

Serve(h) ==
    \/ \E p \in Passwords : Login(h, p)
    \/ \E t \in issued : Refresh(h, t)
    \/ Issue(h)
    \/ CommitSession(h)
    \/ \E p \in Passwords : ChangePassword(h, p)
    \/ Stamp(h)
    \/ CommitChange(h)
    \/ Abandon(h)

Next ==
    \/ \E p \in Passwords : Signup(p)
    \/ \E h \in Handlers : Serve(h)
    \/ Disable \/ Upgrade \/ Tick

Spec == Init /\ [][Next]_vars

-----------------------------------------------------------------------------
(* Properties.                                                             *)

\* A request that has left has left no locals behind; others have what they need.
WellFormed(q) ==
    /\ q.at = "idle" => q = NoRequest
    /\ q.op \in {"change", "login"} => q.password \in Passwords
    /\ q.rehash => q.op = "login"

\* The variables hold values of their types.
TypeOK ==
    /\ clock \in Ticks
    /\ cost \in 0..MaxCost
    /\ user \in [password : Passwords \cup {NoPassword}, cost : 0..MaxCost,
                 validFrom : Ticks \cup {Never}, active : BOOLEAN]
    /\ issued \subseteq Pairs
    /\ chosen \in Passwords \cup {NoPassword}
    /\ changes \in 0..MaxChanges
    /\ req \in [Handlers -> Requests]
    /\ \A h \in Handlers : WellFormed(req[h])

\* Pairs that outlive a password change that came after their login.
Survivors == {t \in issued : t.era < changes /\ ~Revoked(t)}

(* change_password: "a stolen session does not survive the password change   *)
(* that was meant to end it": no pair that goes back to a login before the   *)
(* change can be refreshed after it, though its issue time is rounded. With  *)
(* one request at a time it is so; a refresh that read the user before the    *)
(* change and issues its pair after breaks it.                                *)
ChangeEndsSessions == \A t \in issued : t.era < changes => ~Refreshes(t)

(* However many requests there are, a session first survives a change only   *)
(* by the commit of a request that overlapped another one.                  *)
SurvivorNeedsOverlap ==
    [][Survivors = {} /\ Survivors' # {} =>
           \E h \in Handlers : req[h].at = "done" /\ ~req[h].alone /\ req'[h] = NoRequest]_vars

(* The account's password is the one its user last chose. With one request   *)
(* at a time it always is; with more, the silent rehash of a login can bring *)
(* an old one back, and only that of a login that overlapped another request. *)
LastPasswordCounts == user.password = chosen

OldPasswordNeedsOverlap ==
    [][LastPasswordCounts /\ ~LastPasswordCounts' =>
           \E h \in Handlers : req[h].rehash /\ ~req[h].alone /\ req'[h] = NoRequest]_vars

(* What the proofs carry.                                                   *)
AloneIsAlone ==
    \A h \in Handlers : req[h].at # "idle" /\ req[h].alone => Busy = {h}

IssuedBefore ==
    /\ \A t \in issued : t.iat <= clock /\ t.era <= changes
    /\ \A h \in Handlers :
        /\ req[h].since <= clock /\ req[h].now <= clock /\ req[h].era <= changes
        /\ req[h].op = "change" /\ req[h].at = "done" => req[h].since < req[h].now
        /\ req[h].op = "change" /\ req[h].alone =>
              \A t \in issued : t.iat <= req[h].since
    /\ user.password = NoPassword =>
        issued = {} /\ Busy = {} /\ changes = 0

AloneKnows ==
    \A h \in Handlers : req[h].alone =>
        /\ req[h].op = "login" => req[h].password = user.password
        /\ req[h].op \in {"login", "refresh"} /\ Survivors = {} => req[h].era = changes

=============================================================================
