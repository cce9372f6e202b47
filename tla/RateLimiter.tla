---------------------------- MODULE RateLimiter ----------------------------
(***************************************************************************)
(* One token bucket in Redis (ratelimit.py), shared by several API          *)
(* processes. The refill-and-take script is atomic, but it measures time    *)
(* with the clock of the process that calls it; the key's expiry is Redis's *)
(* own. Tokens are counted in units of 1/Minute of a token, so that a tick  *)
(* of the clock refills PerMinute units; floats are exact in this model.    *)
(***************************************************************************)
EXTENDS Integers

CONSTANTS
    Processes,   \* API processes
    Skew,        \* Skew[p]: how far p's clock is ahead
    Minute,      \* ticks of the clock in a minute
    PerMinute,   \* rate_limit_per_minute
    Burst,       \* rate_limit_burst
    LastTick,    \* bound: ticks, 0..LastTick
    MaxLosses,   \* bound: times Redis comes back empty
    MaxSetback   \* bound: ticks by which `updated` goes back, in all

ASSUME RateAssumption ==
    Minute \in Nat \ {0} /\ PerMinute \in Nat \ {0} /\ Burst \in Nat \ {0}
\* The clocks differ by less than the minute that check adds to the key's ttl.
ASSUME ClockAssumption == Skew \in [Processes -> 0..(Minute - 1)]
ASSUME BucketAssumption == LastTick \in Nat /\ MaxLosses \in Nat /\ MaxSetback \in Nat

VARIABLES
    clock,     \* the time
    tokens,    \* tokens of the bucket
    updated,   \* when a process last wrote them, by its clock
    expires,   \* when the key expires, 0 if there is none
    promise,   \* when the last caller, refused, was told to come back, by the clock
               \* of the process it asked; 0 if none
    losses,    \* times Redis lost the key (bounded by MaxLosses)
    setback,   \* how far `updated` has gone back in all; history, read by no action
    since,     \* any tick, chosen at the start and kept
    spent      \* tokens taken since then; history, read by no action

bucketVars == <<clock, tokens, updated, expires, promise, losses, setback, since, spent>>

Ticks == 0..LastTick

Cost == Minute
Capacity == Minute * (PerMinute + Burst)

\* A slip: the minute of grace is left out.
TTLShort == Capacity \div PerMinute

\* check: ttl = int(capacity / refill_per_second) + 60
TTL == (Capacity \div PerMinute) + Minute

BucketInit ==
    /\ clock = 0
    /\ tokens = 0
    /\ updated = 0
    /\ expires = 0
    /\ promise = 0
    /\ losses = 0
    /\ setback = 0
    /\ since \in Ticks
    /\ spent = 0

-----------------------------------------------------------------------------
Smaller(m, n) == IF m < n THEN m ELSE n
Larger(m, n) == IF m < n THEN n ELSE m

HasKey == clock < expires

\* The refill: for the time elapsed, never above capacity; a new key is full.
Refilled(now) ==
    IF HasKey
    THEN Smaller(Capacity, tokens + Larger(0, now - updated) * PerMinute)
    ELSE Capacity

\* A slip: rounded down, the caller is sent back too early.
RetryAfterEarly(deficit) == IF deficit < PerMinute THEN 1 ELSE deficit \div PerMinute

\* retry_after = max(1, int(deficit / refill_per_second) + 1)
RetryAfter(deficit) == (deficit \div PerMinute) + 1

Now(p) == clock + Skew[p]

Allowed(p) == Refilled(Now(p)) >= Cost

\* The script, run by process p: refill, then take if there is enough.
Script(p) ==
    LET level == Refilled(Now(p)) IN
    /\ tokens' = IF Allowed(p) THEN level - Cost ELSE level
    /\ updated' = Now(p)
    /\ setback' = setback + Larger(0, updated - Now(p))
    /\ setback' <= MaxSetback
    /\ expires' = clock + TTL
    /\ spent' = IF Allowed(p) /\ since <= clock THEN spent + Cost ELSE spent
    /\ UNCHANGED <<clock, losses, since>>

\* check: the answer comes back, and a refused caller is told when to return.
Check(p) ==
    /\ Script(p)
    /\ promise' = IF Allowed(p) THEN 0
                  ELSE Now(p) + RetryAfter(Cost - Refilled(Now(p)))

\* check, failing open: the script ran but its answer did not come back, and the
\* caller is let through. (One that never reached Redis changes nothing here.)
Unanswered(p) == Script(p) /\ promise' = 0

\* reset, or a Redis that comes back without its data: the bucket is full again.
Lose ==
    /\ HasKey
    /\ losses < MaxLosses
    /\ losses' = losses + 1
    /\ expires' = 0
    /\ promise' = 0
    /\ UNCHANGED <<clock, tokens, updated, setback, since, spent>>

Tick ==
    /\ clock < LastTick
    /\ clock' = clock + 1
    /\ UNCHANGED <<tokens, updated, expires, promise, losses, setback, since, spent>>

BucketNext == (\E p \in Processes : Check(p) \/ Unanswered(p)) \/ Lose \/ Tick

BucketSpec == BucketInit /\ [][BucketNext]_bucketVars

-----------------------------------------------------------------------------
(* Properties.                                                             *)

\* The variables hold values of their types; the bucket never overflows.
BucketTypeOK ==
    /\ clock \in Ticks
    /\ tokens \in 0..Capacity
    /\ updated \in Nat
    /\ expires \in Nat
    /\ promise \in Nat
    /\ losses \in 0..MaxLosses
    /\ setback \in 0..MaxSetback
    /\ since \in Ticks
    /\ spent \in Nat

(* The bucket: over any span of time no more is taken than a full bucket and *)
(* the refill of that span, the expiry of the key included (its ttl is long *)
(* enough for the bucket to be full anyway, by whichever clock); a lost key *)
(* costs one more bucket, and each tick by which a process whose clock is   *)
(* behind sets `updated` back is refilled once more, and only once. Callers *)
(* let through while Redis fails are beyond any bucket.                     *)
WithinRate ==
    since <= clock =>
        spent <= (1 + losses) * Capacity
                 + (Larger(clock, updated) - since + setback) * PerMinute

\* What the proofs carry: what is in the bucket counts as taken. A lost bucket is
\* full, and an expired one will have been filled by the time since `updated`.
Left == IF expires = 0 THEN Capacity ELSE tokens

LeftWithinRate ==
    spent # 0 =>
        spent + Left <= (1 + losses) * Capacity + (updated - since + setback) * PerMinute

\* The key outlives its last write by its ttl, less what the writer's clock is ahead.
Written == expires # 0 => expires + Minute > updated + TTL

PromiseKept ==
    promise # 0 => tokens < Cost /\ promise = updated + RetryAfter(Cost - tokens)

(* Retry-After is honest: a caller that was refused and comes back, none     *)
(* having come in between, is served by every process by whose clock the    *)
(* time it was told has passed.                                             *)
RetryAfterServes ==
    \A p \in Processes : promise # 0 /\ Now(p) >= promise => Allowed(p)
=============================================================================
