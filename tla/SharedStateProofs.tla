-------------------------- MODULE SharedStateProofs --------------------------
(***************************************************************************)
(* Three things that concurrent requests share. The token bucket of the    *)
(* rate limiter, for every rate, burst and length of time, and for every    *)
(* number of processes whose clocks differ by less than a minute; the row   *)
(* of a usage counter, whose upsert implements an atomic counter for any    *)
(* number of workers, any amounts and any number of calls; and the columns  *)
(* of an organisation that Stripe's webhooks write, for every number of     *)
(* subscriptions, events and billing periods.                               *)
(***************************************************************************)
EXTENDS RateLimiter, UsageCounter, Billing, FiniteSetTheorems, TLAPS

-----------------------------------------------------------------------------
(* Arithmetic.                                                             *)

LEMMA Quantities ==
  /\ PerMinute \in Nat \ {0} /\ Minute \in Nat \ {0}
  /\ Cost \in Nat \ {0} /\ Capacity \in Nat \ {0} /\ Cost <= Capacity
  <1>1. PerMinute + Burst \in Nat \ {0} /\ PerMinute + Burst >= 1
    BY RateAssumption
  <1>2. \A m \in Nat \ {0}, n \in Nat \ {0} : m * n \in Nat \ {0} /\ m <= m * n
    OBVIOUS
  <1> QED
    BY <1>1, <1>2, RateAssumption DEF Cost, Capacity

\* More time, more refill.
LEMMA Refill ==
  \A m, n \in Int :
    /\ m * PerMinute \in Int
    /\ (m + n) * PerMinute = m * PerMinute + n * PerMinute
    /\ m <= n => m * PerMinute <= n * PerMinute
  BY RateAssumption

\* Rounded up, a division refills what it divided.
LEMMA RoundedUp ==
  \A d \in Nat : (d \div PerMinute) \in Nat /\ ((d \div PerMinute) + 1) * PerMinute > d
  <1> TAKE d \in Nat
  <1>1. d = PerMinute * (d \div PerMinute) + (d % PerMinute)
    BY RateAssumption
  <1>2. (d \div PerMinute) \in Nat /\ (d % PerMinute) \in 0..(PerMinute - 1)
    BY RateAssumption
  <1> QED
    BY <1>1, <1>2, RateAssumption

\* The key lives long enough for an empty bucket to be full again, even by the
\* slowest clock.
LEMMA TTLRefills ==
  /\ TTL \in Nat /\ TTL >= Minute /\ TTL >= 1
  /\ ((TTL - Minute) + 1) * PerMinute >= Capacity
  <1>1. /\ (Capacity \div PerMinute) \in Nat
        /\ ((Capacity \div PerMinute) + 1) * PerMinute > Capacity
    BY RoundedUp, Quantities
  <1>2. TTL \in Nat /\ TTL >= Minute /\ TTL - Minute = (Capacity \div PerMinute)
    BY <1>1, Quantities DEF TTL
  <1>3. ((TTL - Minute) + 1) * PerMinute \in Int
    BY <1>2, Quantities, Refill
  <1> QED
    BY <1>1, <1>2, <1>3, Quantities

\* So many buckets: at least one, and one more after a loss.
LEMMA Buckets ==
  \A n \in Nat :
    /\ (1 + n) * Capacity \in Nat
    /\ (1 + n) * Capacity >= Capacity
    /\ (1 + (n + 1)) * Capacity = (1 + n) * Capacity + Capacity
  BY Quantities

-----------------------------------------------------------------------------
(* The level of the bucket.                                                *)

LEMMA Clocks ==
  ASSUME BucketTypeOK, NEW p \in Processes
  PROVE  Now(p) \in Nat /\ clock \in Nat /\ clock <= Now(p) /\ Now(p) < clock + Minute
  BY ClockAssumption, BucketAssumption, Quantities DEF BucketTypeOK, Ticks, Now

LEMMA LevelRange ==
  ASSUME BucketTypeOK, NEW now \in Nat
  PROVE  /\ Refilled(now) \in 0..Capacity
         /\ ~HasKey => Refilled(now) = Capacity
         /\ HasKey => Refilled(now) <= tokens + Larger(0, now - updated) * PerMinute
         /\ HasKey /\ now >= updated =>
              \/ Refilled(now) = Capacity
              \/ Refilled(now) = tokens + (now - updated) * PerMinute
  <1> DEFINE e == Larger(0, now - updated)
  <1>1. e \in Nat /\ (now >= updated => e = now - updated)
    BY DEF Larger, BucketTypeOK
  <1>2. e * PerMinute \in Nat
    BY <1>1, Quantities
  <1>3. HasKey => Refilled(now) = Smaller(Capacity, tokens + e * PerMinute)
    BY DEF Refilled
  <1>4. ~HasKey => Refilled(now) = Capacity
    BY DEF Refilled
  <1>5. tokens \in Nat
    BY Quantities DEF BucketTypeOK
  <1> HIDE DEF e
  <1>6. HasKey => /\ Refilled(now) \in 0..Capacity
                  /\ Refilled(now) <= tokens + e * PerMinute
                  /\ \/ Refilled(now) = Capacity
                     \/ Refilled(now) = tokens + e * PerMinute
    BY <1>2, <1>3, <1>5, Quantities DEF Smaller
  <1>7. HasKey /\ now >= updated =>
          \/ Refilled(now) = Capacity
          \/ Refilled(now) = tokens + (now - updated) * PerMinute
    BY <1>1, <1>6
  <1> QED
    BY <1>4, <1>6, <1>7, Quantities DEF e

\* The history goes on with time, or with what is set back.
LEMMA Balance ==
  \A u, now \in Nat :
    /\ Larger(0, u - now) \in Nat /\ Larger(0, now - u) \in Nat
    /\ now + Larger(0, u - now) = u + Larger(0, now - u)
  BY DEF Larger

BucketInv == BucketTypeOK /\ LeftWithinRate /\ Written /\ PromiseKept

\* What the bucket holds when a script has refilled it is still within the rate.
LEMMA LevelWithinRate ==
  ASSUME BucketInv, NEW p \in Processes, spent # 0
  PROVE  spent + Refilled(Now(p)) <=
           (1 + losses) * Capacity
           + ((Now(p) - since) + (setback + Larger(0, updated - Now(p)))) * PerMinute
  <1> DEFINE now == Now(p)
             back == Larger(0, updated - now)
             e == Larger(0, now - updated)
             t == (updated - since) + setback
             B == (1 + losses) * Capacity
  <1>1. /\ BucketTypeOK /\ now \in Nat /\ clock \in Nat /\ clock <= now /\ updated \in Nat
        /\ since \in Nat /\ setback \in Nat /\ spent \in Nat /\ tokens \in Nat /\ losses \in Nat
        /\ expires \in Nat /\ Left \in 0..Capacity /\ Capacity \in Nat
    BY Clocks, Quantities, BucketAssumption DEF BucketInv, BucketTypeOK, Ticks, Left
  <1>2. B \in Nat /\ spent + Left <= B + t * PerMinute
    <2>1. B \in Nat
      BY <1>1, Buckets
    <2>2. (updated - since + setback) = t
      OBVIOUS
    <2> QED
      BY <2>1, <2>2 DEF BucketInv, LeftWithinRate
  <1>3. /\ e \in Nat /\ back \in Nat /\ t \in Int
        /\ (now - since) + (setback + back) = t + e
    <2>1. now + back = updated + e /\ back \in Nat /\ e \in Nat
      BY <1>1, Balance
    <2> HIDE DEF now, back, e
    <2> QED
      BY <1>1, <2>1
  <1>4. /\ t * PerMinute \in Int /\ e * PerMinute \in Int /\ e * PerMinute >= 0
        /\ (t + e) * PerMinute = t * PerMinute + e * PerMinute
    <2>1. 0 * PerMinute = 0 /\ 0 * PerMinute <= e * PerMinute
      BY <1>3, Refill, Quantities
    <2> QED
      BY <1>3, <2>1, Refill
  <1>5. Refilled(now) \in 0..Capacity
    BY <1>1, LevelRange
  <1>6. Refilled(now) <= Left + e * PerMinute
    <2>1. CASE HasKey
      <3>1. Left = tokens
        BY <1>1, <2>1 DEF HasKey, Left
      <3> QED
        BY <1>1, <2>1, <3>1, LevelRange
    <2>2. CASE expires = 0
      BY <1>1, <1>4, <1>5, <2>2 DEF Left
    <2>3. CASE ~HasKey /\ expires # 0
      <3>1. now >= expires /\ expires + Minute > updated + TTL
        BY <1>1, <2>3 DEF HasKey, BucketInv, Written
      <3>2. e = now - updated /\ e >= (TTL - Minute) + 1
        <4>1. now >= updated + ((TTL - Minute) + 1) /\ (TTL - Minute) + 1 >= 1
          BY <1>1, <3>1, TTLRefills, Quantities
        <4> QED
          BY <4>1, <1>1, TTLRefills, Quantities DEF Larger
      <3>3. e * PerMinute >= ((TTL - Minute) + 1) * PerMinute
            /\ ((TTL - Minute) + 1) * PerMinute \in Int
        BY <1>3, <3>2, Refill, TTLRefills, Quantities
      <3> QED
        BY <3>3, <1>1, <1>4, <1>5, TTLRefills
    <2> QED
      BY <2>1, <2>2, <2>3
  <1> HIDE DEF now, back, e, t, B
  <1>7. spent + Refilled(now) <= B + (t + e) * PerMinute
    BY <1>1, <1>2, <1>4, <1>5, <1>6
  <1>8. spent + Refilled(now) <= B + ((now - since) + (setback + back)) * PerMinute
    BY <1>7, <1>3, Zenon
  <1> QED
    BY <1>8 DEF now, back, B

-----------------------------------------------------------------------------
(* The invariant is inductive.                                             *)

\* The script takes out of the bucket what it lets through.
LEMMA ScriptTakes ==
  ASSUME BucketTypeOK, NEW p \in Processes, Script(p)
  PROVE  /\ tokens' = IF Allowed(p) THEN Refilled(Now(p)) - Cost ELSE Refilled(Now(p))
         /\ tokens' \in 0..Capacity
         /\ clock' = clock /\ losses' = losses /\ since' = since
         /\ updated' = Now(p) /\ updated' \in Nat
         /\ expires' = clock + TTL /\ expires' \in Nat \ {0} /\ Left' = tokens'
         /\ setback' = setback + Larger(0, updated - Now(p)) /\ setback' \in 0..MaxSetback
         /\ spent' = IF Allowed(p) /\ since <= clock THEN spent + Cost ELSE spent
         /\ spent' \in Nat
  <1>1. Now(p) \in Nat /\ clock \in Nat /\ updated \in Nat /\ setback \in Nat /\ spent \in Nat
    BY Clocks, BucketAssumption DEF BucketTypeOK
  <1>2. /\ tokens' = IF Allowed(p) THEN Refilled(Now(p)) - Cost ELSE Refilled(Now(p))
        /\ clock' = clock /\ losses' = losses /\ since' = since /\ updated' = Now(p)
        /\ expires' = clock + TTL /\ setback' <= MaxSetback
        /\ setback' = setback + Larger(0, updated - Now(p))
        /\ spent' = IF Allowed(p) /\ since <= clock THEN spent + Cost ELSE spent
    BY DEF Script
  <1>3. Refilled(Now(p)) \in 0..Capacity
    BY <1>1, LevelRange
  <1>4. tokens' \in 0..Capacity
    BY <1>2, <1>3, Quantities DEF Allowed
  <1>5. Larger(0, updated - Now(p)) \in Nat
    BY <1>1, Balance
  <1>6. setback' \in 0..MaxSetback
    BY <1>1, <1>2, <1>5, BucketAssumption
  <1>7. expires' \in Nat \ {0}
    BY <1>1, <1>2, TTLRefills
  <1>8. Left' = tokens'
    BY <1>7 DEF Left
  <1>9. spent' \in Nat
    BY <1>1, <1>2, Quantities
  <1> QED
    BY <1>1, <1>2, <1>4, <1>6, <1>7, <1>8, <1>9

LEMMA ScriptKeepsRate ==
  ASSUME BucketInv, NEW p \in Processes, Script(p)
  PROVE  LeftWithinRate' /\ Written'
  <1> DEFINE now == Now(p)
             level == Refilled(now)
             T == (now - since) + (setback + Larger(0, updated - now))
             B == (1 + losses) * Capacity
  <1>0. BucketTypeOK
    BY DEF BucketInv
  <1>1. /\ now \in Nat /\ clock \in Nat /\ clock <= now /\ now < clock + Minute
        /\ updated \in Nat /\ since \in Nat /\ setback \in Nat /\ spent \in Nat /\ losses \in Nat
        /\ level \in 0..Capacity /\ Capacity \in Nat /\ Cost \in Nat /\ B \in Nat
        /\ B >= Capacity /\ Larger(0, updated - now) \in Nat
    <2>1. now \in Nat /\ clock \in Nat /\ clock <= now /\ now < clock + Minute
      BY <1>0, Clocks
    <2>2. /\ updated \in Nat /\ since \in Nat /\ setback \in Nat /\ spent \in Nat
          /\ losses \in Nat
      BY <1>0, BucketAssumption DEF BucketTypeOK, Ticks
    <2>3. level \in 0..Capacity
      BY <1>0, <2>1, LevelRange
    <2>4. B \in Nat /\ B >= Capacity
      BY <2>2, Buckets
    <2>5. Larger(0, updated - now) \in Nat
      BY <2>1, <2>2, Balance
    <2> QED
      BY <2>1, <2>2, <2>3, <2>4, <2>5, Quantities
  <1>2. T \in Int /\ T * PerMinute \in Int /\ (since <= clock => T >= 0)
    <2>1. \A n, m \in Nat, k \in Nat : /\ (n - m) + (setback + k) \in Int
                                      /\ m <= n => (n - m) + (setback + k) >= 0
      BY <1>1
    <2>2. T \in Int /\ (since <= now => T >= 0)
      BY <1>1, <2>1
    <2>3. since <= clock => since <= now
      BY <1>1
    <2> HIDE DEF T, now
    <2>4. T * PerMinute \in Int
      BY <2>2, Refill
    <2> QED
      BY <2>2, <2>3, <2>4
  <1>3. spent' # 0 => spent' + tokens' <= B + T * PerMinute
    <2>1. CASE spent = 0
      <3>1. spent' # 0 => /\ since <= clock
                          /\ spent' + tokens' = level
        BY <1>0, <1>1, <2>1, ScriptTakes
      <3>2. since <= clock => T >= 0
        BY <1>2
      <3>3. T >= 0 => T * PerMinute >= 0
        <4>1. 0 * PerMinute = 0 /\ (T >= 0 => 0 * PerMinute <= T * PerMinute)
          BY <1>2, Refill, Quantities
        <4> QED
          BY <4>1
      <3> HIDE DEF T, B, level
      <3> QED
        BY <1>1, <1>2, <3>1, <3>2, <3>3
    <2>2. CASE spent # 0
      <3>1. spent + level <= B + T * PerMinute
        BY <2>2, LevelWithinRate
      <3>2. spent' + tokens' <= spent + level
        BY <1>0, <1>1, ScriptTakes
      <3>3. spent' \in Nat /\ tokens' \in Nat
        BY <1>0, Quantities, ScriptTakes
      <3> HIDE DEF T, B, level
      <3>4. \A a, b, c, d, e \in Int : a + b <= c /\ c <= d + e => a + b <= d + e
        OBVIOUS
      <3>5. /\ spent' \in Int /\ tokens' \in Int /\ spent + level \in Int
            /\ B \in Int /\ T * PerMinute \in Int
        BY <1>1, <1>2, <3>3
      <3> QED
        BY <3>1, <3>2, <3>4, <3>5, Zenon
    <2> QED
      BY <2>1, <2>2
  <1>4. (1 + losses') * Capacity = B
    BY <1>0, ScriptTakes, Zenon
  <1>5. (updated' - since' + setback') = T
    <2>1. updated' = now /\ since' = since /\ setback' = setback + Larger(0, updated - now)
      BY <1>0, ScriptTakes
    <2>2. (updated' - since' + setback') =
            (now - since + (setback + Larger(0, updated - now)))
      BY <2>1, Zenon
    <2> QED
      BY <2>2, <1>1
  <1>6. LeftWithinRate'
    <2>1. Left' = tokens'
      BY <1>0, ScriptTakes
    <2> HIDE DEF T, B
    <2>2. spent' # 0 => spent' + Left' <=
            (1 + losses') * Capacity + (updated' - since' + setback') * PerMinute
      BY <2>1, <1>3, <1>4, <1>5, Zenon
    <2> QED
      BY <2>2 DEF LeftWithinRate
  <1>7. Written'
    <2>1. expires' = clock + TTL /\ updated' = now
      BY <1>0, ScriptTakes
    <2>2. (clock + TTL) + Minute > now + TTL
      BY <1>1, TTLRefills, Quantities
    <2> QED
      BY <2>1, <2>2, TTLRefills, Zenon DEF Written
  <1> QED
    BY <1>6, <1>7

LEMMA InitBucketInv == BucketInit => BucketInv
  BY BucketAssumption, Quantities
     DEF BucketInit, BucketInv, BucketTypeOK, Ticks, LeftWithinRate, Written, PromiseKept

LEMMA NextBucketInv == BucketInv /\ [BucketNext]_bucketVars => BucketInv'
  <1> SUFFICES ASSUME BucketInv, [BucketNext]_bucketVars PROVE BucketInv'
    OBVIOUS
  <1> USE DEF BucketInv
  <1>1. ASSUME NEW p \in Processes, Check(p)
        PROVE  BucketInv'
    <2>1. Script(p) /\ Now(p) \in Nat /\ Refilled(Now(p)) \in 0..Capacity
      BY <1>1, Clocks, LevelRange DEF Check
    <2>2. promise' = IF Allowed(p) THEN 0 ELSE Now(p) + RetryAfter(Cost - Refilled(Now(p)))
      BY <1>1 DEF Check
    <2>3. ~Allowed(p) => Refilled(Now(p)) < Cost /\ RetryAfter(Cost - Refilled(Now(p))) \in Nat
      <3>1. ~Allowed(p) => Refilled(Now(p)) < Cost /\ Cost - Refilled(Now(p)) \in Nat
        BY <2>1, Quantities DEF Allowed
      <3> QED
        BY <3>1, RoundedUp DEF RetryAfter
    <2>4. BucketTypeOK'
      BY <2>1, <2>2, <2>3, ScriptTakes DEF BucketTypeOK
    <2>5. PromiseKept'
      BY <2>1, <2>2, <2>3, ScriptTakes DEF PromiseKept
    <2> QED
      BY <2>1, <2>4, <2>5, ScriptKeepsRate
  <1>2. ASSUME NEW p \in Processes, Unanswered(p)
        PROVE  BucketInv'
    <2>1. Script(p) /\ promise' = 0
      BY <1>2 DEF Unanswered
    <2>2. BucketTypeOK'
      BY <2>1, ScriptTakes DEF BucketTypeOK
    <2>3. PromiseKept'
      BY <2>1 DEF PromiseKept
    <2> QED
      BY <2>1, <2>2, <2>3, ScriptKeepsRate
  <1>3. CASE Lose
    <2>1. BucketTypeOK' /\ PromiseKept' /\ Written'
      BY <1>3, BucketAssumption DEF Lose, BucketTypeOK, PromiseKept, Written
    <2>2. /\ Left' = Capacity /\ losses' = losses + 1
          /\ UNCHANGED <<spent, updated, since, setback>>
      BY <1>3 DEF Lose, Left
    <2> DEFINE X == (updated - since + setback) * PerMinute
               B == (1 + losses) * Capacity
    <2>3. /\ X \in Int /\ B \in Nat /\ Left \in 0..Capacity /\ spent \in Nat
          /\ (1 + (losses + 1)) * Capacity = B + Capacity /\ Capacity \in Nat
      BY Buckets, Refill, Quantities, BucketAssumption DEF BucketTypeOK, Ticks, Left
    <2>4. spent # 0 => spent + Left <= B + X
      BY DEF LeftWithinRate
    <2> HIDE DEF X, B
    <2>5. spent # 0 => spent + Capacity <= (1 + (losses + 1)) * Capacity + X
      BY <2>3, <2>4
    <2>6. spent' # 0 => spent' + Left' <=
            (1 + losses') * Capacity + (updated' - since' + setback') * PerMinute
      BY <2>2, <2>5, Zenon DEF X
    <2> QED
      BY <2>1, <2>6 DEF LeftWithinRate
  <1>4. CASE Tick
    <2>1. BucketTypeOK'
      BY <1>4, BucketAssumption DEF Tick, BucketTypeOK, Ticks
    <2> QED
      BY <1>4, <2>1 DEF Tick, LeftWithinRate, Left, Written, PromiseKept
  <1>5. CASE UNCHANGED bucketVars
    BY <1>5 DEF bucketVars, BucketTypeOK, LeftWithinRate, Left, Written, PromiseKept
  <1> QED
    BY <1>1, <1>2, <1>3, <1>4, <1>5 DEF BucketNext

-----------------------------------------------------------------------------
(* Theorems.                                                               *)

(* Of ratelimit.py: for every rate, burst and length of time, API processes *)
(* never let through, over any span, more than a full bucket and the refill *)
(* of that span, one bucket more for each loss of the key and one refill    *)
(* more of each tick by which a slow clock sets the bucket back. Where the  *)
(* clocks agree nothing is set back.                                        *)
THEOREM BucketKeepsRate == BucketSpec => [](BucketTypeOK /\ WithinRate)
  <1>1. BucketInv => BucketTypeOK /\ WithinRate
    <2> SUFFICES ASSUME BucketInv, since <= clock
                 PROVE  spent <= (1 + losses) * Capacity
                                 + (Larger(clock, updated) - since + setback) * PerMinute
      BY DEF BucketInv, WithinRate
    <2> DEFINE t == (updated - since + setback)
               T == (Larger(clock, updated) - since + setback)
               B == (1 + losses) * Capacity
    <2>1. /\ clock \in Nat /\ updated \in Nat /\ since \in Nat /\ setback \in Nat
          /\ losses \in Nat /\ spent \in Nat /\ Left \in Nat
      BY BucketAssumption, Quantities DEF BucketInv, BucketTypeOK, Ticks, Left
    <2>2. t \in Int /\ T \in Int /\ t <= T /\ 0 <= T
      BY <2>1 DEF Larger
    <2>3. /\ t * PerMinute \in Int /\ T * PerMinute \in Int
          /\ t * PerMinute <= T * PerMinute /\ 0 * PerMinute <= T * PerMinute
          /\ 0 * PerMinute = 0
      BY <2>2, Refill, Quantities
    <2>4. B \in Nat
      BY <2>1, Buckets
    <2>5. spent # 0 => spent + Left <= B + t * PerMinute
      BY DEF BucketInv, LeftWithinRate
    <2> HIDE DEF t, T, B
    <2>6. spent <= B + T * PerMinute
      BY <2>1, <2>3, <2>4, <2>5
    <2> QED
      BY <2>6 DEF T, B
  <1> QED
    BY <1>1, InitBucketInv, NextBucketInv, PTL DEF BucketSpec

(* Of ratelimit.py's retry_after: for every rate and burst, a caller who    *)
(* comes back when it was told to finds a token, if no other came before,   *)
(* at every process by whose clock the time has passed.                     *)
THEOREM RetryAfterHonest == BucketSpec => []RetryAfterServes
  <1>1. BucketInv => RetryAfterServes
    <2> SUFFICES ASSUME BucketInv, NEW p \in Processes, promise # 0, Now(p) >= promise
                 PROVE  Refilled(Now(p)) >= Cost
      BY DEF RetryAfterServes, Allowed
    <2> DEFINE d == Cost - tokens
               e == Now(p) - updated
    <2>1. /\ tokens < Cost /\ promise = updated + RetryAfter(d) /\ tokens \in Nat
          /\ updated \in Nat /\ Now(p) \in Nat /\ d \in Nat
          /\ Cost \in Nat /\ Capacity \in Nat /\ Cost <= Capacity
      BY Quantities, Clocks DEF BucketInv, PromiseKept, BucketTypeOK
    <2>2. RetryAfter(d) \in Nat /\ RetryAfter(d) * PerMinute > d
      BY <2>1, RoundedUp DEF RetryAfter
    <2>3. e >= RetryAfter(d) /\ e \in Nat
      BY <2>1, <2>2
    <2>4. /\ e * PerMinute >= RetryAfter(d) * PerMinute /\ e * PerMinute \in Int
          /\ RetryAfter(d) * PerMinute \in Int
      BY <2>2, <2>3, Refill
    <2>5. tokens + e * PerMinute >= Cost
      BY <2>1, <2>2, <2>4
    <2>6. \/ Refilled(Now(p)) = Capacity
          \/ Refilled(Now(p)) = tokens + e * PerMinute
      BY <2>1, <2>3, LevelRange DEF BucketInv
    <2> QED
      BY <2>1, <2>5, <2>6
  <1> QED
    BY <1>1, InitBucketInv, NextBucketInv, PTL DEF BucketSpec

-----------------------------------------------------------------------------
(* The upsert of record_usage.                                            *)


\* What a step of UsageCounter preserves and the refinement needs.
UpsertInv == UpsertTypeOK /\ OneWriter /\ RebumpFindsRow

LEMMA InitUpsert == UpsertInit => UpsertInv
  BY NobodyAssumption DEF UpsertInit, UpsertInv, UpsertTypeOK, OneWriter, RebumpFindsRow, NoRow,
     Locations, Base

(* A statement that takes the row to write `value` keeps the invariant when *)
(* `value` is the committed total plus the writer's amount.                 *)
LEMMA WriteUpsert ==
  ASSUME UpsertInv, NEW w \in Workers, holder = Nobody, pc[w] \in {"bump", "insert", "rebump"},
         Write(w, Base + amount[w])
  PROVE  UpsertInv'
  <1> USE NobodyAssumption DEF UpsertInv
  <1>1. UpsertTypeOK'
    BY DEF Write, UpsertTypeOK, Base, NoRow, Locations
  <1>2. OneWriter'
    BY DEF Write, UpsertTypeOK, OneWriter, Base, NoRow, Locations
  <1>3. RebumpFindsRow'
    BY DEF Write, UpsertTypeOK, RebumpFindsRow, Locations
  <1> QED BY <1>1, <1>2, <1>3

LEMMA NextUpsert == UpsertInv /\ [UpsertNext]_upsertVars => UpsertInv'
  <1> SUFFICES ASSUME UpsertInv, [UpsertNext]_upsertVars PROVE UpsertInv'
    OBVIOUS
  <1> USE NobodyAssumption, AmountsAssumption, MaxCallsAssumption
  <1>1. ASSUME NEW w \in Workers, NEW n \in Amounts, RecordUsage(w, n)
        PROVE  UpsertInv'
    BY <1>1 DEF RecordUsage, UpsertInv, UpsertTypeOK, OneWriter, RebumpFindsRow, Base, NoRow,
       Locations
  <1>2. ASSUME NEW w \in Workers, Bump(w)
        PROVE  UpsertInv'
    <2>1. Write(w, Base + amount[w])
      BY <1>2 DEF Bump, Base
    <2> QED BY <1>2, <2>1, WriteUpsert DEF Bump
  <1>3. ASSUME NEW w \in Workers, BumpMisses(w)
        PROVE  UpsertInv'
    BY <1>3 DEF BumpMisses, Goto, UpsertInv, UpsertTypeOK, OneWriter, RebumpFindsRow, Base,
       NoRow, Locations
  <1>4. ASSUME NEW w \in Workers, Insert(w)
        PROVE  UpsertInv'
    <2>1. amount[w] = Base + amount[w]
      BY <1>4 DEF Insert, Base, UpsertInv, UpsertTypeOK
    <2>2. Write(w, Base + amount[w])
      BY <1>4, <2>1 DEF Insert
    <2> QED BY <1>4, <2>2, WriteUpsert DEF Insert
  <1>5. ASSUME NEW w \in Workers, InsertConflicts(w)
        PROVE  UpsertInv'
    BY <1>5 DEF InsertConflicts, Goto, UpsertInv, UpsertTypeOK, OneWriter, RebumpFindsRow,
       Base, NoRow, Locations
  <1>6. ASSUME NEW w \in Workers, Rebump(w)
        PROVE  UpsertInv'
    <2>1. Write(w, Base + amount[w])
      BY <1>6 DEF Rebump, Base
    <2> QED BY <1>6, <2>1, WriteUpsert DEF Rebump
  <1>7. ASSUME NEW w \in Workers, CommitUpsert(w)
        PROVE  UpsertInv'
    BY <1>7 DEF CommitUpsert, UpsertInv, UpsertTypeOK, OneWriter, RebumpFindsRow, Base, NoRow,
       Locations
  <1>8. ASSUME NEW w \in Workers, Rollback(w)
        PROVE  UpsertInv'
    BY <1>8 DEF Rollback, UpsertInv, UpsertTypeOK, OneWriter, RebumpFindsRow, Base, NoRow,
       Locations
  <1>9. CASE UNCHANGED upsertVars
    BY <1>9 DEF upsertVars, UpsertInv, UpsertTypeOK, OneWriter, RebumpFindsRow, Base
  <1> QED
    BY <1>1, <1>2, <1>3, <1>4, <1>5, <1>6, <1>7, <1>8, <1>9 DEF UpsertNext, Step

(* The upsert keeps its types, has one writer at a time whose draft extends *)
(* the committed total, and its retried UPDATE always finds the row.        *)
THEOREM UpsertInvariant == UpsertSpec => [](UpsertTypeOK /\ OneWriter /\ RebumpFindsRow)
  <1>1. UpsertSpec => []UpsertInv
    BY InitUpsert, NextUpsert, PTL DEF UpsertSpec
  <1> QED BY <1>1, PTL DEF UpsertInv

LEMMA InitRefines == UpsertInit => Counter!Init
  BY DEF UpsertInit, Counter!Init, Base, NoRow

LEMMA NextRefines ==
  UpsertInv /\ [UpsertNext]_upsertVars => [Counter!Next]_<<Base, told>>
  <1> SUFFICES ASSUME UpsertInv, [UpsertNext]_upsertVars
               PROVE  [Counter!Next]_<<Base, told>>
    OBVIOUS
  <1>1. ASSUME NEW w \in Workers, CommitUpsert(w)
        PROVE  Counter!Add(w, amount[w])
    <2>1. Base' = Base + amount[w]
      BY <1>1 DEF CommitUpsert, UpsertInv, UpsertTypeOK, OneWriter, Base, NoRow
    <2>2. told' = [told EXCEPT ![w] = Base + amount[w]]
      BY <1>1 DEF CommitUpsert, UpsertInv, UpsertTypeOK, OneWriter
    <2> QED BY <2>1, <2>2 DEF Counter!Add
  <1>2. ASSUME NEW w \in Workers, CommitUpsert(w)
        PROVE  Counter!Next
    <2>1. amount[w] \in Amounts
      BY <1>2 DEF CommitUpsert, UpsertInv, UpsertTypeOK
    <2> QED BY <1>1, <1>2, <2>1 DEF Counter!Next
  <1>3. CASE ~ \E w \in Workers : CommitUpsert(w)
    BY <1>3 DEF UpsertNext, Step, RecordUsage, Bump, BumpMisses, Insert, InsertConflicts,
       Rebump, Rollback, Write, Goto, upsertVars, Base
  <1> QED BY <1>2, <1>3

(* record_usage loses no increment: the upsert with its lock waits, its     *)
(* savepoint and its retry implements an atomic addition per committed      *)
(* transaction, and answers with the total right after that addition.       *)
THEOREM UpsertIsAtomic == UpsertSpec => NoLostIncrement
  <1>1. UpsertInit => Counter!Init
    BY InitRefines
  <1>2. UpsertInv /\ [UpsertNext]_upsertVars => [Counter!Next]_<<Base, told>>
    BY NextRefines
  <1>3. UpsertSpec => []UpsertInv
    BY InitUpsert, NextUpsert, PTL DEF UpsertSpec
  <1> QED BY <1>1, <1>2, <1>3, PTL DEF UpsertSpec, NoLostIncrement, Counter!Spec

-----------------------------------------------------------------------------
(* Billing: the stale guard. IInv is what every step preserves, whatever   *)
(* the number of webhooks.                                                 *)

IInv == TypeOK /\ IsFiniteSet(sent) /\ GuardHeld

\* An event is a record with a subscription's name in it, so it is not Idle.
LEMMA EventIsNotIdle == \A e \in Events : e # Idle
  BY NamesAssumption DEF Events, Idle, NoSub

\* What is assigned for an event that parses is a row of the table.
LEMMA RowOfType ==
  ASSUME NEW e \in Events, Parses(e)
  PROVE  RowOf(e) \in Rows
  <1>1. IsActive(e) => e.plan # Unmapped
    BY DEF Parses, IsActive, ACTIVE_STATUSES
  <1>2. IsActive(e) => e.plan \in Plans
    BY <1>1 DEF Events
  <1> QED
    BY <1>2 DEF RowOf, Rows, Events, Customers

\* The columns of a row.
LEMMA Columns ==
  \A r \in Rows : DOMAIN r = {"customer", "sub", "plan", "status", "period"}
  BY DEF Rows

\* A flush writes each column from the event or leaves it.
LEMMA ChangedType ==
  ASSUME org \in Rows, NEW before \in Rows, NEW after \in Rows
  PROVE  Changed(before, after) \in Rows
  <1> DEFINE v(c) == IF after[c] # before[c] THEN after[c] ELSE org[c]
  <1>1. Changed(before, after) =
          [customer |-> v("customer"), sub |-> v("sub"), plan |-> v("plan"),
           status |-> v("status"), period |-> v("period")]
    BY Columns DEF Changed
  <1>2. /\ v("customer") \in Customers /\ v("sub") \in Subs \cup {NoSub}
        /\ v("plan") \in Plans \cup {"free"} /\ v("status") \in {"active", "suspended"}
        /\ v("period") \in Periods \cup {NoPeriod}
    BY DEF Rows
  <1> QED
    BY <1>1, <1>2 DEF Rows

\* Over the row it was read from, a flush leaves what was assigned.
LEMMA ChangedFromSame ==
  ASSUME org \in Rows, NEW after \in Rows
  PROVE  Changed(org, after) = after
  <1>1. DOMAIN org = DOMAIN after /\ after = [c \in DOMAIN after |-> after[c]]
    BY Columns DEF Rows
  <1>2. Changed(org, after) = [c \in DOMAIN after |-> after[c]]
    BY <1>1 DEF Changed
  <1> QED
    BY <1>1, <1>2

-----------------------------------------------------------------------------
(* The invariant.                                                          *)

LEMMA InitIInv == Init => IInv
  <1> SUFFICES ASSUME Init PROVE IInv
    OBVIOUS
  <1>1. Fresh \in Rows
    BY DEF Fresh, Rows, Customers
  <1>2. TypeOK
    BY <1>1, BoundsAssumption DEF Init, TypeOK, Subscriptions, Customers
  <1>3. IsFiniteSet(sent)
    BY FS_EmptySet DEF Init
  <1>4. GuardHeld
    BY DEF Init, GuardHeld
  <1> QED
    BY <1>2, <1>3, <1>4 DEF IInv

\* Stripe's steps change the subscription and add one event to those sent.
LEMMA SendIInv ==
  ASSUME IInv, NEW s \in Subs, NEW subscription \in Subscriptions,
         subscription.status \in {"incomplete", "active", "past_due", "canceled"},
         Send(s, subscription)
  PROVE  IInv'
  <1> USE DEF IInv
  <1>1. PICK p \in {subscription.period, NoPeriod} :
          LET e == [sub |-> s, customer |-> subscription.customer,
                    plan |-> subscription.plan, status |-> subscription.status,
                    period |-> p, seq |-> Cardinality(sent) + 1]
          IN  sent' = sent \cup {e} /\ unacked' = unacked \cup {e}
    BY DEF Send
  <1> DEFINE e == [sub |-> s, customer |-> subscription.customer,
                   plan |-> subscription.plan, status |-> subscription.status,
                   period |-> p, seq |-> Cardinality(sent) + 1]
  <1>2. sent' = sent \cup {e} /\ unacked' = unacked \cup {e}
    BY <1>1
  <1>3. Cardinality(sent) \in Nat /\ Cardinality(sent) + 1 \in 1..MaxEvents
    <2>1. Cardinality(sent) \in Nat
      BY FS_CardinalityType
    <2> QED
      BY <2>1, BoundsAssumption DEF Send
  <1>4. p \in Periods \cup {NoPeriod}
    BY <1>1 DEF Subscriptions
  <1>5. e \in Events
    BY <1>3, <1>4 DEF Events, Subscriptions
  <1> HIDE DEF e
  <1>6. TypeOK'
    <2>1. sub' \in [Subs -> Subscriptions]
      BY DEF Send, TypeOK
    <2>2. sent' \subseteq Events /\ unacked' \subseteq sent'
      BY <1>2, <1>5 DEF TypeOK
    <2>3. event' \in [Webhooks -> sent' \cup {Idle}]
      BY <1>2 DEF Send, webhookVars, TypeOK
    <2> QED
      BY <2>1, <2>2, <2>3 DEF Send, webhookVars, TypeOK
  <1>7. IsFiniteSet(sent')
    BY <1>2, FS_AddElement
  <1>8. GuardHeld'
    BY DEF Send, webhookVars, GuardHeld
  <1> QED
    BY <1>6, <1>7, <1>8

LEMMA StripeIInv ==
  ASSUME IInv, NEW s \in Subs, Stripe(s)
  PROVE  IInv'
  <1>1. sub[s] \in Subscriptions
    BY DEF IInv, TypeOK
  <1>2. CASE Subscribe(s)
    BY <1>1, <1>2, SendIInv DEF Subscribe, Subscriptions
  <1>3. CASE Paid(s)
    BY <1>1, <1>3, SendIInv DEF Paid, Subscriptions
  <1>4. CASE PaymentFails(s)
    BY <1>1, <1>4, SendIInv DEF PaymentFails, Subscriptions
  <1>5. CASE Renew(s)
    BY <1>1, <1>5, SendIInv DEF Renew, Subscriptions
  <1>6. CASE ChangePlan(s)
    BY <1>1, <1>6, SendIInv DEF ChangePlan, Subscriptions
  <1>7. CASE Cancel(s)
    BY <1>1, <1>7, SendIInv DEF Cancel, Subscriptions
  <1> QED
    BY <1>2, <1>3, <1>4, <1>5, <1>6, <1>7 DEF Stripe

LEMMA NextIInv == IInv /\ [Next]_vars => IInv'
  <1> SUFFICES ASSUME IInv, [Next]_vars PROVE IInv'
    OBVIOUS
  <1> USE DEF IInv
  <1>1. ASSUME NEW s \in Subs, CreateCheckout(s)
        PROVE  IInv'
    <2>1. PICK p \in Plans :
            sub' = [sub EXCEPT ![s] = [customer |-> IF org.customer = NoSub THEN s
                                                    ELSE org.customer,
                                       plan |-> p, period |-> NoPeriod,
                                       status |-> "checkout"]]
      BY <1>1 DEF CreateCheckout
    <2>2. org.customer \in Customers
      BY DEF TypeOK, Rows
    <2>3. sub' \in [Subs -> Subscriptions]
      BY <2>1, <2>2 DEF TypeOK, Subscriptions, Customers
    <2> QED
      BY <1>1, <2>3 DEF CreateCheckout, webhookVars, TypeOK, GuardHeld
  <1>2. ASSUME NEW s \in Subs, Stripe(s)
        PROVE  IInv'
    BY <1>2, StripeIInv
  <1>3. ASSUME NEW w \in Webhooks, NEW e \in Delivered, Ignore(w, e)
        PROVE  IInv'
    BY <1>3 DEF Ignore, Noted, TypeOK, GuardHeld
  <1>4. ASSUME NEW w \in Webhooks, NEW e \in Delivered, Apply(w, e)
        PROVE  IInv'
    <2>1. e \in sent
      BY DEF Delivered, TypeOK
    <2>2. TypeOK'
      BY <1>4, <2>1 DEF Apply, Noted, TypeOK
    <2>3. GuardHeld'
      BY <1>4 DEF Apply, GuardHeld, TypeOK
    <2> QED
      BY <1>4, <2>2, <2>3 DEF Apply
  <1>5. ASSUME NEW w \in Webhooks, Commit(w)
        PROVE  IInv'
    <2>1. event[w] \in Events /\ Parses(event[w])
      BY <1>5 DEF Commit, TypeOK, GuardHeld
    <2>2. Changed(loaded[w], RowOf(event[w])) \in Rows
      BY <2>1, RowOfType, ChangedType DEF TypeOK
    <2>3. TypeOK'
      BY <1>5, <2>2 DEF Commit, TypeOK
    <2>4. GuardHeld'
      BY <1>5 DEF Commit, GuardHeld, TypeOK
    <2> QED
      BY <1>5, <2>3, <2>4 DEF Commit
  <1>6. ASSUME NEW w \in Webhooks, Fail(w)
        PROVE  IInv'
    BY <1>6, BoundsAssumption DEF Fail, TypeOK, GuardHeld
  <1>7. CASE UNCHANGED vars
    BY <1>7 DEF vars, TypeOK, GuardHeld
  <1> QED
    BY <1>1, <1>2, <1>3, <1>4, <1>5, <1>6, <1>7 DEF Next, Receive

(* The columns always hold values the rest of the program expects: a paid   *)
(* or the free plan, "active" or "suspended", never Stripe's own words.     *)
THEOREM TypeCorrect == Spec => []TypeOK
  <1>1. IInv => TypeOK
    BY DEF IInv
  <1> QED
    BY <1>1, InitIInv, NextIInv, PTL DEF Spec

-----------------------------------------------------------------------------
(* With any number of webhooks: a rollback needs an overlap.                *)

\* A commit over the row the handler read leaves the period it knew, or none, and a
\* row of its event.
LEMMA CommitHarmless ==
  ASSUME IInv, NEW w \in Webhooks, Commit(w), loaded[w] = org
  PROVE  ~Older(org', org) /\ Whole(org')
  <1>1. event[w] \in sent /\ event[w] \in Events /\ Parses(event[w]) /\ ~Stale(org, event[w])
    BY DEF Commit, IInv, TypeOK, GuardHeld
  <1>2. org' = RowOf(event[w])
    BY <1>1, RowOfType, ChangedFromSame DEF Commit, IInv, TypeOK
  <1>3. org.period \in Nat
    BY BoundsAssumption DEF IInv, TypeOK, Rows, Periods, NoPeriod
  <1>4. org'.period = event[w].period /\ event[w].period \in Nat
    BY <1>1, <1>2, BoundsAssumption DEF RowOf, Events, Periods, NoPeriod
  <1>5. ~Older(org', org)
    BY <1>1, <1>3, <1>4 DEF Older, Stale, NoPeriod
  <1> QED
    BY <1>1, <1>2, <1>5 DEF Whole

\* Only a commit changes the row.
LEMMA OnlyCommitWrites ==
  ASSUME [Next]_vars, org' # org
  PROVE  \E w \in Webhooks : Commit(w)
  BY DEF Next, CreateCheckout, Stripe, Subscribe, Paid, PaymentFails, Renew, ChangePlan,
     Cancel, Send, Receive, Ignore, Apply, Fail, webhookVars, vars

(* A late event of a superseded period rolls the row back, or one event's    *)
(* columns stay next to another's, only when two webhooks overlap: one that *)
(* reads and writes alone does neither, whatever Stripe sends, in whatever  *)
(* order, with or without its period, and whatever row it found.            *)
THEOREM HarmOnlyByOverlap == Spec => HarmNeedsOverlap
  <1> DEFINE Overlap == \E w \in Webhooks :
               event[w] # Idle /\ event'[w] = Idle /\ loaded[w] # org
             Harm == org' # org /\ (Older(org', org) \/ ~Whole(org')) => Overlap
  <1>1. ASSUME IInv, [Next]_vars
        PROVE  [Harm]_vars
    <2> SUFFICES ASSUME org' # org, Older(org', org) \/ ~Whole(org') PROVE Overlap
      OBVIOUS
    <2>1. PICK w \in Webhooks : Commit(w)
      BY <1>1, OnlyCommitWrites
    <2>2. loaded[w] # org
      BY <1>1, <2>1, CommitHarmless
    <2> QED
      BY <1>1, <2>1, <2>2 DEF Commit, IInv, TypeOK
  <1> QED
    BY <1>1, InitIInv, NextIInv, PTL DEF Spec, HarmNeedsOverlap

-----------------------------------------------------------------------------
(* As long as webhooks do not overlap and events carry their period.        *)

\* Webhooks that did not overlap: one in progress at most, and over the row it read.
Serial ==
    alone => /\ \A w \in Webhooks : event[w] # Idle => loaded[w] = org
             /\ \A v, w \in Webhooks : event[v] # Idle /\ event[w] # Idle => v = w

SInv == IInv /\ Serial /\ RowOfLatestPeriod

LEMMA InitSInv == Init => SInv
  BY InitIInv DEF Init, SInv, Serial, RowOfLatestPeriod, Told, Whole

LEMMA NextSerial == IInv /\ Serial /\ [Next]_vars => Serial'
  <1> SUFFICES ASSUME IInv, Serial, [Next]_vars PROVE Serial'
    OBVIOUS
  <1> USE DEF Serial
  <1>1. ASSUME NEW s \in Subs, CreateCheckout(s) \/ Stripe(s)
        PROVE  Serial'
    BY <1>1 DEF CreateCheckout, Stripe, Subscribe, Paid, PaymentFails, Renew, ChangePlan,
       Cancel, Send, webhookVars
  <1>2. ASSUME NEW w \in Webhooks, NEW e \in Delivered, Ignore(w, e)
        PROVE  Serial'
    BY <1>2 DEF Ignore, Noted
  <1>3. ASSUME NEW w \in Webhooks, NEW e \in Delivered, Apply(w, e)
        PROVE  Serial'
    BY <1>3 DEF Apply, Noted, IInv, TypeOK
  <1>4. ASSUME NEW w \in Webhooks, Commit(w)
        PROVE  Serial'
    BY <1>4 DEF Commit, IInv, TypeOK
  <1>5. ASSUME NEW w \in Webhooks, Fail(w)
        PROVE  Serial'
    BY <1>5 DEF Fail, IInv, TypeOK
  <1>6. CASE UNCHANGED vars
    BY <1>6 DEF vars
  <1> QED
    BY <1>1, <1>2, <1>3, <1>4, <1>5, <1>6 DEF Next, Receive

\* An event that is told leaves the row no older than it found it.
LEMMA NextRow == SInv /\ [Next]_vars => RowOfLatestPeriod'
  <1> SUFFICES ASSUME SInv, [Next]_vars, alone', Timed'
               PROVE  /\ org' = Fresh \/ \E e \in sent' : org' = RowOf(e)
                      /\ \A e \in sent' : Told(e)' => e.period <= org'.period
    BY DEF RowOfLatestPeriod, Whole
  <1> USE DEF SInv
  <1> DEFINE Row == /\ org = Fresh \/ \E e \in sent : org = RowOf(e)
                    /\ \A e \in sent : Told(e) => e.period <= org.period
  <1>1. ASSUME alone, Timed
        PROVE  Row
    BY <1>1 DEF RowOfLatestPeriod, Whole
  <1>2. ASSUME NEW s \in Subs, NEW subscription, Send(s, subscription)
        PROVE  Row'
    <2>1. PICK e : sent' = sent \cup {e} /\ unacked' = unacked \cup {e}
      BY <1>2 DEF Send
    <2>2. org' = org /\ alone' = alone
      BY <1>2 DEF Send, webhookVars
    <2>3. Timed
      BY <2>1 DEF Timed
    <2>4. Row
      BY <1>1, <2>2, <2>3
    <2> QED
      BY <2>1, <2>2, <2>4 DEF Told
  <1>3. ASSUME NEW s \in Subs, CreateCheckout(s) \/ Stripe(s)
        PROVE  Row'
    <2>1. CASE CreateCheckout(s)
      BY <1>1, <2>1 DEF CreateCheckout, webhookVars, Timed, Told
    <2>2. CASE Stripe(s)
      BY <1>2, <2>2 DEF Stripe, Subscribe, Paid, PaymentFails, Renew, ChangePlan, Cancel
    <2> QED
      BY <1>3, <2>1, <2>2
  <1>4. ASSUME NEW w \in Webhooks, NEW e \in Delivered, Ignore(w, e)
        PROVE  Row'
    <2>1. alone /\ Timed /\ sent' = sent /\ org' = org /\ unacked' = unacked \ {e}
      BY <1>4 DEF Ignore, Noted, Timed
    <2>2. ~Parses(e) \/ e.period < org.period
      BY <1>4 DEF Ignore, Stale
    <2>3. org.period \in Nat /\ \A f \in sent : f.period \in Nat
      BY BoundsAssumption DEF IInv, TypeOK, Rows, Events, Periods, NoPeriod
    <2> QED
      BY <1>1, <2>1, <2>2, <2>3 DEF Told
  <1>5. ASSUME NEW w \in Webhooks, NEW e \in Delivered, Apply(w, e)
        PROVE  Row'
    BY <1>1, <1>5 DEF Apply, Noted, Timed, Told
  <1>6. ASSUME NEW w \in Webhooks, Commit(w)
        PROVE  Row'
    <2> DEFINE e == event[w]
    <2>0. alone /\ Timed /\ sent' = sent /\ unacked' = unacked \ {e}
      BY <1>6 DEF Commit, Timed
    <2>1. /\ e \in sent /\ e \in Events
          /\ Parses(e) /\ ~Stale(org, e) /\ loaded[w] = org
      BY <1>6, <2>0 DEF Commit, IInv, TypeOK, GuardHeld, Serial
    <2>2. org' = RowOf(e)
      BY <1>6, <2>1, RowOfType, ChangedFromSame DEF Commit, IInv, TypeOK
    <2>3. /\ org.period \in Nat /\ e.period \in Nat \ {0} /\ org'.period = e.period
          /\ \A f \in sent : f.period \in Nat
      BY <2>0, <2>1, <2>2, BoundsAssumption
         DEF IInv, TypeOK, Rows, RowOf, Events, Periods, NoPeriod, Timed
    <2>4. org.period <= e.period
      BY <2>1, <2>3 DEF Stale, NoPeriod
    <2>5. ASSUME NEW f \in sent, Told(f)'
          PROVE  f.period <= e.period
      <3>1. f = e \/ Told(f)
        BY <2>0, <2>5 DEF Told
      <3>2. Told(f) => f.period <= org.period
        BY <1>1, <2>0
      <3> QED
        BY <2>3, <2>4, <3>1, <3>2
    <2> HIDE DEF e
    <2> QED
      BY <2>0, <2>1, <2>2, <2>3, <2>5
  <1>7. ASSUME NEW w \in Webhooks, Fail(w)
        PROVE  Row'
    BY <1>1, <1>7 DEF Fail, Timed, Told
  <1>8. CASE UNCHANGED vars
    BY <1>1, <1>8 DEF vars, Timed, Told
  <1> QED
    BY <1>3, <1>4, <1>5, <1>6, <1>7, <1>8 DEF Next, Receive

LEMMA NextSInv == SInv /\ [Next]_vars => SInv'
  BY NextIInv, NextSerial, NextRow DEF SInv

(* As long as webhooks have not overlapped and events carry their period,    *)
(* the row is that of a whole event of the latest period told: the stale     *)
(* guard is right about periods, whatever the order, duplicates, failures   *)
(* and the number of subscriptions.                                         *)
THEOREM RowIsLatest == Spec => []RowOfLatestPeriod
  <1>1. SInv => RowOfLatestPeriod
    BY DEF SInv
  <1> QED
    BY <1>1, InitSInv, NextSInv, PTL DEF Spec

-----------------------------------------------------------------------------
(* As long as webhooks do not overlap and events come once each, in order.  *)

\* Events are numbered as they are sent; a subscription's known periods grow.
SentInOrder ==
    /\ \A e \in sent : /\ e.seq <= Cardinality(sent)
                       /\ sub[e.sub].status \notin {"none", "checkout"}
                       /\ e.period <= sub[e.sub].period
    /\ \A e, f \in sent : e.seq = f.seq => e = f
    /\ \A e, f \in sent :
        e.sub = f.sub /\ e.seq <= f.seq /\ f.period # NoPeriod => e.period <= f.period

OneSubscription == \A e, f \in sent : e.sub = f.sub

\* What is told or being applied comes before the rest; the row is of a told event.
InOrder ==
    alone /\ ordered /\ OneSubscription =>
        /\ \A e \in sent \ unacked, f \in unacked : e.seq < f.seq
        /\ \A w \in Webhooks : event[w] # Idle =>
               event[w] \in unacked /\ \A f \in unacked : event[w].seq <= f.seq
        /\ org = Fresh \/ \E e \in sent : Told(e) /\ org = RowOf(e)
        /\ \A e \in sent :
               Told(e) /\ (\A f \in sent : Told(f) => f.seq <= e.seq) => org = RowOf(e)

OInv == IInv /\ Serial /\ SentInOrder /\ InOrder

LEMMA InitOInv == Init => OInv
  BY InitIInv DEF Init, OInv, Serial, SentInOrder, InOrder, Told

LEMMA SendOne ==
  ASSUME NEW s, NEW subscription, Send(s, subscription)
  PROVE  \E n : /\ n.sub = s /\ n.seq = Cardinality(sent) + 1
                /\ n.period \in {subscription.period, NoPeriod}
                /\ sent' = sent \cup {n} /\ unacked' = unacked \cup {n}
  <1>1. PICK p \in {subscription.period, NoPeriod} :
          LET e == [sub |-> s, customer |-> subscription.customer,
                    plan |-> subscription.plan, status |-> subscription.status,
                    period |-> p, seq |-> Cardinality(sent) + 1]
          IN  sent' = sent \cup {e} /\ unacked' = unacked \cup {e}
    BY DEF Send
  <1> QED BY <1>1

LEMMA SendInOrder ==
  ASSUME OInv, IInv', NEW s \in Subs, NEW subscription \in Subscriptions,
         subscription.status \notin {"none", "checkout"},
         sub[s].status \notin {"none", "checkout"} => sub[s].period <= subscription.period,
         Send(s, subscription)
  PROVE  SentInOrder' /\ InOrder'
  <1> USE DEF OInv
  <1>1. PICK n : /\ n.sub = s /\ n.seq = Cardinality(sent) + 1
                 /\ n.period \in {subscription.period, NoPeriod}
                 /\ sent' = sent \cup {n} /\ unacked' = unacked \cup {n}
    BY SendOne
  <1>2. /\ Cardinality(sent) \in Nat
        /\ \A e \in sent : e.seq \in Nat /\ e.period \in Nat /\ e.sub \in Subs
        /\ subscription.period \in Nat
        /\ \A r \in Subs : sub[r].period \in Nat
        /\ NoPeriod = 0
    BY FS_CardinalityType, BoundsAssumption
       DEF IInv, TypeOK, Events, Subscriptions, Periods, NoPeriod
  <1>3. /\ n \notin sent /\ Cardinality(sent') = Cardinality(sent) + 1
        /\ \A e \in sent : e.seq < n.seq
    <2>1. \A e \in sent : e.seq < n.seq
      BY <1>1, <1>2 DEF SentInOrder
    <2>2. n \notin sent
      BY <1>1, <1>2, <2>1
    <2> QED BY <1>1, <2>1, <2>2, FS_AddElement DEF IInv
  <1>4. /\ sub'[s] = subscription /\ \A r \in Subs : r # s => sub'[r] = sub[r]
        /\ UNCHANGED <<org, event, alone, ordered>>
    BY DEF Send, webhookVars, IInv, TypeOK
  <1>5. n.period \in Nat /\ n.period <= subscription.period
    BY <1>1, <1>2
  <1>6. \A e \in sent : e.sub = s => e.period <= subscription.period
    BY <1>2 DEF SentInOrder
  <1>7. SentInOrder'
    <2>1. ASSUME NEW e \in sent'
          PROVE  /\ e.seq <= Cardinality(sent')
                 /\ sub'[e.sub].status \notin {"none", "checkout"}
                 /\ e.period <= sub'[e.sub].period
      <3>1. CASE e = n
        BY <1>1, <1>2, <1>3, <1>4, <1>5, <3>1
      <3>2. CASE e \in sent
        BY <1>2, <1>3, <1>4, <1>6, <3>2 DEF SentInOrder
      <3> QED BY <1>1, <3>1, <3>2
    <2>2. \A e, f \in sent' : e.seq = f.seq => e = f
      BY <1>1, <1>2, <1>3 DEF SentInOrder
    <2>3. ASSUME NEW e \in sent', NEW f \in sent',
                 e.sub = f.sub, e.seq <= f.seq, f.period # NoPeriod
          PROVE  e.period <= f.period
      <3>1. CASE f = n
        <4>1. f.period = subscription.period
          BY <1>1, <2>3, <3>1
        <4> QED BY <1>1, <1>5, <1>6, <2>3, <3>1, <4>1
      <3>2. CASE f \in sent
        <4>1. e # n
          BY <1>1, <1>2, <1>3, <2>3, <3>2
        <4> QED BY <1>1, <2>3, <3>2, <4>1 DEF SentInOrder
      <3> QED BY <1>1, <3>1, <3>2
    <2> QED BY <2>1, <2>2, <2>3 DEF SentInOrder
  <1>8. InOrder'
    <2> SUFFICES ASSUME alone', ordered', OneSubscription'
                 PROVE  /\ \A e \in sent' \ unacked', f \in unacked' : e.seq < f.seq
                        /\ \A w \in Webhooks : event'[w] # Idle =>
                              /\ event'[w] \in unacked'
                              /\ \A f \in unacked' : event'[w].seq <= f.seq
                        /\ org' = Fresh \/ \E e \in sent' : Told(e)' /\ org' = RowOf(e)
                        /\ \A e \in sent' :
                               Told(e)' /\ (\A f \in sent' : Told(f)' => f.seq <= e.seq)
                                 => org' = RowOf(e)
      BY DEF InOrder
    <2>1. alone /\ ordered /\ OneSubscription
      BY <1>1, <1>4 DEF OneSubscription
    <2>2. sent' \ unacked' = sent \ unacked /\ unacked \subseteq sent
      BY <1>1, <1>3 DEF IInv, TypeOK
    <2>3. \A e : Told(e)' <=> Told(e)
      BY <2>2 DEF Told
    <2>4. \A e \in sent' \ unacked', f \in unacked' : e.seq < f.seq
      BY <1>1, <1>3, <2>1, <2>2 DEF InOrder
    <2>5. ASSUME NEW w \in Webhooks, event'[w] # Idle
          PROVE  event'[w] \in unacked' /\ \A f \in unacked' : event'[w].seq <= f.seq
      <3>1. event'[w] \in unacked /\ \A f \in unacked : event'[w].seq <= f.seq
        BY <1>4, <2>1, <2>5 DEF InOrder
      <3>2. event'[w].seq < n.seq
        BY <1>3, <2>2, <3>1
      <3>3. event'[w].seq \in Nat /\ n.seq \in Nat
        BY <1>1, <1>2, <2>2, <3>1
      <3> QED BY <1>1, <3>1, <3>2, <3>3
    <2>6. org = Fresh \/ \E e \in sent : Told(e) /\ org = RowOf(e)
      BY <2>1 DEF InOrder
    <2>7. ASSUME NEW e \in sent', Told(e)', \A f \in sent' : Told(f)' => f.seq <= e.seq
          PROVE  org = RowOf(e)
      <3>1. e \in sent /\ Told(e) /\ \A f \in sent : Told(f) => f.seq <= e.seq
        BY <1>1, <2>3, <2>7 DEF Told
      <3> QED BY <2>1, <3>1 DEF InOrder
    <2> QED BY <1>1, <1>4, <2>3, <2>4, <2>5, <2>6, <2>7
  <1> QED BY <1>7, <1>8

LEMMA StripeInOrder ==
  ASSUME OInv, IInv', NEW s \in Subs, Stripe(s)
  PROVE  SentInOrder' /\ InOrder'
  <1>1. /\ sub[s] \in Subscriptions
        /\ sub[s].period \in Nat /\ \A p \in Periods : p \in Nat
    BY BoundsAssumption DEF OInv, IInv, TypeOK, Subscriptions, Periods, NoPeriod
  <1>2. CASE Subscribe(s)
    BY <1>1, <1>2, SendInOrder DEF Subscribe, Subscriptions
  <1>3. CASE Paid(s)
    BY <1>1, <1>3, SendInOrder DEF Paid, Subscriptions
  <1>4. CASE PaymentFails(s)
    BY <1>1, <1>4, SendInOrder DEF PaymentFails, Subscriptions
  <1>5. CASE Renew(s)
    BY <1>1, <1>5, SendInOrder DEF Renew, Subscriptions
  <1>6. CASE ChangePlan(s)
    BY <1>1, <1>6, SendInOrder DEF ChangePlan, Subscriptions
  <1>7. CASE Cancel(s)
    BY <1>1, <1>7, SendInOrder DEF Cancel, Subscriptions
  <1> QED
    BY <1>2, <1>3, <1>4, <1>5, <1>6, <1>7 DEF Stripe

\* The next event in order is never taken for stale.
LEMMA NextIsNotStale ==
  ASSUME OInv, alone, ordered, OneSubscription, NEW e \in unacked,
         \A f \in unacked : e.seq <= f.seq
  PROVE  ~Stale(org, e)
  <1>1. /\ e \in sent /\ e.period \in Nat
        /\ \A f \in sent : f.seq \in Nat /\ f.period \in Nat
    BY BoundsAssumption DEF OInv, IInv, TypeOK, Events, Periods, NoPeriod
  <1>2. CASE org = Fresh
    BY <1>2 DEF Stale, Fresh
  <1>3. ASSUME NEW f \in sent, Told(f), org = RowOf(f)
        PROVE  ~Stale(org, e)
    <2>1. f.seq < e.seq /\ f.sub = e.sub
      BY <1>1, <1>3 DEF OInv, InOrder, Told, OneSubscription
    <2>2. e.period # NoPeriod => f.period <= e.period
      BY <1>1, <2>1 DEF OInv, SentInOrder
    <2> QED BY <1>1, <1>3, <2>2 DEF Stale, RowOf
  <1> QED BY <1>2, <1>3 DEF OInv, InOrder

LEMMA NextInOrder == OInv /\ IInv' /\ [Next]_vars => SentInOrder' /\ InOrder'
  <1> SUFFICES ASSUME OInv, IInv', [Next]_vars PROVE SentInOrder' /\ InOrder'
    OBVIOUS
  <1>0. /\ unacked \subseteq sent /\ \A e \in sent : e.seq \in Nat /\ e \in Events
        /\ \A w \in Webhooks : event[w] \in sent \cup {Idle}
    BY BoundsAssumption DEF OInv, IInv, TypeOK, Events
  <1>1. ASSUME NEW s \in Subs, CreateCheckout(s)
        PROVE  SentInOrder' /\ InOrder'
    <2>1. /\ UNCHANGED <<org, sent, unacked, event, alone, ordered>>
          /\ \A r \in Subs : r # s => sub'[r] = sub[r]
          /\ sub[s].status = "none"
      BY <1>1 DEF CreateCheckout, webhookVars, OInv, IInv, TypeOK
    <2>2. \A e \in sent : e.sub \in Subs /\ e.sub # s
      BY <1>0, <2>1 DEF OInv, SentInOrder, Events
    <2>3. SentInOrder'
      BY <2>1, <2>2 DEF OInv, SentInOrder
    <2>4. InOrder'
      BY <2>1 DEF OInv, InOrder, Told, OneSubscription
    <2> QED BY <2>3, <2>4
  <1>2. ASSUME NEW s \in Subs, Stripe(s)
        PROVE  SentInOrder' /\ InOrder'
    BY <1>2, StripeInOrder
  <1>3. ASSUME UNCHANGED <<sent, sub>>
        PROVE  SentInOrder'
    BY <1>3 DEF OInv, SentInOrder
  <1>4. ASSUME NEW w \in Webhooks, NEW e \in Delivered, Ignore(w, e)
        PROVE  SentInOrder' /\ InOrder'
    <2> SUFFICES ASSUME alone', ordered', OneSubscription' PROVE InOrder'
      BY <1>3, <1>4 DEF Ignore, InOrder
    <2>1. /\ alone /\ ordered /\ OneSubscription
          /\ e \in unacked /\ \A f \in unacked : e.seq <= f.seq
          /\ \A v \in Webhooks : event[v] = Idle
          /\ UNCHANGED <<org, sent, event>> /\ unacked' = unacked \ {e}
      BY <1>4 DEF Ignore, Noted, OneSubscription
    <2>2. ~Parses(e)
      BY <1>4, <2>1, NextIsNotStale DEF Ignore
    <2>3. \A f : Told(f)' <=> Told(f)
      BY <2>1, <2>2 DEF Told
    <2>4. \A d \in sent' \ unacked', f \in unacked' : d.seq < f.seq
      <3>1. \A f \in unacked' : e.seq < f.seq
        BY <1>0, <2>1 DEF OInv, SentInOrder
      <3> QED BY <2>1, <3>1 DEF OInv, InOrder
    <2> QED BY <2>1, <2>3, <2>4 DEF OInv, InOrder
  <1>5. ASSUME NEW w \in Webhooks, NEW e \in Delivered, Apply(w, e)
        PROVE  SentInOrder' /\ InOrder'
    <2> SUFFICES ASSUME alone', ordered', OneSubscription' PROVE InOrder'
      BY <1>3, <1>5 DEF Apply, InOrder
    <2>1. /\ alone /\ ordered /\ OneSubscription
          /\ e \in unacked /\ \A f \in unacked : e.seq <= f.seq
          /\ UNCHANGED <<org, sent, unacked>>
          /\ \A v \in Webhooks : event'[v] \in {Idle, e}
      BY <1>5 DEF Apply, Noted, OneSubscription, OInv, IInv, TypeOK
    <2> QED BY <2>1 DEF OInv, InOrder, Told
  <1>6. ASSUME NEW w \in Webhooks, Commit(w)
        PROVE  SentInOrder' /\ InOrder'
    <2> SUFFICES ASSUME alone', ordered', OneSubscription' PROVE InOrder'
      BY <1>3, <1>6 DEF Commit, InOrder
    <2>0. PICK e \in sent : e = event[w]
      BY <1>0, <1>6 DEF Commit
    <2>1. /\ alone /\ ordered /\ OneSubscription
          /\ sent' = sent /\ unacked' = unacked \ {e}
          /\ \A v \in Webhooks : event'[v] = Idle
      BY <1>6, <2>0 DEF Commit, OneSubscription, OInv, Serial, IInv, TypeOK
    <2>2. /\ e \in unacked /\ \A f \in unacked : e.seq <= f.seq
          /\ Parses(e) /\ loaded[w] = org
      BY <1>6, <2>0, <2>1 DEF Commit, OInv, Serial, InOrder, IInv, GuardHeld
    <2>3. org' = RowOf(e)
      BY <1>0, <1>6, <2>0, <2>2, RowOfType, ChangedFromSame DEF Commit, OInv, IInv, TypeOK
    <2>4. \A f \in unacked' : e.seq < f.seq
      BY <1>0, <2>1, <2>2 DEF OInv, SentInOrder
    <2>5. \A d \in sent \ unacked : d.seq < e.seq
      BY <2>1, <2>2 DEF OInv, InOrder
    <2>6. Told(e)' /\ \A d : Told(d)' => d = e \/ d \in sent \ unacked
      BY <1>0, <2>1, <2>2 DEF Told
    <2>7. \A d \in sent' \ unacked', f \in unacked' : d.seq < f.seq
      BY <2>1, <2>4 DEF OInv, InOrder
    <2>8. ASSUME NEW d \in sent', Told(d)', \A f \in sent' : Told(f)' => f.seq <= d.seq
          PROVE  d = e
      BY <1>0, <2>1, <2>2, <2>5, <2>6, <2>8
    <2> QED BY <1>0, <2>1, <2>2, <2>3, <2>6, <2>7, <2>8 DEF InOrder
  <1>7. ASSUME NEW w \in Webhooks, Fail(w)
        PROVE  SentInOrder' /\ InOrder'
    <2>1. /\ UNCHANGED <<org, sent, sub, unacked, alone, ordered>>
          /\ \A v \in Webhooks : event'[v] \in {Idle, event[v]}
      BY <1>7 DEF Fail, OInv, IInv, TypeOK
    <2> QED BY <1>3, <2>1 DEF OInv, InOrder, Told, OneSubscription
  <1>8. CASE UNCHANGED vars
    BY <1>3, <1>8 DEF vars, OInv, InOrder, Told, OneSubscription
  <1> QED
    BY <1>1, <1>2, <1>4, <1>5, <1>6, <1>7, <1>8 DEF Next, Receive

(* As long as webhooks have not overlapped and events have come once each    *)
(* and in order, all of one subscription, the row is that of the last event  *)
(* told: no event is wrongly taken for stale, with or without its period.    *)
THEOREM RowFollows == Spec => []FollowsStripe
  <1>1. OInv => FollowsStripe
    BY DEF OInv, InOrder, FollowsStripe, OneSubscription
  <1>2. OInv /\ [Next]_vars => OInv'
    BY NextIInv, NextSerial, NextInOrder DEF OInv
  <1> QED
    BY <1>1, <1>2, InitOInv, PTL DEF Spec
=============================================================================
