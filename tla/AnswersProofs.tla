---------------------------- MODULE AnswersProofs ----------------------------
(***************************************************************************)
(* Retrieval, the metrics of a ranking, and the visibility of a page in the *)
(* answers, for any chunks, scores, grades and answers.                      *)
(***************************************************************************)
EXTENDS Answers, FiniteSetTheorems, WellFoundedInduction, TLAPS

-----------------------------------------------------------------------------
\* Numbers

\* What a sequence is.
LEMMA SeqFacts ==
    ASSUME NEW S, NEW s \in Seq(S)
    PROVE  DOMAIN s = 1..Len(s) /\ Len(s) \in Nat /\ \A k \in DOMAIN s : s[k] \in S
OBVIOUS

\* The positions of a sequence are finitely many.
LEMMA Positions ==
    ASSUME NEW n \in Nat
    PROVE  IsFiniteSet(1..n) /\ Cardinality(1..n) = n
<1>1. IsFiniteSet(1..n) /\ Cardinality(1..n) = IF 1 > n THEN 0 ELSE n - 1 + 1
  BY FS_Interval, 1 \in Int, n \in Int
<1> QED BY <1>1

\* A set of numbers has a least one.
LEMMA Least ==
    ASSUME NEW S, S \subseteq Nat, S # {}
    PROVE  \E m \in S : \A n \in S : m <= n
<1> DEFINE R == OpToRel(<, Nat)
<1>1. IsWellFoundedOn(R, Nat)
  BY NatLessThanWellFounded
<1>2. PICK m \in S : \A n \in S : ~ (<<n, m>> \in R)
  BY <1>1, WFMin
<1>3. \A n \in S : ~(n < m)
  BY <1>2 DEF OpToRel
<1> QED BY <1>3

\* Min is the least of a set of numbers.
LEMMA MinIs ==
    ASSUME NEW S, S \subseteq Nat, S # {}
    PROVE  Min(S) \in S /\ \A n \in S : Min(S) <= n
<1>1. PICK m \in S : \A n \in S : m <= n
  BY Least
<1> QED BY <1>1 DEF Min

\* Max is the greatest of a bounded set of numbers.
LEMMA MaxIs ==
    ASSUME NEW S, NEW N \in Nat, S \subseteq 0..N, S # {}
    PROVE  Max(S) \in S /\ \A n \in S : Max(S) >= n
<1> DEFINE T == {k \in Nat : N - k \in S}
<1>1. T \subseteq Nat /\ T # {}
  <2>1. PICK n \in S : TRUE
    OBVIOUS
  <2>2. N - n \in Nat /\ N - (N - n) = n
    BY <2>1
  <2> QED BY <2>1, <2>2
<1>2. PICK m \in T : \A k \in T : m <= k
  BY <1>1, Least
<1>3. N - m \in S
  BY <1>2
<1>4. ASSUME NEW n \in S PROVE N - m >= n
  <2>1. N - n \in Nat /\ N - (N - n) = n
    OBVIOUS
  <2>2. m <= N - n
    BY <1>2, <2>1
  <2> QED BY <1>1, <1>2, <2>1, <2>2
<1> QED BY <1>3, <1>4 DEF Max

\* Induction up to a number, for a set
LEMMA Climb ==
    ASSUME NEW N \in Nat, NEW S, 0 \in S, \A n \in 0..(N - 1) : n \in S => n + 1 \in S
    PROVE  0..N \subseteq S
<1> SUFFICES ASSUME NEW k \in 0..N, k \notin S PROVE FALSE
  OBVIOUS
<1> DEFINE T == {n \in 0..N : n \notin S}
<1>1. T \subseteq Nat /\ T # {}
  OBVIOUS
<1>2. PICK m \in T : \A n \in T : m <= n
  BY <1>1, Least
<1>3. m # 0 /\ m \in 1..N /\ m - 1 \in 0..(N - 1) /\ m - 1 \in 0..N
  BY <1>2
<1>4. m - 1 \in S
  BY <1>2, <1>3
<1>5. (m - 1) + 1 \in S /\ (m - 1) + 1 = m
  BY <1>3, <1>4
<1> QED BY <1>2, <1>5

Recursive(f, N, V, base, step) ==
    f \in [0..N -> V] /\ f[0] = base /\ \A n \in 1..N : f[n] = step[n][f[n - 1]]

\* A function on 0..N may be defined by recursion over a set.
LEMMA RecursionExists ==
    ASSUME NEW N \in Nat, NEW V, NEW base \in V, NEW step \in [1..N -> [V -> V]]
    PROVE  \E f : Recursive(f, N, V, base, step)
<1> DEFINE S == {m \in 0..N : \E f \in [0..m -> V] :
                    f[0] = base /\ \A n \in 1..m : f[n] = step[n][f[n - 1]]}
<1>1. 0 \in S
  <2> DEFINE f == [n \in 0..0 |-> base]
  <2>1. f \in [0..0 -> V] /\ f[0] = base /\ \A n \in 1..0 : f[n] = step[n][f[n - 1]]
    OBVIOUS
  <2>2. 0 \in 0..N
    OBVIOUS
  <2> HIDE DEF f
  <2> QED BY <2>1, <2>2
<1>2. ASSUME NEW m \in 0..(N - 1), m \in S
      PROVE  m + 1 \in S
  <2>1. PICK f \in [0..m -> V] : f[0] = base /\ \A n \in 1..m : f[n] = step[n][f[n - 1]]
    BY <1>2
  <2> DEFINE g == [n \in 0..(m + 1) |-> IF n = m + 1 THEN step[m + 1][f[m]] ELSE f[n]]
  <2>2. m + 1 \in 1..N /\ m \in 0..m /\ m + 1 \in 0..N /\ m + 1 \in 0..(m + 1)
    OBVIOUS
  <2>3. step[m + 1][f[m]] \in V
    BY <2>1, <2>2
  <2>4. \A n \in 0..(m + 1) : n = m + 1 \/ n \in 0..m
    OBVIOUS
  <2>5. g \in [0..(m + 1) -> V]
    BY <2>1, <2>3, <2>4
  <2>6. 0 \in 0..(m + 1) /\ g[0] = base
    BY <2>1
  <2>7. ASSUME NEW n \in 1..(m + 1) PROVE g[n] = step[n][g[n - 1]]
    <3>1. CASE n = m + 1
      <4>1. n - 1 = m /\ m \in 0..(m + 1) /\ m # m + 1
        BY <3>1
      <4>2. g[n - 1] = f[m] /\ g[n] = step[m + 1][f[m]]
        BY <2>2, <3>1, <4>1
      <4> QED BY <3>1, <4>2
    <3>2. CASE n # m + 1
      <4>1. n \in 1..m /\ n - 1 \in 0..m /\ n \in 0..(m + 1) /\ n - 1 \in 0..(m + 1)
            /\ n - 1 # m + 1
        BY <3>2
      <4>2. g[n] = f[n] /\ g[n - 1] = f[n - 1]
        BY <3>2, <4>1
      <4> QED BY <2>1, <4>1, <4>2
    <3> QED BY <3>1, <3>2
  <2> HIDE DEF g
  <2> QED BY <2>2, <2>5, <2>6, <2>7
<1> HIDE DEF S
<1>3. 0..N \subseteq S
  BY <1>1, <1>2, Climb
<1>4. N \in S
  BY <1>3
<1> QED BY <1>4 DEF S, Recursive

-----------------------------------------------------------------------------
\* Sums

\* SumTo adds one number after another.
LEMMA SumFacts ==
    ASSUME NEW N \in Nat, NEW s, \A i \in 1..N : s[i] \in Int
    PROVE  /\ SumTo(s, 0) = 0
           /\ \A n \in 0..N : SumTo(s, n) \in Int
           /\ \A n \in 1..N : SumTo(s, n) = SumTo(s, n - 1) + s[n]
<1> DEFINE step == [n \in 1..N |-> [v \in Int |-> v + s[n]]]
           Fixed(g, n) == g = [i \in 0..n |-> IF i = 0 THEN 0 ELSE g[i - 1] + s[i]]
<1>1. step \in [1..N -> [Int -> Int]] /\ 0 \in Int
  OBVIOUS
<1>2. PICK f : Recursive(f, N, Int, 0, step)
  <2> HIDE DEF step
  <2> QED BY <1>1, RecursionExists
<1>3. f \in [0..N -> Int] /\ f[0] = 0 /\ \A n \in 1..N : f[n] = f[n - 1] + s[n]
  <2>1. ASSUME NEW n \in 1..N PROVE f[n] = f[n - 1] + s[n]
    <3>1. n - 1 \in 0..N
      OBVIOUS
    <3>2. f \in [0..N -> Int] /\ f[n] = step[n][f[n - 1]]
      <4> HIDE DEF step
      <4> QED BY <1>2 DEF Recursive
    <3>3. f[n - 1] \in Int
      BY <3>1, <3>2
    <3> QED BY <3>2, <3>3
  <2> QED BY <1>2, <2>1 DEF Recursive
<1>4. ASSUME NEW n \in 0..N
      PROVE  SumTo(s, n) = f[n]
  <2> DEFINE h == [i \in 0..n |-> f[i]]
             g == CHOOSE g : Fixed(g, n)
  <2>1. Fixed(h, n)
    <3>1. ASSUME NEW i \in 0..n PROVE h[i] = IF i = 0 THEN 0 ELSE h[i - 1] + s[i]
      <4>1. i = 0 \/ (i \in 1..N /\ i - 1 \in 0..n)
        OBVIOUS
      <4> QED BY <1>3, <4>1
    <3>2. h = [i \in 0..n |-> h[i]]
      OBVIOUS
    <3> HIDE DEF h
    <3> QED BY <3>1, <3>2
  <2>2. Fixed(g, n)
    <3> HIDE DEF h
    <3> QED BY <2>1
  <2>3. SumTo(s, n) = g[n]
    BY DEF SumTo
  <2> HIDE DEF g, h
  <2>4. g[0] = 0 /\ \A i \in 1..n : g[i] = g[i - 1] + s[i]
    <3>1. \A i \in 0..n : g[i] = IF i = 0 THEN 0 ELSE g[i - 1] + s[i]
      BY <2>2
    <3>2. 0 \in 0..n /\ \A i \in 1..n : i \in 0..n /\ i # 0
      OBVIOUS
    <3> QED BY <3>1, <3>2
  <2> DEFINE S == {i \in 0..n : g[i] = f[i]}
  <2>5. 0 \in S
    BY <1>3, <2>4
  <2>6. ASSUME NEW i \in 0..(n - 1), i \in S PROVE i + 1 \in S
    <3>1. i + 1 \in 1..n /\ (i + 1) - 1 = i /\ i + 1 \in 1..N /\ i + 1 \in 0..n
      OBVIOUS
    <3>2. g[i + 1] = g[i] + s[i + 1] /\ f[i + 1] = f[i] + s[i + 1]
      BY <1>3, <2>4, <3>1
    <3> QED BY <2>6, <3>1, <3>2
  <2> HIDE DEF S
  <2>7. 0..n \subseteq S
    BY <2>5, <2>6, Climb
  <2>8. n \in S
    BY <2>7
  <2> QED BY <2>3, <2>8 DEF S
<1>5. ASSUME NEW n \in 1..N
      PROVE  SumTo(s, n) = SumTo(s, n - 1) + s[n]
  <2>1. n \in 0..N /\ n - 1 \in 0..N
    OBVIOUS
  <2> QED BY <1>3, <1>4, <2>1
<1>6. 0 \in 0..N
  OBVIOUS
<1> QED BY <1>3, <1>4, <1>5, <1>6

\* Sums that go along with each other step by step do so to the end.
LEMMA SumLeq ==
    ASSUME NEW N \in Nat, NEW s, NEW t,
           \A i \in 1..N : s[i] \in Int /\ t[i] \in Int /\ s[i] <= t[i]
    PROVE  SumTo(s, N) <= SumTo(t, N)
<1> DEFINE S == {n \in 0..N : SumTo(s, n) <= SumTo(t, n)}
<1>1. /\ SumTo(s, 0) = 0 /\ SumTo(t, 0) = 0
      /\ \A n \in 0..N : SumTo(s, n) \in Int /\ SumTo(t, n) \in Int
      /\ \A n \in 1..N : SumTo(s, n) = SumTo(s, n - 1) + s[n]
      /\ \A n \in 1..N : SumTo(t, n) = SumTo(t, n - 1) + t[n]
  BY SumFacts
<1>2. 0 \in S
  BY <1>1
<1>3. ASSUME NEW n \in 0..(N - 1), n \in S PROVE n + 1 \in S
  <2>1. n + 1 \in 1..N /\ (n + 1) - 1 = n /\ n + 1 \in 0..N /\ n \in 0..N
    OBVIOUS
  <2>2. SumTo(s, n + 1) = SumTo(s, n) + s[n + 1] /\ SumTo(t, n + 1) = SumTo(t, n) + t[n + 1]
    BY <1>1, <2>1
  <2> QED BY <1>1, <1>3, <2>1, <2>2
<1> HIDE DEF S
<1>4. 0..N \subseteq S
  BY <1>2, <1>3, Climb
<1>5. N \in S
  BY <1>4
<1> QED BY <1>5 DEF S

\* A sum depends on its terms.
LEMMA SumSame ==
    ASSUME NEW N \in Nat, NEW s, NEW t,
           \A i \in 1..N : s[i] \in Int /\ s[i] = t[i]
    PROVE  SumTo(s, N) = SumTo(t, N)
<1>1. SumTo(s, N) <= SumTo(t, N) /\ SumTo(t, N) <= SumTo(s, N)
  BY SumLeq
<1>2. SumTo(s, N) \in Int /\ SumTo(t, N) \in Int
  BY SumFacts
<1> QED BY <1>1, <1>2

\* The sum of sums
LEMMA SumAdds ==
    ASSUME NEW N \in Nat, NEW s, NEW t, NEW u,
           \A i \in 1..N : s[i] \in Int /\ t[i] \in Int /\ u[i] = s[i] + t[i]
    PROVE  SumTo(u, N) = SumTo(s, N) + SumTo(t, N)
<1> DEFINE S == {n \in 0..N : SumTo(u, n) = SumTo(s, n) + SumTo(t, n)}
<1>1. /\ SumTo(s, 0) = 0 /\ SumTo(t, 0) = 0
      /\ \A n \in 0..N : SumTo(s, n) \in Int /\ SumTo(t, n) \in Int
      /\ \A n \in 1..N : SumTo(s, n) = SumTo(s, n - 1) + s[n]
      /\ \A n \in 1..N : SumTo(t, n) = SumTo(t, n - 1) + t[n]
  BY SumFacts
<1>2. /\ SumTo(u, 0) = 0
      /\ \A n \in 0..N : SumTo(u, n) \in Int
      /\ \A n \in 1..N : SumTo(u, n) = SumTo(u, n - 1) + u[n]
  <2>1. \A i \in 1..N : u[i] \in Int
    OBVIOUS
  <2> QED BY <2>1, SumFacts
<1>3. 0 \in S
  BY <1>1, <1>2
<1>4. ASSUME NEW n \in 0..(N - 1), n \in S PROVE n + 1 \in S
  <2>1. n + 1 \in 1..N /\ (n + 1) - 1 = n /\ n + 1 \in 0..N /\ n \in 0..N
    OBVIOUS
  <2>2. /\ SumTo(s, n + 1) = SumTo(s, n) + s[n + 1]
        /\ SumTo(t, n + 1) = SumTo(t, n) + t[n + 1]
        /\ SumTo(u, n + 1) = SumTo(u, n) + u[n + 1]
        /\ u[n + 1] = s[n + 1] + t[n + 1]
    BY <1>1, <1>2, <2>1
  <2> QED BY <1>1, <1>4, <2>1, <2>2
<1> HIDE DEF S
<1>5. 0..N \subseteq S
  BY <1>3, <1>4, Climb
<1>6. N \in S
  BY <1>5
<1> QED BY <1>6 DEF S

\* A sum of natural numbers is one, no less than any of them.
LEMMA SumNat ==
    ASSUME NEW N \in Nat, NEW s, \A i \in 1..N : s[i] \in Nat
    PROVE  /\ \A n \in 0..N : SumTo(s, n) \in Nat
           /\ \A m, n \in 0..N : m <= n => SumTo(s, m) <= SumTo(s, n)
           /\ \A i \in 1..N : s[i] <= SumTo(s, N)
           /\ (\A i \in 1..N : s[i] = 0) => SumTo(s, N) = 0
<1>1. /\ SumTo(s, 0) = 0
      /\ \A n \in 0..N : SumTo(s, n) \in Int
      /\ \A n \in 1..N : SumTo(s, n) = SumTo(s, n - 1) + s[n]
  BY SumFacts
<1> DEFINE S == {n \in 0..N : /\ SumTo(s, n) \in Nat
                              /\ \A m \in 0..n : SumTo(s, m) <= SumTo(s, n)
                              /\ \A i \in 1..n : s[i] <= SumTo(s, n)
                              /\ (\A i \in 1..N : s[i] = 0) => SumTo(s, n) = 0}
<1>2. 0 \in S
  BY <1>1
<1>3. ASSUME NEW n \in 0..(N - 1), n \in S PROVE n + 1 \in S
  <2>1. n + 1 \in 1..N /\ (n + 1) - 1 = n /\ n + 1 \in 0..N
    OBVIOUS
  <2>2. SumTo(s, n + 1) = SumTo(s, n) + s[n + 1] /\ SumTo(s, n) \in Nat /\ s[n + 1] \in Nat
    BY <1>1, <1>3, <2>1
  <2>3. ASSUME NEW m \in 0..(n + 1) PROVE SumTo(s, m) <= SumTo(s, n + 1)
    <3>1. m = n + 1 \/ m \in 0..n
      OBVIOUS
    <3>2. SumTo(s, m) \in Int
      BY <1>1
    <3> QED BY <1>3, <2>2, <3>1, <3>2
  <2>4. ASSUME NEW i \in 1..(n + 1) PROVE s[i] <= SumTo(s, n + 1)
    <3>1. i = n + 1 \/ i \in 1..n
      OBVIOUS
    <3>2. s[i] \in Nat
      OBVIOUS
    <3> QED BY <1>3, <2>2, <3>1, <3>2
  <2>5. ASSUME \A i \in 1..N : s[i] = 0 PROVE SumTo(s, n + 1) = 0
    BY <1>3, <2>1, <2>2, <2>5
  <2> QED BY <2>1, <2>2, <2>3, <2>4, <2>5
<1> HIDE DEF S
<1>4. 0..N \subseteq S
  BY <1>2, <1>3, Climb
<1>5. N \in S
  BY <1>4
<1> QED BY <1>4, <1>5 DEF S

-----------------------------------------------------------------------------
\* Products

Positive == Nat \ {0}

\* A product of positive numbers is positive.
LEMMA PositiveTimes ==
    ASSUME NEW a \in Positive, NEW b \in Positive
    PROVE  a * b \in Positive
<1>1. a \in Nat /\ b \in Nat /\ a >= 1 /\ b >= 1
  BY DEF Positive
<1>2. a * b \in Nat /\ a * b >= 1
  BY <1>1
<1> QED BY <1>2 DEF Positive

\* Others multiplies one factor after another.
LEMMA OthersFacts ==
    ASSUME NEW N \in Nat, NEW k \in Nat, NEW skip \in Nat
    PROVE  /\ Others(k, 0, skip) = 1
           /\ \A n \in 0..N : Others(k, n, skip) \in Positive
           /\ \A n \in 1..N : Others(k, n, skip)
                                = Others(k, n - 1, skip) * IF n = skip THEN 1 ELSE k + n
<1> DEFINE d(n) == IF n = skip THEN 1 ELSE k + n
           step == [n \in 1..N |-> [v \in Positive |-> v * d(n)]]
           Fixed(g, n) == g = [i \in 0..n |->
                                  IF i = 0 THEN 1 ELSE g[i - 1] * IF i = skip THEN 1 ELSE k + i]
<1>0. \A n \in 1..N : d(n) \in Positive
  BY DEF Positive
<1>1. step \in [1..N -> [Positive -> Positive]] /\ 1 \in Positive
  <2>1. 1 \in Positive
    BY DEF Positive
  <2>2. \A n \in 1..N, v \in Positive : v * d(n) \in Positive
    <3> HIDE DEF d
    <3> QED BY <1>0, PositiveTimes
  <2> HIDE DEF d
  <2> QED BY <2>1, <2>2
<1>2. PICK f : Recursive(f, N, Positive, 1, step)
  <2> HIDE DEF step
  <2> QED BY <1>1, RecursionExists
<1>3. f \in [0..N -> Positive] /\ f[0] = 1 /\ \A n \in 1..N : f[n] = f[n - 1] * d(n)
  <2>1. ASSUME NEW n \in 1..N PROVE f[n] = f[n - 1] * d(n)
    <3>1. n - 1 \in 0..N
      OBVIOUS
    <3>2. f \in [0..N -> Positive] /\ f[n] = step[n][f[n - 1]]
      <4> HIDE DEF step
      <4> QED BY <1>2 DEF Recursive
    <3>3. f[n - 1] \in Positive
      BY <3>1, <3>2
    <3> HIDE DEF d
    <3> QED BY <3>2, <3>3
  <2> HIDE DEF step, d
  <2> QED BY <1>2, <2>1 DEF Recursive
<1>4. ASSUME NEW n \in 0..N
      PROVE  Others(k, n, skip) = f[n]
  <2> DEFINE h == [i \in 0..n |-> f[i]]
             g == CHOOSE g : Fixed(g, n)
  <2>1. Fixed(h, n)
    <3>1. ASSUME NEW i \in 0..n PROVE h[i] = IF i = 0 THEN 1 ELSE h[i - 1] * d(i)
      <4>1. i = 0 \/ (i \in 1..N /\ i - 1 \in 0..n /\ i # 0)
        OBVIOUS
      <4> HIDE DEF d
      <4> QED BY <1>3, <4>1
    <3>2. h = [i \in 0..n |-> h[i]]
      OBVIOUS
    <3> HIDE DEF h
    <3> QED BY <3>1, <3>2
  <2>2. Fixed(g, n)
    <3> HIDE DEF h
    <3> QED BY <2>1
  <2>3. Others(k, n, skip) = g[n]
    BY DEF Others
  <2> HIDE DEF g, h
  <2>4. g[0] = 1 /\ \A i \in 1..n : g[i] = g[i - 1] * d(i)
    <3>1. \A i \in 0..n : g[i] = IF i = 0 THEN 1 ELSE g[i - 1] * d(i)
      BY <2>2
    <3>2. 0 \in 0..n /\ \A i \in 1..n : i \in 0..n /\ i # 0
      OBVIOUS
    <3> HIDE DEF d
    <3> QED BY <3>1, <3>2
  <2> HIDE DEF Fixed, d
  <2> DEFINE S == {i \in 0..n : g[i] = f[i]}
  <2>5. 0 \in S
    BY <1>3, <2>4
  <2>6. ASSUME NEW i \in 0..(n - 1), i \in S PROVE i + 1 \in S
    <3>1. i + 1 \in 1..n /\ (i + 1) - 1 = i /\ i + 1 \in 1..N /\ i + 1 \in 0..n
      OBVIOUS
    <3>2. g[i + 1] = g[i] * d(i + 1) /\ f[i + 1] = f[i] * d(i + 1)
      BY <1>3, <2>4, <3>1
    <3> QED BY <2>6, <3>1, <3>2
  <2> HIDE DEF S
  <2>7. 0..n \subseteq S
    BY <2>5, <2>6, Climb
  <2>8. n \in S
    BY <2>7
  <2> QED BY <2>3, <2>8 DEF S
<1>5. ASSUME NEW n \in 1..N
      PROVE  Others(k, n, skip) = Others(k, n - 1, skip) * d(n)
  <2>1. n \in 0..N /\ n - 1 \in 0..N
    OBVIOUS
  <2> HIDE DEF d
  <2> QED BY <1>3, <1>4, <2>1
<1>6. 0 \in 0..N /\ \A n \in 0..N : f[n] \in Positive
  BY <1>3
<1> QED BY <1>3, <1>4, <1>5, <1>6

\* The share of a rank times its denominator is the product of all of them.
LEMMA ShareTimes ==
    ASSUME NEW N \in Nat, NEW k \in Nat, NEW r \in 1..N
    PROVE  Others(k, N, r) * (k + r) = Others(k, N, 0)
<1> DEFINE a(n) == Others(k, n, r)
           p(n) == Others(k, n, 0)
           S == {n \in 0..N : IF n < r THEN a(n) = p(n) ELSE a(n) * (k + r) = p(n)}
<1>1. r \in Nat /\ 0 \in Nat
  OBVIOUS
<1>2. /\ a(0) = 1 /\ p(0) = 1
      /\ \A n \in 0..N : a(n) \in Positive /\ p(n) \in Positive
      /\ \A n \in 1..N : a(n) = a(n - 1) * IF n = r THEN 1 ELSE k + n
      /\ \A n \in 1..N : p(n) = p(n - 1) * IF n = 0 THEN 1 ELSE k + n
  BY <1>1, OthersFacts
<1> HIDE DEF a, p
<1>3. 0 \in S
  BY <1>2
<1>4. ASSUME NEW n \in 0..(N - 1), n \in S PROVE n + 1 \in S
  <2>1. n + 1 \in 1..N /\ (n + 1) - 1 = n /\ n + 1 \in 0..N /\ n + 1 # 0 /\ n \in 0..N
    OBVIOUS
  <2>2. a(n + 1) = a(n) * (IF n + 1 = r THEN 1 ELSE k + (n + 1)) /\ p(n + 1) = p(n) * (k + (n + 1))
    BY <1>2, <2>1
  <2>3. a(n) \in Nat /\ p(n) \in Nat
    BY <1>2, <2>1 DEF Positive
  <2>4. CASE n + 1 < r
    <3>1. a(n) = p(n) /\ n + 1 # r
      BY <1>4, <2>4
    <3> QED BY <2>1, <2>2, <2>4, <3>1
  <2>5. CASE n + 1 = r
    <3>1. a(n) = p(n)
      BY <1>4, <2>5
    <3>2. a(n + 1) = a(n) /\ p(n + 1) = p(n) * (k + r)
      BY <2>2, <2>3, <2>5
    <3> QED BY <2>1, <2>5, <3>1, <3>2
  <2>6. CASE n + 1 > r
    <3>1. a(n) * (k + r) = p(n) /\ n + 1 # r
      BY <1>4, <2>6
    <3>2. a(n + 1) = a(n) * (k + (n + 1))
      BY <2>2, <3>1
    <3>3. \A x, y, z \in Nat : (x * z) * y = (x * y) * z
      OBVIOUS
    <3>4. (a(n) * (k + (n + 1))) * (k + r) = (a(n) * (k + r)) * (k + (n + 1))
      BY <2>3, <3>3, <1>1, <2>1
    <3>5. a(n + 1) * (k + r) = p(n + 1)
      BY <2>2, <3>1, <3>2, <3>4
    <3> QED BY <2>1, <2>6, <3>5
  <2> QED BY <2>1, <2>4, <2>5, <2>6
<1> HIDE DEF S
<1>5. 0..N \subseteq S
  BY <1>3, <1>4, Climb
<1>6. N \in S
  BY <1>5
<1> QED BY <1>6 DEF S, a, p

\* A better rank has the larger share.
LEMMA ShareFalls ==
    ASSUME NEW N \in Nat, NEW k \in Nat, NEW q \in 1..N, NEW r \in 1..N, q < r
    PROVE  Others(k, N, q) > Others(k, N, r)
<1>1. Others(k, N, q) * (k + q) = Others(k, N, r) * (k + r)
  BY ShareTimes
<1>2. N \in 0..N /\ q \in Nat /\ r \in Nat
  OBVIOUS
<1>3. Others(k, N, q) \in Positive /\ Others(k, N, r) \in Positive
  BY <1>2, OthersFacts
<1>4. \A a, b \in Nat, x, y \in Nat : x < y /\ b > 0 /\ a <= b => a * x < b * y
  <2> TAKE a, b \in Nat, x, y \in Nat
  <2> HAVE x < y /\ b > 0 /\ a <= b
  <2>1. a * x <= b * x
    OBVIOUS
  <2>2. b * x < b * y
    OBVIOUS
  <2>3. a * x \in Int /\ b * x \in Int /\ b * y \in Int
    OBVIOUS
  <2> QED BY <2>1, <2>2, <2>3
<1>5. k + q \in Nat /\ k + r \in Nat /\ k + q < k + r
  BY <1>2
<1>6. Others(k, N, q) \in Nat /\ Others(k, N, r) \in Nat /\ Others(k, N, r) > 0
  BY <1>3 DEF Positive
<1>7. ~(Others(k, N, q) <= Others(k, N, r))
  <2> SUFFICES ASSUME Others(k, N, q) <= Others(k, N, r) PROVE FALSE
    OBVIOUS
  <2>1. Others(k, N, q) * (k + q) < Others(k, N, r) * (k + r)
    BY <1>4, <1>5, <1>6
  <2>2. Others(k, N, r) * (k + r) \in Int
    BY <1>5, <1>6
  <2> QED BY <1>1, <2>1, <2>2
<1> QED BY <1>6, <1>7

-----------------------------------------------------------------------------
\* Gain

\* Gain is what its equations say.
LEMMA GainFacts ==
    /\ Gain[0] = 0
    /\ \A g \in Nat : Gain[g] \in Nat
    /\ \A g \in Nat \ {0} : Gain[g] = 2 * Gain[g - 1] + 1
<1> DEFINE step(N) == [n \in 1..N |-> [v \in Nat |-> 2 * v + 1]]
           Is(h, N) == /\ h \in [0..N -> Nat] /\ h[0] = 0
                       /\ \A n \in 1..N : h[n] = 2 * h[n - 1] + 1
           H(N) == CHOOSE h : Is(h, N)
           f == [n \in Nat |-> H(n)[n]]
           Fixed(g) == g = [n \in Nat |-> IF n = 0 THEN 0 ELSE 2 * g[n - 1] + 1]
<1>1. ASSUME NEW N \in Nat PROVE Is(H(N), N)
  <2>1. step(N) \in [1..N -> [Nat -> Nat]] /\ 0 \in Nat
    OBVIOUS
  <2>2. PICK h : Recursive(h, N, Nat, 0, step(N))
    <3> HIDE DEF step
    <3> QED BY <2>1, RecursionExists
  <2>3. ASSUME NEW n \in 1..N PROVE h[n] = 2 * h[n - 1] + 1
    <3>1. n - 1 \in 0..N
      OBVIOUS
    <3>2. h \in [0..N -> Nat] /\ h[n] = step(N)[n][h[n - 1]]
      <4> HIDE DEF step
      <4> QED BY <2>2 DEF Recursive
    <3>3. h[n - 1] \in Nat
      BY <3>1, <3>2
    <3> QED BY <3>2, <3>3
  <2>4. Is(h, N)
    <3> HIDE DEF step
    <3> QED BY <2>2, <2>3 DEF Recursive
  <2> HIDE DEF Is
  <2> QED BY <2>4
<1> HIDE DEF H
<1>2. ASSUME NEW n \in Nat \ {0} PROVE H(n)[n - 1] = H(n - 1)[n - 1]
  <2> DEFINE m == n - 1
             S == {i \in 0..m : H(n)[i] = H(m)[i]}
  <2>1. m \in Nat /\ n = m + 1
    OBVIOUS
  <2>2. Is(H(n), n) /\ Is(H(m), m)
    BY <1>1, <2>1
  <2> HIDE DEF m
  <2>3. 0 \in S
    BY <2>1, <2>2
  <2>4. ASSUME NEW i \in 0..(m - 1), i \in S PROVE i + 1 \in S
    <3>1. i + 1 \in 1..m /\ i + 1 \in 1..n /\ (i + 1) - 1 = i /\ i + 1 \in 0..m
      BY <2>1
    <3>2. H(n)[i + 1] = 2 * H(n)[i] + 1 /\ H(m)[i + 1] = 2 * H(m)[i] + 1
      BY <2>2, <3>1
    <3> QED BY <2>4, <3>1, <3>2
  <2> HIDE DEF S
  <2>5. 0..m \subseteq S
    BY <2>1, <2>3, <2>4, Climb
  <2>6. m \in S
    BY <2>1, <2>5
  <2> QED BY <2>6 DEF S, m
<1>3. Fixed(f)
  <2>1. ASSUME NEW n \in Nat PROVE f[n] = IF n = 0 THEN 0 ELSE 2 * f[n - 1] + 1
    <3>1. CASE n = 0
      BY <1>1, <3>1
    <3>2. CASE n # 0
      <4>1. n - 1 \in Nat /\ n \in 1..n
        BY <3>2
      <4>2. H(n)[n] = 2 * H(n)[n - 1] + 1
        BY <1>1, <4>1
      <4>3. f[n] = H(n)[n] /\ f[n - 1] = H(n - 1)[n - 1]
        BY <4>1
      <4> HIDE DEF f, Is
      <4> QED BY <1>2, <3>2, <4>2, <4>3
    <3> QED BY <3>1, <3>2
  <2>2. f = [n \in Nat |-> f[n]]
    OBVIOUS
  <2> HIDE DEF f
  <2> QED BY <2>1, <2>2
<1>4. Fixed(Gain)
  <2>1. \E g : Fixed(g)
    <3> HIDE DEF f
    <3> QED BY <1>3
  <2> QED BY <2>1 DEF Gain
<1>5. Gain[0] = 0 /\ \A g \in Nat \ {0} : Gain[g] = 2 * Gain[g - 1] + 1
  <2>1. \A n \in Nat : Gain[n] = IF n = 0 THEN 0 ELSE 2 * Gain[n - 1] + 1
    BY <1>4
  <2> QED BY <2>1
<1>6. ASSUME NEW g \in Nat PROVE Gain[g] \in Nat
  <2> DEFINE S == {n \in 0..g : Gain[n] \in Nat}
  <2>1. 0 \in S
    BY <1>5
  <2>2. ASSUME NEW n \in 0..(g - 1), n \in S PROVE n + 1 \in S
    <3>1. n + 1 \in Nat \ {0} /\ (n + 1) - 1 = n /\ n + 1 \in 0..g
      OBVIOUS
    <3>2. Gain[n + 1] = 2 * Gain[n] + 1
      BY <1>5, <3>1
    <3> QED BY <2>2, <3>1, <3>2
  <2> HIDE DEF S
  <2>3. 0..g \subseteq S
    BY <2>1, <2>2, Climb
  <2>4. g \in S
    BY <2>3
  <2> QED BY <2>4 DEF S
<1> QED BY <1>5, <1>6

\* A higher grade gains more.
LEMMA GainGrows ==
    ASSUME NEW g \in Nat, NEW h \in Nat, g < h
    PROVE  Gain[g] < Gain[h]
<1> DEFINE S == {n \in 0..h : n <= g \/ Gain[g] < Gain[n]}
<1>1. 0 \in S
  OBVIOUS
<1>2. ASSUME NEW n \in 0..(h - 1), n \in S PROVE n + 1 \in S
  <2>1. n + 1 \in Nat \ {0} /\ (n + 1) - 1 = n /\ n + 1 \in 0..h /\ n \in Nat
    OBVIOUS
  <2>2. Gain[n + 1] = 2 * Gain[n] + 1 /\ Gain[n] \in Nat /\ Gain[g] \in Nat
    BY <2>1, GainFacts
  <2>3. n + 1 <= g \/ n = g \/ Gain[g] < Gain[n]
    BY <1>2
  <2>4. CASE n + 1 <= g
    BY <2>1, <2>4
  <2>5. CASE n = g
    BY <2>1, <2>2, <2>5
  <2>6. CASE Gain[g] < Gain[n]
    <3>1. Gain[g] < Gain[n + 1]
      BY <2>2, <2>6
    <3> QED BY <2>1, <3>1
  <2> QED BY <2>3, <2>4, <2>5, <2>6
<1> HIDE DEF S
<1>3. 0..h \subseteq S
  BY <1>1, <1>2, Climb
<1>4. h \in S
  BY <1>3
<1> QED BY <1>4 DEF S


-----------------------------------------------------------------------------
\* Sorting

Better(b, c, score) == score[b] > score[c] \/ (score[b] = score[c] /\ b < c)
Place(c, S, score) == Cardinality(UpTo(c, S, score))

\* Every chunk has a place of its own, and every place a chunk.
LEMMA Places ==
    ASSUME NEW S, S \subseteq Nat, IsFiniteSet(S), NEW score, \A c \in S : score[c] \in Int
    PROVE  /\ Cardinality(S) \in Nat
           /\ \A c \in S : Place(c, S, score) \in 1..Cardinality(S)
           /\ \A b, c \in S : Better(b, c, score) => Place(b, S, score) < Place(c, S, score)
           /\ \A b, c \in S : b = c \/ Better(b, c, score) \/ Better(c, b, score)
           /\ \A i \in 1..Cardinality(S) : \E c \in S : Place(c, S, score) = i
<1> DEFINE n == Cardinality(S)
           P(c) == Place(c, S, score)
           f == [c \in S |-> P(c)]
<1>1. n \in Nat
  BY FS_CardinalityType
<1>2. ASSUME NEW c \in S
      PROVE  UpTo(c, S, score) \in SUBSET S /\ c \in UpTo(c, S, score) /\ P(c) \in 1..n
  <2>1. UpTo(c, S, score) \in SUBSET S /\ c \in UpTo(c, S, score)
    BY DEF UpTo
  <2>2. IsFiniteSet(UpTo(c, S, score)) /\ P(c) <= n
    BY <2>1, FS_Subset DEF Place
  <2>3. P(c) \in Nat /\ P(c) # 0
    BY <2>1, <2>2, FS_CardinalityType, FS_EmptySet DEF Place
  <2> QED BY <1>1, <2>1, <2>2, <2>3
<1>3. ASSUME NEW b \in S, NEW c \in S, Better(b, c, score)
      PROVE  P(b) < P(c)
  <2>1. UpTo(b, S, score) \in SUBSET UpTo(c, S, score)
    <3>1. ASSUME NEW a \in S, score[a] > score[b] \/ (score[a] = score[b] /\ a <= b)
          PROVE  score[a] > score[c] \/ (score[a] = score[c] /\ a <= c)
      <4>1. /\ a \in Nat /\ b \in Nat /\ c \in Nat
            /\ score[a] \in Int /\ score[b] \in Int /\ score[c] \in Int
        OBVIOUS
      <4> QED BY <1>3, <3>1, <4>1 DEF Better
    <3> QED BY <3>1 DEF UpTo
  <2>2. c \notin UpTo(b, S, score)
    BY <1>3 DEF UpTo, Better
  <2>3. IsFiniteSet(UpTo(c, S, score))
    BY <1>2, FS_Subset
  <2>4. P(b) <= P(c) /\ (P(c) = P(b) => UpTo(c, S, score) = UpTo(b, S, score))
    BY <2>1, <2>3, FS_Subset DEF Place
  <2>5. P(b) # P(c)
    BY <1>2, <2>2, <2>4
  <2>6. P(b) \in Nat /\ P(c) \in Nat
    BY <1>2
  <2> QED BY <2>4, <2>5, <2>6
<1>4. ASSUME NEW b \in S, NEW c \in S
      PROVE  b = c \/ Better(b, c, score) \/ Better(c, b, score)
  <2>1. b \in Nat /\ c \in Nat /\ score[b] \in Int /\ score[c] \in Int
    OBVIOUS
  <2> QED BY <2>1 DEF Better
<1>5. f \in Injection(S, 1..n)
  <2>1. f \in [S -> 1..n]
    BY <1>2
  <2>2. ASSUME NEW b \in S, NEW c \in S, f[b] = f[c] PROVE b = c
    <3>1. P(b) = P(c) /\ P(b) \in Nat
      BY <1>2, <2>2
    <3>2. ~Better(b, c, score) /\ ~Better(c, b, score)
      <4> HIDE DEF P
      <4> QED BY <1>3, <3>1
    <3> QED BY <1>4, <3>2
  <2> HIDE DEF f
  <2> QED BY <2>1, <2>2 DEF Injection, IsInjective
<1>6. f \in Surjection(S, 1..n)
  <2>1. IsFiniteSet(1..n) /\ Cardinality(1..n) = n
    BY <1>1, Positions
  <2> HIDE DEF f
  <2> QED BY <1>5, <2>1, FS_Injection
<1>7. ASSUME NEW i \in 1..n PROVE \E c \in S : P(c) = i
  <2>1. \E c \in S : f[c] = i
    <3> HIDE DEF f
    <3> QED BY <1>6 DEF Surjection
  <2> QED BY <2>1
<1> QED BY <1>1, <1>2, <1>3, <1>4, <1>7

\* What a sort returns: every candidate once, the better before the worse.
Sorted(r, S, score) ==
    /\ r \in Seq(S) /\ Len(r) = Cardinality(S) /\ Cardinality(S) \in Nat
    /\ r \in [1..Cardinality(S) -> S]
    /\ \A c \in S : \E i \in 1..Cardinality(S) : r[i] = c
    /\ \A i, j \in 1..Cardinality(S) : i < j => Better(r[i], r[j], score)
    /\ \A i, j \in 1..Cardinality(S) : r[i] = r[j] => i = j

LEMMA OrderedSorts ==
    ASSUME NEW S, S \subseteq Nat, IsFiniteSet(S), NEW score, \A c \in S : score[c] \in Int
    PROVE  Sorted(Ordered(S, score), S, score)
<1> DEFINE n == Cardinality(S)
           r == Ordered(S, score)
           P(c) == Place(c, S, score)
<1>1. /\ n \in Nat
      /\ \A c \in S : P(c) \in 1..n
      /\ \A b, c \in S : Better(b, c, score) => P(b) < P(c)
      /\ \A b, c \in S : b = c \/ Better(b, c, score) \/ Better(c, b, score)
      /\ \A i \in 1..n : \E c \in S : P(c) = i
  BY Places
<1>2. r = [i \in 1..n |-> CHOOSE c \in S : P(c) = i]
  BY DEF Ordered, Place
<1> HIDE DEF r, P, n
<1>3. ASSUME NEW i \in 1..n PROVE r[i] \in S /\ P(r[i]) = i
  <2>1. \E c \in S : P(c) = i
    BY <1>1
  <2>2. r[i] = CHOOSE c \in S : P(c) = i
    BY <1>2
  <2> QED BY <2>1, <2>2
<1>4. r \in [1..n -> S]
  BY <1>2, <1>3
<1>5. r \in Seq(S) /\ Len(r) = n
  BY <1>1, <1>4
<1>6. ASSUME NEW c \in S PROVE \E i \in 1..n : r[i] = c
  <2>1. P(c) \in 1..n /\ r[P(c)] \in S /\ P(r[P(c)]) = P(c)
    BY <1>1, <1>3
  <2>2. ~(P(r[P(c)]) < P(c)) /\ ~(P(c) < P(r[P(c)]))
    BY <2>1
  <2>3. r[P(c)] = c
    BY <1>1, <2>1, <2>2
  <2> QED BY <2>1, <2>3
<1>7. ASSUME NEW i \in 1..n, NEW j \in 1..n, r[i] = r[j] PROVE i = j
  BY <1>3, <1>7
<1>8. ASSUME NEW i \in 1..n, NEW j \in 1..n, i < j PROVE Better(r[i], r[j], score)
  <2>1. r[i] \in S /\ r[j] \in S /\ P(r[i]) = i /\ P(r[j]) = j
    BY <1>3
  <2>2. ~(P(r[j]) < P(r[i]))
    BY <1>8, <2>1
  <2>3. r[i] # r[j]
    BY <1>7, <1>8
  <2> QED BY <1>1, <2>1, <2>2, <2>3
<1> QED BY <1>1, <1>4, <1>5, <1>6, <1>7, <1>8 DEF Sorted, r, n

\* A ranking without a repeated chunk
Ranking(r) == /\ r \in Seq(Chunks)
              /\ \A i, j \in DOMAIN r : r[i] = r[j] => i = j

\* The rank of a chunk is where it stands.
LEMMA RankIs ==
    ASSUME NEW r, Ranking(r), NEW c
    PROVE  /\ In(c, r) <=> \E i \in 1..Len(r) : r[i] = c
           /\ In(c, r) => Rank(c, r) \in 1..Len(r) /\ r[Rank(c, r)] = c
           /\ \A i \in 1..Len(r) : r[i] = c => In(c, r) /\ Rank(c, r) = i
<1>1. DOMAIN r = 1..Len(r)
  BY SeqFacts DEF Ranking
<1>2. In(c, r) <=> \E i \in 1..Len(r) : r[i] = c
  BY <1>1 DEF In, Range
<1>3. ASSUME In(c, r) PROVE Rank(c, r) \in 1..Len(r) /\ r[Rank(c, r)] = c
  BY <1>1, <1>2, <1>3 DEF Rank
<1>4. ASSUME NEW i \in 1..Len(r), r[i] = c PROVE In(c, r) /\ Rank(c, r) = i
  BY <1>1, <1>2, <1>3, <1>4 DEF Ranking
<1> QED BY <1>2, <1>3, <1>4

\* What is sorted by a better score comes first.
LEMMA BetterBeats ==
    ASSUME NEW S, S \subseteq Chunks, S \subseteq Nat, IsFiniteSet(S),
           NEW score, \A c \in S : score[c] \in Int,
           NEW x \in S, NEW y \in S, score[x] > score[y]
    PROVE  Beats(x, y, Ordered(S, score))
<1> DEFINE r == Ordered(S, score)
           n == Cardinality(S)
<1>1. Sorted(r, S, score)
  BY OrderedSorts
<1> HIDE DEF r
<1>2. Ranking(r) /\ Len(r) = n /\ n \in Nat
  <2>1. r \in [1..n -> Chunks] /\ n \in Nat
    BY <1>1 DEF Sorted
  <2>2. r \in Seq(Chunks)
    BY <2>1
  <2> QED BY <1>1, <2>1, <2>2 DEF Sorted, Ranking
<1>3. PICK i \in 1..n : r[i] = x
  BY <1>1 DEF Sorted
<1>4. PICK j \in 1..n : r[j] = y
  BY <1>1 DEF Sorted
<1>5. In(x, r) /\ Rank(x, r) = i /\ In(y, r) /\ Rank(y, r) = j
  BY <1>2, <1>3, <1>4, RankIs
<1>6. score[x] \in Int /\ score[y] \in Int
  OBVIOUS
<1>7. ~Better(y, x, score) /\ i # j
  BY <1>3, <1>4, <1>6 DEF Better
<1>8. i < j
  BY <1>1, <1>3, <1>4, <1>7 DEF Sorted
<1> QED BY <1>5, <1>8 DEF Beats, r

-----------------------------------------------------------------------------
\* Rankings

\* How many chunks there are, and how many a query asks for
LEMMA Sizes ==
    /\ Chunks \subseteq Nat /\ IsFiniteSet(Chunks) /\ Cardinality(Chunks) \in Nat
    /\ TopK \in Nat /\ TopK >= 1 /\ TopK <= Cardinality(Chunks) /\ RRFK \in Nat
<1>1. Cardinality(Chunks) \in Nat
  BY RetrievalAssumption, FS_CardinalityType
<1> QED BY <1>1, RetrievalAssumption

\* The smaller of two numbers
LEMMA MinOfTwo ==
    ASSUME NEW a \in Nat, NEW b \in Nat
    PROVE  Min({a, b}) = IF a <= b THEN a ELSE b
<1>1. Min({a, b}) \in {a, b} /\ Min({a, b}) <= a /\ Min({a, b}) <= b
  BY MinIs
<1> QED BY <1>1

\* The larger of two numbers
LEMMA MaxOfTwo ==
    ASSUME NEW a \in Nat, NEW b \in Nat
    PROVE  Max({a, b}) = IF a >= b THEN a ELSE b
<1>1. a + b \in Nat /\ {a, b} \subseteq 0..(a + b)
  OBVIOUS
<1>2. Max({a, b}) \in {a, b} /\ Max({a, b}) >= a /\ Max({a, b}) >= b
  BY <1>1, MaxIs
<1> QED BY <1>2

\* The first k of a sequence
LEMMA CutIs ==
    ASSUME NEW S, NEW r \in Seq(S), NEW k \in Nat
    PROVE  /\ Cut(r, k) \in Seq(S)
           /\ Len(Cut(r, k)) = (IF k <= Len(r) THEN k ELSE Len(r)) /\ Len(Cut(r, k)) \in Nat
           /\ \A i \in 1..Len(Cut(r, k)) : i \in 1..Len(r) /\ Cut(r, k)[i] = r[i]
<1> DEFINE n == IF k <= Len(r) THEN k ELSE Len(r)
<1>1. Len(r) \in Nat /\ n \in Nat /\ n <= Len(r)
  OBVIOUS
<1>2. Cut(r, k) = SubSeq(r, 1, n)
  BY <1>1, MinOfTwo DEF Cut
<1> HIDE DEF n
<1>3. SubSeq(r, 1, n) \in Seq(S) /\ Len(SubSeq(r, 1, n)) = n
      /\ \A i \in 1..n : SubSeq(r, 1, n)[i] = r[i]
  BY <1>1
<1>4. \A i \in 1..n : i \in 1..Len(r)
  BY <1>1
<1> QED BY <1>1, <1>2, <1>3, <1>4 DEF n

\* The first k of a ranking are one.
LEMMA CutRanks ==
    ASSUME NEW r, Ranking(r), NEW k \in Nat
    PROVE  Ranking(Cut(r, k))
<1>1. r \in Seq(Chunks) /\ DOMAIN r = 1..Len(r)
  BY SeqFacts DEF Ranking
<1>2. /\ Cut(r, k) \in Seq(Chunks)
      /\ \A i \in 1..Len(Cut(r, k)) : i \in 1..Len(r) /\ Cut(r, k)[i] = r[i]
  BY <1>1, CutIs
<1>3. DOMAIN Cut(r, k) = 1..Len(Cut(r, k))
  BY <1>2, SeqFacts
<1> QED BY <1>1, <1>2, <1>3 DEF Ranking

\* A sort of chunks is a ranking of them.
LEMMA SortedRanks ==
    ASSUME NEW S, S \subseteq Chunks, NEW score, NEW r, Sorted(r, S, score)
    PROVE  Ranking(r) /\ Len(r) = Cardinality(S)
<1>1. r \in [1..Cardinality(S) -> Chunks] /\ Cardinality(S) \in Nat /\ Len(r) = Cardinality(S)
  BY DEF Sorted
<1>2. r \in Seq(Chunks) /\ DOMAIN r = 1..Cardinality(S)
  BY <1>1
<1> QED BY <1>1, <1>2 DEF Sorted, Ranking

\* What a ranking holds are chunks, finitely many.
LEMMA RangeIs ==
    ASSUME NEW r, Ranking(r)
    PROVE  /\ Range(r) \subseteq Chunks /\ IsFiniteSet(Range(r))
           /\ \A c : c \in Range(r) <=> In(c, r)
           /\ Cardinality(Range(r)) = Len(r)
<1>1. DOMAIN r = 1..Len(r) /\ Len(r) \in Nat /\ \A i \in DOMAIN r : r[i] \in Chunks
  BY SeqFacts DEF Ranking
<1>2. Range(r) \subseteq Chunks
  BY <1>1 DEF Range
<1>3. IsFiniteSet(Range(r))
  BY <1>2, Sizes, FS_Subset
<1>4. r \in Bijection(1..Len(r), Range(r))
  <2>1. r \in [1..Len(r) -> Range(r)]
    <3>1. r \in [1..Len(r) -> Chunks]
      BY <1>1 DEF Ranking
    <3> QED BY <1>1, <3>1 DEF Range
  <2> QED BY <1>1, <2>1 DEF Ranking, Range, Bijection, Injection, Surjection, IsInjective
<1>5. Cardinality(Range(r)) = Len(r)
  BY <1>1, <1>4, FS_CountingElements DEF ExistsBijection
<1> QED BY <1>2, <1>3, <1>5 DEF In

\* What one arm returns: a ranking in the order of its scores
Arm(r, score) ==
    /\ Ranking(r) /\ Len(r) \in Nat /\ Len(r) <= Cardinality(Chunks)
    /\ \A i, j \in 1..Len(r) : i < j => score[r[i]] >= score[r[j]]

LEMMA SearchArm ==
    ASSUME NEW score, NEW k \in Nat, NEW r \in Search(score, k)
    PROVE  Arm(r, score)
<1> DEFINE n == IF k <= Cardinality(Chunks) THEN k ELSE Cardinality(Chunks)
<1>1. n \in Nat /\ n <= Cardinality(Chunks)
  BY Sizes
<1>2. r \in [1..n -> Chunks] /\ IsInjective(r)
      /\ \A i, j \in DOMAIN r : i < j => score[r[i]] >= score[r[j]]
  BY Sizes, MinOfTwo DEF Search
<1> HIDE DEF n
<1>3. r \in Seq(Chunks) /\ Len(r) = n /\ DOMAIN r = 1..n
  BY <1>1, <1>2
<1> QED BY <1>1, <1>2, <1>3 DEF Arm, Ranking, IsInjective

\* So is what BM25 returns.
LEMMA LexicalArm ==
    ASSUME NEW score, NEW k \in Nat, NEW r \in Lexical(score, k)
    PROVE  Arm(r, score)
<1>1. PICK s \in Search(score, k) :
         r = Cut(s, Cardinality({i \in DOMAIN s : score[s[i]] > 0}))
  BY DEF Lexical
<1> DEFINE T == {i \in DOMAIN s : score[s[i]] > 0}
<1>2. Arm(s, score)
  BY SearchArm
<1>3. s \in Seq(Chunks) /\ DOMAIN s = 1..Len(s) /\ Len(s) \in Nat
  BY <1>2, SeqFacts DEF Arm, Ranking
<1>4. T \in SUBSET (1..Len(s)) /\ IsFiniteSet(1..Len(s))
  BY <1>3, Positions
<1>5. Cardinality(T) \in Nat
  BY <1>4, FS_Subset, FS_CardinalityType
<1> DEFINE m == Cardinality(T)
<1>6. r = Cut(s, m) /\ m \in Nat
  BY <1>1, <1>5
<1> HIDE DEF m, T
<1>7. /\ Len(r) \in Nat /\ Len(r) <= Len(s)
      /\ \A i \in 1..Len(r) : i \in 1..Len(s) /\ r[i] = s[i]
  BY <1>3, <1>6, CutIs
<1>8. Ranking(r)
  BY <1>2, <1>6, CutRanks DEF Arm
<1>9. Len(r) <= Cardinality(Chunks)
  BY <1>2, <1>3, <1>7, Sizes DEF Arm
<1> QED BY <1>2, <1>7, <1>8, <1>9 DEF Arm

-----------------------------------------------------------------------------
\* Fusion

\* What an arm adds to a chunk's score: no chunk gets less for a better place.
LEMMA ArmShare ==
    ASSUME NEW score, NEW r, Arm(r, score), NEW x, NEW y, NEW share,
           \A c \in {x, y} : share[c] = IF In(c, r) THEN Share(Rank(c, r)) ELSE 0
    PROVE  /\ share[x] \in Nat /\ share[y] \in Nat
           /\ Beats(x, y, r) => share[x] > share[y]
           /\ ~Beats(y, x, r) => share[x] >= share[y]
<1> DEFINE n == Cardinality(Chunks)
<1>1. n \in Nat /\ RRFK \in Nat
  BY Sizes
<1>2. \A c : In(c, r) => Rank(c, r) \in 1..n
  <2>1. Ranking(r) /\ Len(r) \in Nat /\ Len(r) <= n
    BY DEF Arm
  <2> QED BY <1>1, <2>1, RankIs
<1>3. ASSUME NEW q \in 1..n PROVE Share(q) \in Nat /\ Share(q) > 0
  <2>1. q \in Nat /\ n \in 0..n
    BY <1>1
  <2>2. Others(RRFK, n, q) \in Positive
    BY <1>1, <2>1, OthersFacts
  <2> QED BY <2>2 DEF Share, Positive
<1>4. \A p, q \in 1..n : p < q => Share(p) > Share(q)
  BY <1>1, ShareFalls DEF Share
<1> HIDE DEF n
<1>5. share[x] \in Nat /\ share[y] \in Nat
  BY <1>2, <1>3
<1>6. ASSUME Beats(x, y, r) PROVE share[x] > share[y]
  <2>1. In(x, r) /\ share[x] = Share(Rank(x, r)) /\ share[x] > 0
    BY <1>2, <1>3, <1>6 DEF Beats
  <2>2. CASE In(y, r)
    BY <1>2, <1>4, <1>6, <2>1, <2>2 DEF Beats
  <2>3. CASE ~In(y, r)
    BY <2>1, <2>3
  <2> QED BY <2>2, <2>3
<1>7. ASSUME ~Beats(y, x, r) PROVE share[x] >= share[y]
  <2>1. CASE ~In(y, r)
    BY <1>5, <2>1
  <2>2. CASE In(y, r)
    <3>1. In(x, r) /\ ~(Rank(y, r) < Rank(x, r))
      BY <1>7, <2>2 DEF Beats
    <3>2. Rank(x, r) \in 1..n /\ Rank(y, r) \in 1..n
      BY <1>2, <2>2, <3>1
    <3>3. Rank(x, r) < Rank(y, r) \/ Rank(x, r) = Rank(y, r)
      BY <1>1, <3>1, <3>2
    <3>4. share[x] = Share(Rank(x, r)) /\ share[y] = Share(Rank(y, r))
      BY <2>2, <3>1
    <3> QED BY <1>4, <1>5, <3>2, <3>3, <3>4
  <2> QED BY <2>1, <2>2
<1> QED BY <1>5, <1>6, <1>7

\* The fusion by rank: its scores are numbers, and the arms' agreement survives it.
LEMMA RRFAgrees ==
    ASSUME NEW f, NEW g, NEW d, Arm(d, f), NEW l, Arm(l, g)
    PROVE  LET r == ReciprocalRankFusion(<<d, l>>)
           IN /\ Ranking(r) /\ Range(r) = Range(d) \cup Range(l)
              /\ \A x, y \in Range(r) :
                    \/ Beats(x, y, d) /\ ~Beats(y, x, l)
                    \/ Beats(x, y, l) /\ ~Beats(y, x, d)
                    => Beats(x, y, r)
<1> DEFINE rankings == <<d, l>>
           found == UNION {Range(rankings[i]) : i \in DOMAIN rankings}
           share(c, a) == IF In(c, a) THEN Share(Rank(c, a)) ELSE 0
           total(c) == SumTo([i \in DOMAIN rankings |-> share(c, rankings[i])], Len(rankings))
           score == [c \in found |-> total(c)]
           r == ReciprocalRankFusion(rankings)
<1>1. r = Ordered(found, score)
  BY DEF ReciprocalRankFusion
<1>2. rankings[1] = d /\ rankings[2] = l /\ DOMAIN rankings = {1, 2} /\ Len(rankings) = 2
  OBVIOUS
<1>3. found = Range(d) \cup Range(l)
  BY <1>2
<1>4. found \subseteq Chunks /\ IsFiniteSet(found) /\ found \subseteq Nat
  <2>1. Ranking(d) /\ Ranking(l)
    BY DEF Arm
  <2>2. /\ Range(d) \subseteq Chunks /\ IsFiniteSet(Range(d))
        /\ Range(l) \subseteq Chunks /\ IsFiniteSet(Range(l))
    BY <2>1, RangeIs
  <2>3. IsFiniteSet(Range(d) \cup Range(l))
    BY <2>2, FS_Union
  <2> HIDE DEF found
  <2> QED BY <1>3, <2>2, <2>3, Sizes
<1>5. \A c : share(c, d) \in Nat /\ share(c, l) \in Nat
  <2> TAKE c
  <2> DEFINE s == [z \in {c} |-> share(z, d)]
             t == [z \in {c} |-> share(z, l)]
  <2>1. \A z \in {c, c} : s[z] = (IF In(z, d) THEN Share(Rank(z, d)) ELSE 0)
                          /\ t[z] = (IF In(z, l) THEN Share(Rank(z, l)) ELSE 0)
    OBVIOUS
  <2>2. s[c] = share(c, d) /\ t[c] = share(c, l)
    OBVIOUS
  <2> HIDE DEF s, t
  <2>3. s[c] \in Nat /\ t[c] \in Nat
    BY <2>1, ArmShare
  <2> QED BY <2>2, <2>3
<1>6. ASSUME NEW c PROVE total(c) = share(c, d) + share(c, l)
  <2> DEFINE s == [i \in DOMAIN rankings |-> share(c, rankings[i])]
  <2>1. s[1] = share(c, d) /\ s[2] = share(c, l)
    BY <1>2
  <2>2. \A i \in 1..2 : s[i] \in Int
    BY <1>5, <2>1
  <2>3. total(c) = SumTo(s, 2)
    BY <1>2
  <2> HIDE DEF s
  <2>4. SumTo(s, 0) = 0 /\ \A n \in 1..2 : SumTo(s, n) = SumTo(s, n - 1) + s[n]
    BY <2>2, SumFacts
  <2>5. SumTo(s, 1) = SumTo(s, 0) + s[1] /\ SumTo(s, 2) = SumTo(s, 1) + s[2]
    BY <2>4
  <2>6. s[1] \in Int /\ s[2] \in Int
    BY <2>2
  <2>7. SumTo(s, 2) = s[1] + s[2]
    BY <2>4, <2>5, <2>6
  <2> HIDE DEF total, share
  <2> QED BY <2>1, <2>3, <2>7
<1>7. \A c \in found : score[c] = share(c, d) + share(c, l)
  <2> HIDE DEF total, share, found
  <2> QED BY <1>6
<1>8. \A c \in found : score[c] \in Int
  <2> HIDE DEF share, score, found
  <2> QED BY <1>5, <1>7
<1> HIDE DEF score, found, total
<1>9. Sorted(r, found, score)
  BY <1>1, <1>4, <1>8, OrderedSorts
<1>10. Ranking(r)
  BY <1>4, <1>9, SortedRanks
<1>11. Range(r) = found
  <2>1. DOMAIN r = 1..Cardinality(found) /\ r \in [1..Cardinality(found) -> found]
    BY <1>9 DEF Sorted
  <2>2. \A c \in found : \E i \in 1..Cardinality(found) : r[i] = c
    BY <1>9 DEF Sorted
  <2> HIDE DEF r
  <2> QED BY <2>1, <2>2 DEF Range
<1>12. ASSUME NEW x \in found, NEW y \in found,
              \/ Beats(x, y, d) /\ ~Beats(y, x, l)
              \/ Beats(x, y, l) /\ ~Beats(y, x, d)
       PROVE  Beats(x, y, r)
  <2> DEFINE s == [z \in {x, y} |-> share(z, d)]
             t == [z \in {x, y} |-> share(z, l)]
  <2>1. /\ \A z \in {x, y} : s[z] = IF In(z, d) THEN Share(Rank(z, d)) ELSE 0
        /\ \A z \in {x, y} : t[z] = IF In(z, l) THEN Share(Rank(z, l)) ELSE 0
    OBVIOUS
  <2>2. /\ s[x] = share(x, d) /\ s[y] = share(y, d)
        /\ t[x] = share(x, l) /\ t[y] = share(y, l)
    OBVIOUS
  <2> HIDE DEF s, t
  <2>3. /\ s[x] \in Nat /\ s[y] \in Nat
        /\ Beats(x, y, d) => s[x] > s[y]
        /\ ~Beats(y, x, d) => s[x] >= s[y]
    BY <2>1, ArmShare
  <2>4. /\ t[x] \in Nat /\ t[y] \in Nat
        /\ Beats(x, y, l) => t[x] > t[y]
        /\ ~Beats(y, x, l) => t[x] >= t[y]
    BY <2>1, ArmShare
  <2>5. score[x] = s[x] + t[x] /\ score[y] = s[y] + t[y]
    <3> HIDE DEF share
    <3> QED BY <1>7, <2>2
  <2>6. score[x] > score[y]
    BY <1>12, <2>3, <2>4, <2>5
  <2> QED BY <1>1, <1>4, <1>8, <2>6, BetterBeats
<1> QED BY <1>3, <1>10, <1>11, <1>12

\* A larger factor makes a larger product.
LEMMA TimesGrows ==
    ASSUME NEW a \in Nat, NEW u \in Nat, NEW v \in Nat, NEW s \in Nat, u <= v
    PROVE  /\ a * u * s \in Nat /\ a * v * s \in Nat
           /\ a * u * s <= a * v * s
           /\ a > 0 /\ s > 0 /\ u < v => a * u * s < a * v * s
<1>1. a * u \in Nat /\ a * v \in Nat /\ a * u <= a * v
  OBVIOUS
<1>2. a * u * s \in Nat /\ a * v * s \in Nat /\ a * u * s <= a * v * s
  BY <1>1
<1>3. ASSUME a > 0, s > 0, u < v PROVE a * u * s < a * v * s
  <2>1. a * u < a * v
    BY <1>3
  <2>2. \A p, q \in Nat : p < q => p * s < q * s
    BY <1>3
  <2> QED BY <1>1, <2>1, <2>2
<1> QED BY <1>2, <1>3

\* Scores above the lowest: by a span that is not zero, and in the order of the scores.
LEMMA MinMaxIs ==
    ASSUME NEW score \in [Chunks -> Int], NEW r, Arm(r, score)
    PROVE  LET m == MinMax(r, score)
           IN /\ m.span \in Nat /\ m.span > 0
              /\ \A c \in Chunks : m.above[c] \in Nat
              /\ \A x, y \in Chunks : Outscores(x, y, r, score) =>
                    /\ m.above[x] >= m.above[y]
                    /\ In(y, r) => m.above[x] > m.above[y]
<1> DEFINE scores == {score[c] : c \in Range(r)}
           tied == \A s, t \in scores : s = t
           span == IF tied THEN 1 ELSE Max(scores) - Min(scores)
           above(c) == IF ~In(c, r) THEN 0 ELSE IF tied THEN 1 ELSE score[c] - Min(scores)
           n == Len(r)
<1>1. Ranking(r) /\ n \in Nat /\ r \in Seq(Chunks) /\ DOMAIN r = 1..n
  BY SeqFacts DEF Arm, Ranking
<1>2. /\ Range(r) \subseteq Chunks /\ \A c : c \in Range(r) <=> In(c, r)
  BY <1>1, RangeIs
<1>3. scores \subseteq Int
  BY <1>2
<1>4. ASSUME scores # {}
      PROVE  /\ Max(scores) \in scores /\ \A s \in scores : Max(scores) >= s
             /\ Min(scores) \in scores /\ \A s \in scores : Min(scores) <= s
  <2>1. n >= 1 /\ 1 \in 1..n /\ n \in 1..n
    <3>1. PICK c \in Range(r) : TRUE
      BY <1>4
    <3>2. \E i \in 1..n : TRUE
      BY <1>1, <3>1 DEF Range
    <3> QED BY <1>1, <3>2
  <2>2. r[1] \in Range(r) /\ r[n] \in Range(r)
    BY <1>1, <2>1 DEF Range
  <2>3. score[r[1]] \in scores /\ score[r[n]] \in scores
    BY <2>2
  <2>4. ASSUME NEW s \in scores PROVE score[r[1]] >= s /\ score[r[n]] <= s
    <3>1. PICK i \in 1..n : s = score[r[i]]
      BY <1>1 DEF Range
    <3>2. i = 1 \/ 1 < i
      OBVIOUS
    <3>3. i = n \/ i < n
      <4>1. n \in Nat
        BY <1>1
      <4> HIDE DEF n
      <4> QED BY <4>1
    <3>4. score[r[1]] \in Int /\ score[r[n]] \in Int /\ s \in Int
      BY <1>3, <2>3
    <3>5. score[r[1]] >= s
      BY <2>1, <3>1, <3>2, <3>4 DEF Arm
    <3>6. s >= score[r[n]]
      BY <2>1, <3>1, <3>3, <3>4 DEF Arm
    <3> QED BY <3>4, <3>5, <3>6
  <2> HIDE DEF scores
  <2>5. Max(scores) \in scores /\ \A s \in scores : Max(scores) >= s
    BY <2>3, <2>4 DEF Max
  <2>6. Min(scores) \in scores /\ \A s \in scores : Min(scores) <= s
    BY <2>3, <2>4 DEF Min
  <2> QED BY <2>5, <2>6
<1>5. ASSUME NEW c, In(c, r) PROVE c \in Chunks /\ score[c] \in scores /\ score[c] \in Int
  BY <1>2, <1>3, <1>5
<1> HIDE DEF scores
<1>6. span \in Nat /\ span > 0
  <2>1. CASE tied
    BY <2>1
  <2>2. CASE ~tied
    <3>1. PICK s \in scores, t \in scores : s # t
      BY <2>2
    <3>2. s \in Int /\ t \in Int /\ Max(scores) \in Int /\ Min(scores) \in Int
      BY <1>3, <1>4
    <3>3. Max(scores) >= s /\ Max(scores) >= t /\ Min(scores) <= s /\ Min(scores) <= t
      BY <1>4
    <3>4. Max(scores) - Min(scores) \in Nat /\ Max(scores) - Min(scores) > 0
      BY <3>1, <3>2, <3>3
    <3> QED BY <2>2, <3>4
  <2> QED BY <2>1, <2>2
<1>7. ASSUME NEW c PROVE above(c) \in Nat
  <2>1. CASE ~In(c, r) \/ tied
    BY <2>1
  <2>2. CASE In(c, r) /\ ~tied
    <3>1. score[c] \in Int /\ Min(scores) \in Int /\ Min(scores) <= score[c]
      BY <1>3, <1>4, <1>5, <2>2
    <3>2. score[c] - Min(scores) \in Nat
      BY <3>1
    <3> QED BY <2>2, <3>2
  <2> QED BY <2>1, <2>2
<1>8. ASSUME NEW x, NEW y, Outscores(x, y, r, score)
      PROVE  above(x) >= above(y) /\ (In(y, r) => above(x) > above(y))
  <2>1. In(x, r)
    BY <1>8 DEF Outscores
  <2>2. CASE ~In(y, r)
    <3>1. above(y) = 0 /\ above(x) \in Nat
      BY <1>7, <2>2
    <3> HIDE DEF above
    <3> QED BY <2>2, <3>1
  <2>3. CASE In(y, r)
    <3>1. score[x] \in scores /\ score[y] \in scores /\ score[x] > score[y]
      BY <1>5, <1>8, <2>1, <2>3 DEF Outscores
    <3>2. score[x] \in Int /\ score[y] \in Int /\ Min(scores) \in Int
      BY <1>3, <1>4, <3>1
    <3>3. ~tied
      BY <3>1, <3>2
    <3>4. above(x) = score[x] - Min(scores) /\ above(y) = score[y] - Min(scores)
      BY <2>1, <2>3, <3>3
    <3>5. score[x] - Min(scores) > score[y] - Min(scores)
      BY <3>1, <3>2
    <3> HIDE DEF above
    <3> QED BY <3>2, <3>4, <3>5
  <2> QED BY <2>2, <2>3
<1> DEFINE m == MinMax(r, score)
<1>9. m.span = span /\ \A c \in Chunks : m.above[c] = above(c)
  BY DEF MinMax, scores
<1> HIDE DEF m, span, above
<1>10. \A x, y \in Chunks : Outscores(x, y, r, score) =>
          m.above[x] >= m.above[y] /\ (In(y, r) => m.above[x] > m.above[y])
  BY <1>8, <1>9
<1>11. m.span \in Nat /\ m.span > 0 /\ \A c \in Chunks : m.above[c] \in Nat
  BY <1>6, <1>7, <1>9
<1> QED BY <1>10, <1>11 DEF m

\* The fusion by weights: its scores are numbers, and the arms' agreement survives it.
LEMMA WeightedAgrees ==
    ASSUME NEW alpha \in 0..100, NEW arms,
           NEW dense \in [Chunks -> Int], Arm(arms.dense, dense),
           NEW lexical \in [Chunks -> Int], Arm(arms.lexical, lexical)
    PROVE  LET d == arms.dense
               l == arms.lexical
               r == WeightedFusion(alpha, arms, dense, lexical)
           IN /\ Ranking(r) /\ Range(r) = Range(d) \cup Range(l)
              /\ \A x, y \in Range(r) :
                    /\ alpha \in 1..99
                    /\ Outscores(x, y, d, dense) /\ Outscores(x, y, l, lexical)
                    => Beats(x, y, r)
<1> DEFINE d == arms.dense
           l == arms.lexical
           m == MinMax(d, dense)
           n == MinMax(l, lexical)
           found == Range(d) \cup Range(l)
           score == [c \in Chunks |-> alpha * m.above[c] * n.span
                                         + (100 - alpha) * n.above[c] * m.span]
           r == WeightedFusion(alpha, arms, dense, lexical)
<1>1. r = Ordered(found, score)
  BY DEF WeightedFusion
<1>2. Ranking(d) /\ Ranking(l)
  BY DEF Arm
<1>3. /\ found \subseteq Chunks /\ IsFiniteSet(found) /\ found \subseteq Nat
      /\ \A c : c \in found <=> In(c, d) \/ In(c, l)
  <2>1. /\ Range(d) \subseteq Chunks /\ IsFiniteSet(Range(d))
        /\ Range(l) \subseteq Chunks /\ IsFiniteSet(Range(l))
        /\ \A c : c \in Range(d) <=> In(c, d)
        /\ \A c : c \in Range(l) <=> In(c, l)
    BY <1>2, RangeIs
  <2>2. IsFiniteSet(found)
    BY <2>1, FS_Union
  <2> QED BY <2>1, <2>2, Sizes
<1>4. /\ m.span \in Nat /\ m.span > 0
      /\ \A c \in Chunks : m.above[c] \in Nat
      /\ \A x, y \in Chunks : Outscores(x, y, d, dense) =>
            /\ m.above[x] >= m.above[y]
            /\ In(y, d) => m.above[x] > m.above[y]
  BY MinMaxIs
<1>5. /\ n.span \in Nat /\ n.span > 0
      /\ \A c \in Chunks : n.above[c] \in Nat
      /\ \A x, y \in Chunks : Outscores(x, y, l, lexical) =>
            /\ n.above[x] >= n.above[y]
            /\ In(y, l) => n.above[x] > n.above[y]
  BY MinMaxIs
<1>6. \A c \in Chunks : score[c] = alpha * m.above[c] * n.span + (100 - alpha) * n.above[c] * m.span
  OBVIOUS
<1> HIDE DEF m, n, score, found
<1>7. alpha \in Nat /\ 100 - alpha \in Nat
  OBVIOUS
<1>8. ASSUME NEW c \in Chunks
      PROVE  /\ alpha * m.above[c] * n.span \in Nat
             /\ (100 - alpha) * n.above[c] * m.span \in Nat
             /\ score[c] \in Int
  <2>1. alpha * m.above[c] * n.span \in Nat /\ (100 - alpha) * n.above[c] * m.span \in Nat
    <3>1. m.above[c] \in Nat /\ n.above[c] \in Nat /\ m.above[c] <= m.above[c] /\ n.above[c] <= n.above[c]
      BY <1>4, <1>5
    <3> QED BY <1>4, <1>5, <1>7, <3>1, TimesGrows
  <2> QED BY <1>6, <2>1
<1>9. \A c \in found : score[c] \in Int
  BY <1>3, <1>8
<1>10. Sorted(r, found, score)
  BY <1>1, <1>3, <1>9, OrderedSorts
<1>11. Ranking(r)
  BY <1>3, <1>10, SortedRanks
<1>12. Range(r) = found
  <2>1. DOMAIN r = 1..Cardinality(found) /\ r \in [1..Cardinality(found) -> found]
    BY <1>10 DEF Sorted
  <2>2. \A c \in found : \E i \in 1..Cardinality(found) : r[i] = c
    BY <1>10 DEF Sorted
  <2> HIDE DEF r
  <2> QED BY <2>1, <2>2 DEF Range
<1>13. ASSUME NEW x \in found, NEW y \in found, alpha \in 1..99,
              Outscores(x, y, d, dense), Outscores(x, y, l, lexical)
       PROVE  Beats(x, y, r)
  <2>1. x \in Chunks /\ y \in Chunks
    BY <1>3
  <2>2. /\ m.above[x] \in Nat /\ m.above[y] \in Nat /\ m.above[x] >= m.above[y]
        /\ n.above[x] \in Nat /\ n.above[y] \in Nat /\ n.above[x] >= n.above[y]
        /\ m.above[x] > m.above[y] \/ n.above[x] > n.above[y]
    BY <1>3, <1>4, <1>5, <1>13, <2>1
  <2> DEFINE a == alpha * m.above[x] * n.span
             b == (100 - alpha) * n.above[x] * m.span
             e == alpha * m.above[y] * n.span
             f == (100 - alpha) * n.above[y] * m.span
  <2>3. alpha > 0 /\ 100 - alpha > 0
    BY <1>13
  <2>4. a \in Nat /\ e \in Nat /\ e <= a /\ (m.above[x] > m.above[y] => e < a)
    BY <1>5, <1>7, <2>2, <2>3, TimesGrows
  <2>5. b \in Nat /\ f \in Nat /\ f <= b /\ (n.above[x] > n.above[y] => f < b)
    BY <1>4, <1>7, <2>2, <2>3, TimesGrows
  <2>6. score[x] = a + b /\ score[y] = e + f
    BY <1>6, <2>1
  <2> HIDE DEF a, b, e, f
  <2>7. score[x] > score[y]
    BY <2>2, <2>4, <2>5, <2>6
  <2> QED BY <1>1, <1>3, <1>9, <2>7, BetterBeats
<1> QED BY <1>11, <1>12, <1>13 DEF found

-----------------------------------------------------------------------------
\* What a query finds

Calls(arms, fused) ==
    [retriever : Retrievers, dense : [Chunks -> Scores], lexical : [Chunks -> Scores],
     cross : [Chunks -> Scores], arms : arms, fused : fused]
TwoArms == [dense : Seq(Chunks), lexical : Seq(Chunks)]

\* What the arms of a call found
ArmsFound ==
    LET r == call.retriever
    IN /\ call.arms.dense \in Search(call.dense, Depth(r))
       /\ First(r).name = "hybrid" => call.arms.lexical \in Lexical(call.lexical, Depth(r))

QueryInv ==
    /\ at = "search" => call \in Calls({<<>>}, {<<>>})
    /\ at = "fuse" => call \in Calls(TwoArms, {<<>>}) /\ ArmsFound
    /\ at = "return" => call \in Calls(TwoArms, Seq(Chunks)) /\ ArmsFound /\ call.fused = Fused
    /\ at \notin {"search", "fuse", "return"} => call = NoCall
    /\ Ranking(retrieved) /\ Len(retrieved) <= TopK

CommandInv ==
    /\ command \in {"experiment", "calibrate"}
    /\ at \in {"answer", "answered", "fit"} => command = "calibrate"
    /\ at = "done" /\ command = "experiment"
          => grades \in [Chunks -> Grades] /\ Relevant(grades) # {}

\* How many candidates a retriever's first stage and its arms are asked for
LEMMA Depths ==
    ASSUME NEW r \in Retrievers
    PROVE  FirstK(r) \in Nat /\ Depth(r) \in Nat
<1>1. TopK \in Nat
  BY Sizes
<1>2. FirstK(r) \in Nat
  <2>1. CASE r.name = "reranked"
    <3>1. r.candidates \in Nat
      BY <2>1, RetrieversAssumption
    <3>2. Max({r.candidates, TopK}) \in Nat
      BY <1>1, <3>1, MaxOfTwo
    <3> QED BY <2>1, <3>2 DEF FirstK
  <2>2. CASE r.name # "reranked"
    BY <1>1, <2>2 DEF FirstK
  <2> QED BY <2>1, <2>2
<1>3. First(r).name = "hybrid" => First(r).multiplier \in Nat
  BY RetrieversAssumption
<1> QED BY <1>2, <1>3 DEF Depth

\* Scores are integers.
LEMMA ScoresAreInt == \A f \in [Chunks -> Scores] : f \in [Chunks -> Int]
BY AnswersAssumption

\* The arms of a call are rankings by their scores.
LEMMA ArmsAre ==
    ASSUME NEW F, call \in Calls(TwoArms, F), ArmsFound
    PROVE  /\ Arm(call.arms.dense, call.dense)
           /\ First(call.retriever).name = "hybrid" => Arm(call.arms.lexical, call.lexical)
<1>1. Depth(call.retriever) \in Nat
  BY Depths DEF Calls
<1>2. Arm(call.arms.dense, call.dense)
  BY <1>1, SearchArm DEF ArmsFound
<1>3. First(call.retriever).name = "hybrid" => Arm(call.arms.lexical, call.lexical)
  BY <1>1, LexicalArm DEF ArmsFound
<1> QED BY <1>2, <1>3

\* What a first stage returns is a ranking in which its arms' agreement survives.
LEMMA FusedIs ==
    ASSUME NEW F, call \in Calls(TwoArms, F), ArmsFound
    PROVE  /\ Ranking(Fused)
           /\ LET r == First(call.retriever)
                  d == call.arms.dense
                  l == call.arms.lexical
              IN r.name = "hybrid" =>
                  \A x, y \in Range(Fused) :
                      (IF r.method = "rrf"
                       THEN \/ Beats(x, y, d) /\ ~Beats(y, x, l)
                            \/ Beats(x, y, l) /\ ~Beats(y, x, d)
                       ELSE /\ r.alpha \in 1..99
                            /\ Outscores(x, y, d, call.dense) /\ Outscores(x, y, l, call.lexical))
                      => Beats(x, y, Fused)
<1> DEFINE r == First(call.retriever)
           d == call.arms.dense
           l == call.arms.lexical
<1>1. Arm(d, call.dense) /\ (r.name = "hybrid" => Arm(l, call.lexical))
  BY ArmsAre
<1>2. /\ r.name \in {"dense", "hybrid"}
      /\ r.name = "hybrid" => /\ r.method \in {"rrf", "weighted"}
                              /\ r.method = "weighted" => r.alpha \in 0..100
  BY RetrieversAssumption DEF Calls
<1>3. call.dense \in [Chunks -> Int] /\ call.lexical \in [Chunks -> Int]
  BY ScoresAreInt DEF Calls
<1> HIDE DEF r, d, l
<1>4. CASE r.name = "dense"
  <2>1. Fused = d
    BY <1>4 DEF Fused, r, d
  <2> QED BY <1>1, <1>4, <2>1 DEF Arm, r, d
<1>5. CASE r.name = "hybrid" /\ r.method = "rrf"
  <2>1. Fused = ReciprocalRankFusion(<<d, l>>)
    BY <1>5 DEF Fused, r, d, l
  <2>2. /\ Ranking(Fused)
        /\ \A x, y \in Range(Fused) :
              \/ Beats(x, y, d) /\ ~Beats(y, x, l)
              \/ Beats(x, y, l) /\ ~Beats(y, x, d)
              => Beats(x, y, Fused)
    BY <1>1, <1>5, <2>1, RRFAgrees
  <2> QED BY <1>5, <2>2 DEF r, d, l
<1>6. CASE r.name = "hybrid" /\ r.method = "weighted"
  <2>1. Fused = WeightedFusion(r.alpha, call.arms, call.dense, call.lexical)
    BY <1>6 DEF Fused, r, d, l
  <2>2. /\ r.alpha \in 0..100
        /\ Arm(call.arms.dense, call.dense) /\ Arm(call.arms.lexical, call.lexical)
    BY <1>1, <1>2, <1>6 DEF d, l
  <2>3. /\ Ranking(Fused)
        /\ \A x, y \in Range(Fused) :
              /\ r.alpha \in 1..99
              /\ Outscores(x, y, d, call.dense) /\ Outscores(x, y, l, call.lexical)
              => Beats(x, y, Fused)
    BY <1>3, <2>1, <2>2, WeightedAgrees DEF d, l
  <2> QED BY <1>6, <2>3 DEF r, d, l
<1> QED BY <1>2, <1>4, <1>5, <1>6

\* Initially nothing is retrieved.
LEMMA InitQuery == ASSUME Init PROVE QueryInv /\ CommandInv
<1>1. <<>> \in Seq(Chunks) /\ DOMAIN <<>> = {} /\ Len(<<>>) = 0
  OBVIOUS
<1>2. Ranking(<<>>)
  BY <1>1 DEF Ranking
<1> QED BY <1>1, <1>2, Sizes DEF Init, QueryInv, CommandInv

\* Every step of a query keeps its stages in order and its result a ranking.
LEMMA NextQueryInv ==
    ASSUME QueryInv, CommandInv, [Next]_vars
    PROVE  QueryInv' /\ CommandInv'
<1>1. Ranking(<<>>) /\ Len(<<>>) <= TopK
  <2>1. <<>> \in Seq(Chunks) /\ DOMAIN <<>> = {} /\ Len(<<>>) = 0
    OBVIOUS
  <2> QED BY <2>1, Sizes DEF Ranking
<1>2. CASE Asked
  <2>1. /\ call' \in Calls({<<>>}, {<<>>}) /\ at' = "search" /\ retrieved' = retrieved
        /\ command' = command
    BY <1>2 DEF Asked, Calls
  <2>2. QueryInv'
    BY <2>1 DEF QueryInv
  <2> QED BY <2>1, <2>2 DEF CommandInv
<1>3. CASE Searched
  <2>1. /\ at = "search" /\ at' = "fuse" /\ retrieved' = retrieved /\ command' = command
        /\ call \in Calls({<<>>}, {<<>>})
    BY <1>3 DEF Searched, QueryInv, RunArms
  <2>2. PICK d \in Search(call.dense, Depth(call.retriever)),
             l \in IF First(call.retriever).name = "hybrid"
                   THEN Lexical(call.lexical, Depth(call.retriever)) ELSE {<<>>} :
           call' = [call EXCEPT !.arms = [dense |-> d, lexical |-> l]]
    BY <1>3 DEF Searched, RunArms
  <2>3. Depth(call.retriever) \in Nat
    BY <2>1, Depths DEF Calls
  <2>4. d \in Seq(Chunks)
    BY <2>3, SearchArm DEF Arm, Ranking
  <2>5. l \in Seq(Chunks)
    <3>1. CASE First(call.retriever).name = "hybrid"
      BY <2>2, <2>3, <3>1, LexicalArm DEF Arm, Ranking
    <3>2. CASE First(call.retriever).name # "hybrid"
      BY <2>2, <3>2
    <3> QED BY <3>1, <3>2
  <2>6. /\ call' \in Calls(TwoArms, {<<>>})
        /\ call'.retriever = call.retriever /\ call'.dense = call.dense
        /\ call'.lexical = call.lexical
        /\ call'.arms.dense = d /\ call'.arms.lexical = l
    BY <2>1, <2>2, <2>4, <2>5 DEF Calls, TwoArms
  <2>7. ArmsFound'
    BY <2>2, <2>6 DEF ArmsFound
  <2>8. QueryInv'
    BY <2>1, <2>6, <2>7 DEF QueryInv
  <2> QED BY <2>1, <2>8 DEF CommandInv
<1>4. CASE Merged
  <2>1. /\ at = "fuse" /\ at' = "return" /\ retrieved' = retrieved /\ command' = command
        /\ call \in Calls(TwoArms, {<<>>}) /\ ArmsFound
        /\ call' = [call EXCEPT !.fused = Fused]
    BY <1>4 DEF Merged, QueryInv, Fuse
  <2>2. Ranking(Fused)
    BY <2>1, FusedIs
  <2>3. Fused \in Seq(Chunks)
    BY <2>2 DEF Ranking
  <2>4. /\ call' \in Calls(TwoArms, Seq(Chunks))
        /\ call'.retriever = call.retriever /\ call'.dense = call.dense
        /\ call'.lexical = call.lexical /\ call'.arms = call.arms /\ call'.fused = Fused
    BY <2>1, <2>3 DEF Calls
  <2>5. ArmsFound' /\ Fused' = Fused
    BY <2>1, <2>4 DEF ArmsFound, Fused
  <2>6. QueryInv'
    BY <2>1, <2>4, <2>5 DEF QueryInv
  <2> QED BY <2>1, <2>6 DEF CommandInv
<1>5. CASE Returned
  <2>1. /\ at = "return" /\ at' \in {"score", "answer"} /\ call' = NoCall
        /\ command' = command /\ (at' = "score" <=> command = "experiment")
        /\ call \in Calls(TwoArms, Seq(Chunks)) /\ ArmsFound /\ call.fused = Fused /\ Return
        /\ command \in {"experiment", "calibrate"} => (at' = "answer" => command' = "calibrate")
    BY <1>5 DEF Returned, QueryInv
  <2> DEFINE r == call.retriever
             first == Cut(call.fused, FirstK(r))
             kept == IF r.name = "reranked" THEN Ordered(Range(first), call.cross) ELSE first
  <2>2. retrieved' = Cut(kept, TopK)
    BY <2>1 DEF Return
  <2>3. FirstK(r) \in Nat
    BY <2>1, Depths DEF Calls
  <2>4. Ranking(first)
    BY <2>1, <2>3, FusedIs, CutRanks
  <2>5. Ranking(kept)
    <3>1. Range(first) \subseteq Chunks /\ IsFiniteSet(Range(first)) /\ Range(first) \subseteq Nat
      BY <2>4, RangeIs, Sizes
    <3>2. \A c \in Range(first) : call.cross[c] \in Int
      BY <2>1, <3>1, AnswersAssumption DEF Calls
    <3>3. Ranking(Ordered(Range(first), call.cross))
      <4> HIDE DEF first
      <4>1. Sorted(Ordered(Range(first), call.cross), Range(first), call.cross)
        BY <3>1, <3>2, OrderedSorts
      <4> QED BY <3>1, <4>1, SortedRanks
    <3> QED BY <2>4, <3>3
  <2> HIDE DEF kept
  <2>6. Ranking(retrieved') /\ Len(retrieved') <= TopK
    <3>1. TopK \in Nat /\ kept \in Seq(Chunks)
      BY <2>5, Sizes DEF Ranking
    <3>2. Len(Cut(kept, TopK)) = (IF TopK <= Len(kept) THEN TopK ELSE Len(kept)) /\ Len(kept) \in Nat
      BY <3>1, CutIs
    <3> QED BY <2>2, <2>5, <3>1, <3>2, CutRanks
  <2>7. QueryInv'
    BY <2>1, <2>6 DEF QueryInv, Ranking
  <2> QED BY <2>1, <2>7 DEF CommandInv
<1>6. CASE Evaluated
  <2>1. /\ at = "score" /\ at' = "done" /\ call' = call /\ retrieved' = retrieved
        /\ command' = command
        /\ grades' \in [Chunks -> Grades] /\ Relevant(grades') # {}
    BY <1>6 DEF Evaluated
  <2>2. QueryInv'
    BY <2>1 DEF QueryInv
  <2>3. Relevant(grades)' = Relevant(grades')
    BY DEF Relevant
  <2> QED BY <2>1, <2>2, <2>3 DEF CommandInv
<1>7. CASE Answered
  <2>1. /\ at = "answer" /\ at' = "answered" /\ call' = call /\ retrieved' = retrieved
        /\ command' = command
    BY <1>7 DEF Answered
  <2> QED BY <2>1 DEF QueryInv, CommandInv
<1>8. CASE NextQuery
  <2>1. /\ at = "answered" /\ at' \in {"fit", "query"} /\ call' = call /\ retrieved' = <<>>
        /\ command' = command
    BY <1>8 DEF NextQuery
  <2> QED BY <1>1, <2>1 DEF QueryInv, CommandInv
<1>9. CASE CalibrateWeights
  <2>1. /\ at = "fit" /\ at' = "done" /\ call' = call /\ retrieved' = retrieved
        /\ command' = command
    BY <1>9 DEF CalibrateWeights
  <2> QED BY <2>1 DEF QueryInv, CommandInv
<1>10. CASE UNCHANGED vars
  <2>1. /\ at' = at /\ call' = call /\ retrieved' = retrieved /\ command' = command
        /\ grades' = grades
    BY <1>10 DEF vars
  <2>2. ArmsFound' = ArmsFound /\ Fused' = Fused /\ Relevant(grades)' = Relevant(grades)
    BY <2>1 DEF ArmsFound, Fused, Relevant
  <2> QED BY <2>1, <2>2 DEF QueryInv, CommandInv
<1> QED BY <1>2, <1>3, <1>4, <1>5, <1>6, <1>7, <1>8, <1>9, <1>10 DEF Next

\* The arms' agreement survives their fusion: of what is fused, every chunk that one arm puts
\* before another and the other arm not behind it comes first (hybrid.py).
THEOREM FusionHolds == Spec => []FusionAgrees
<1>1. ASSUME QueryInv PROVE FusionAgrees
  <2> SUFFICES ASSUME call.fused # <<>> PROVE FusionAgrees
    BY DEF FusionAgrees
  <2>1. at \in {"search", "fuse"} => call.fused = <<>>
    BY <1>1 DEF QueryInv, Calls
  <2>2. at \notin {"search", "fuse", "return"} => call.fused = <<>>
    BY <1>1 DEF QueryInv, NoCall
  <2>3. call \in Calls(TwoArms, Seq(Chunks)) /\ ArmsFound /\ call.fused = Fused
    BY <1>1, <2>1, <2>2 DEF QueryInv
  <2> QED BY <2>3, FusedIs DEF FusionAgrees
<1> QED BY <1>1, InitQuery, NextQueryInv, PTL DEF Spec

-----------------------------------------------------------------------------
\* More about sums

\* The same numbers but for two neighbours
Differ(s, t, i, N) ==
    /\ \A j \in 1..N : s[j] \in Int /\ t[j] \in Int
    /\ \A j \in 1..N : j # i /\ j # i + 1 => s[j] = t[j]

\* What differs at two neighbours only differs from there on by what they differ.
LEMMA SumSwap ==
    ASSUME NEW N \in Nat, NEW s, NEW t, NEW i \in 1..N, Differ(s, t, i, N)
    PROVE  \A m \in 0..N : /\ SumTo(s, m) \in Int /\ SumTo(t, m) \in Int
                           /\ m < i => SumTo(t, m) = SumTo(s, m)
                           /\ m = i => SumTo(t, m) = SumTo(s, m) + (t[i] - s[i])
                           /\ m > i => SumTo(t, m) = SumTo(s, m) + (t[i] - s[i])
                                                        + (t[i + 1] - s[i + 1])
<1> USE DEF Differ
<1> DEFINE Is(m) == /\ m < i => SumTo(t, m) = SumTo(s, m)
                    /\ m = i => SumTo(t, m) = SumTo(s, m) + (t[i] - s[i])
                    /\ m > i => SumTo(t, m) = SumTo(s, m) + (t[i] - s[i])
                                                 + (t[i + 1] - s[i + 1])
           S == {m \in 0..N : Is(m)}
<1>1. /\ SumTo(s, 0) = 0 /\ SumTo(t, 0) = 0
      /\ \A n \in 0..N : SumTo(s, n) \in Int /\ SumTo(t, n) \in Int
      /\ \A n \in 1..N : SumTo(s, n) = SumTo(s, n - 1) + s[n]
      /\ \A n \in 1..N : SumTo(t, n) = SumTo(t, n - 1) + t[n]
  BY SumFacts
<1>2. 0 \in S
  BY <1>1
<1>3. ASSUME NEW n \in 0..(N - 1), n \in S PROVE n + 1 \in S
  <2>1. n + 1 \in 1..N /\ (n + 1) - 1 = n /\ n + 1 \in 0..N /\ n \in 0..N
    OBVIOUS
  <2>2. /\ SumTo(s, n + 1) = SumTo(s, n) + s[n + 1] /\ s[n + 1] \in Int
        /\ SumTo(t, n + 1) = SumTo(t, n) + t[n + 1] /\ t[n + 1] \in Int
        /\ SumTo(s, n) \in Int /\ SumTo(t, n) \in Int /\ s[i] \in Int /\ t[i] \in Int
    BY <1>1, <2>1
  <2>3. CASE n + 1 < i
    <3>1. s[n + 1] = t[n + 1] /\ SumTo(t, n) = SumTo(s, n)
      BY <1>3, <2>1, <2>3
    <3> QED BY <2>1, <2>2, <2>3, <3>1
  <2>4. CASE n + 1 = i
    <3>1. SumTo(t, n) = SumTo(s, n)
      BY <1>3, <2>1, <2>4
    <3> QED BY <2>1, <2>2, <2>4, <3>1
  <2>5. CASE n = i
    <3>1. SumTo(t, n) = SumTo(s, n) + (t[i] - s[i])
      BY <1>3, <2>1, <2>5
    <3>2. SumTo(t, n + 1) = SumTo(s, n + 1) + (t[i] - s[i]) + (t[i + 1] - s[i + 1])
      BY <2>2, <2>5, <3>1
    <3> QED BY <2>1, <2>5, <3>2
  <2>6. CASE n > i
    <3>1. s[n + 1] = t[n + 1]
          /\ SumTo(t, n) = SumTo(s, n) + (t[i] - s[i]) + (t[i + 1] - s[i + 1])
      BY <1>3, <2>1, <2>6
    <3>2. i + 1 \in 1..N
      BY <2>6
    <3>3. s[i + 1] \in Int /\ t[i + 1] \in Int
      BY <3>2
    <3>4. SumTo(t, n + 1) = SumTo(s, n + 1) + (t[i] - s[i]) + (t[i + 1] - s[i + 1])
      BY <2>2, <3>1, <3>3
    <3> QED BY <2>1, <2>6, <3>4
  <2> QED BY <2>3, <2>4, <2>5, <2>6
<1> HIDE DEF S
<1>4. 0..N \subseteq S
  BY <1>2, <1>3, Climb
<1>5. \A m \in 0..N : Is(m)
  BY <1>4 DEF S
<1> QED BY <1>1, <1>5

\* What differs in one place only differs from there on by what differs there.
LEMMA SumChange ==
    ASSUME NEW N \in Nat, NEW s, NEW t, NEW i \in 1..N,
           \A j \in 1..N : s[j] \in Int /\ t[j] \in Int,
           \A j \in 1..N : j # i => s[j] = t[j]
    PROVE  SumTo(t, N) = SumTo(s, N) + (t[i] - s[i])
<1>1. N \in 0..N /\ (N = i \/ (N > i /\ i + 1 \in 1..N))
  OBVIOUS
<1>2. /\ SumTo(s, N) \in Int /\ SumTo(t, N) \in Int
      /\ N = i => SumTo(t, N) = SumTo(s, N) + (t[i] - s[i])
      /\ N > i => SumTo(t, N) = SumTo(s, N) + (t[i] - s[i]) + (t[i + 1] - s[i + 1])
  BY <1>1, SumSwap DEF Differ
<1>3. CASE N = i
  BY <1>2, <1>3
<1>4. CASE N > i /\ i + 1 \in 1..N
  <2>1. s[i + 1] = t[i + 1] /\ s[i + 1] \in Int /\ s[i] \in Int /\ t[i] \in Int
    BY <1>4
  <2> QED BY <1>2, <1>4, <2>1
<1> QED BY <1>1, <1>3, <1>4

\* Zeros add nothing.
LEMMA SumTail ==
    ASSUME NEW N \in Nat, NEW s, NEW m \in 0..N,
           \A j \in 1..N : s[j] \in Int, \A j \in 1..N : j > m => s[j] = 0
    PROVE  SumTo(s, N) = SumTo(s, m)
<1> DEFINE S == {n \in 0..N : n < m \/ SumTo(s, n) = SumTo(s, m)}
<1>1. /\ \A n \in 0..N : SumTo(s, n) \in Int
      /\ \A n \in 1..N : SumTo(s, n) = SumTo(s, n - 1) + s[n]
  BY SumFacts
<1>2. 0 \in S
  OBVIOUS
<1>3. ASSUME NEW n \in 0..(N - 1), n \in S PROVE n + 1 \in S
  <2>1. n + 1 \in 1..N /\ (n + 1) - 1 = n /\ n + 1 \in 0..N /\ n \in 0..N
    OBVIOUS
  <2>2. SumTo(s, n + 1) = SumTo(s, n) + s[n + 1] /\ SumTo(s, n) \in Int
    BY <1>1, <2>1
  <2>3. n + 1 < m \/ n + 1 = m \/ (n + 1 > m /\ ~(n < m))
    BY <2>1
  <2>4. CASE n + 1 > m /\ ~(n < m)
    <3>1. s[n + 1] = 0 /\ SumTo(s, n) = SumTo(s, m)
      BY <1>3, <2>1, <2>4
    <3>2. SumTo(s, n + 1) = SumTo(s, m)
      BY <2>2, <3>1
    <3> QED BY <2>1, <3>2
  <2> QED BY <2>1, <2>3, <2>4
<1> HIDE DEF S
<1>4. 0..N \subseteq S
  BY <1>2, <1>3, Climb
<1>5. N \in S /\ ~(N < m)
  BY <1>4
<1> QED BY <1>5 DEF S

\* A sum of multiples is the multiple of the sum.
LEMMA SumTimes ==
    ASSUME NEW N \in Nat, NEW s, NEW t, NEW a \in Int,
           \A j \in 1..N : s[j] \in Int /\ t[j] = s[j] * a
    PROVE  SumTo(t, N) = SumTo(s, N) * a
<1> DEFINE S == {n \in 0..N : SumTo(t, n) = SumTo(s, n) * a}
<1>1. /\ SumTo(s, 0) = 0
      /\ \A n \in 0..N : SumTo(s, n) \in Int
      /\ \A n \in 1..N : SumTo(s, n) = SumTo(s, n - 1) + s[n]
  BY SumFacts
<1>2. /\ SumTo(t, 0) = 0
      /\ \A n \in 1..N : SumTo(t, n) = SumTo(t, n - 1) + t[n]
  <2>1. \A j \in 1..N : t[j] \in Int
    OBVIOUS
  <2> QED BY <2>1, SumFacts
<1>3. 0 \in S
  BY <1>1, <1>2
<1>4. ASSUME NEW n \in 0..(N - 1), n \in S PROVE n + 1 \in S
  <2>1. n + 1 \in 1..N /\ (n + 1) - 1 = n /\ n + 1 \in 0..N /\ n \in 0..N
    OBVIOUS
  <2>2. /\ SumTo(s, n + 1) = SumTo(s, n) + s[n + 1] /\ SumTo(s, n) \in Int /\ s[n + 1] \in Int
        /\ SumTo(t, n + 1) = SumTo(t, n) + t[n + 1] /\ t[n + 1] = s[n + 1] * a
        /\ SumTo(t, n) = SumTo(s, n) * a
    BY <1>1, <1>2, <1>4, <2>1
  <2>3. \A x, y \in Int : x * a + y * a = (x + y) * a
    OBVIOUS
  <2>4. SumTo(t, n + 1) = SumTo(s, n + 1) * a
    BY <2>2, <2>3
  <2> QED BY <2>1, <2>4
<1> HIDE DEF S
<1>5. 0..N \subseteq S
  BY <1>3, <1>4, Climb
<1>6. N \in S
  BY <1>5
<1> QED BY <1>6 DEF S

-----------------------------------------------------------------------------
\* A more relevant chunk moves up.

\* 1 at each place that holds a relevant chunk
Hits(r, g) == [j \in 1..Len(r) |-> IF r[j] \in Relevant(g) THEN 1 ELSE 0]

\* The relevant chunks among the first
LEMMA HitsAre ==
    ASSUME NEW r, Ranking(r), NEW g
    PROVE  /\ \A j \in 1..Len(r) : Hits(r, g)[j] \in Nat
           /\ \A m \in 0..Len(r) : PrecisionHits(r, g, m) = SumTo(Hits(r, g), m)
           /\ \A k \in Nat : k >= Len(r) => PrecisionHits(r, g, k) = SumTo(Hits(r, g), Len(r))
<1> DEFINE n == Len(r)
           h == Hits(r, g)
           At(m) == {i \in 1..m : r[i] \in Relevant(g)}
           S == {m \in 0..n : Cardinality(At(m)) = SumTo(h, m) /\ IsFiniteSet(At(m))}
<1>1. n \in Nat /\ \A j \in 1..n : h[j] \in Nat /\ h[j] = IF r[j] \in Relevant(g) THEN 1 ELSE 0
  BY SeqFacts DEF Ranking, Hits
<1> HIDE DEF n, h
<1>2. /\ SumTo(h, 0) = 0
      /\ \A m \in 0..n : SumTo(h, m) \in Int
      /\ \A m \in 1..n : SumTo(h, m) = SumTo(h, m - 1) + h[m]
  <2>1. \A j \in 1..n : h[j] \in Int
    BY <1>1
  <2> QED BY <1>1, <2>1, SumFacts
<1>3. 0 \in S
  <2>1. At(0) = {}
    OBVIOUS
  <2> QED BY <1>1, <1>2, <2>1, FS_EmptySet
<1>4. ASSUME NEW m \in 0..(n - 1), m \in S PROVE m + 1 \in S
  <2>1. m + 1 \in 1..n /\ (m + 1) - 1 = m /\ m + 1 \in 0..n /\ m \in 0..n
    BY <1>1
  <2>2. SumTo(h, m + 1) = SumTo(h, m) + h[m + 1] /\ SumTo(h, m) \in Int
    BY <1>2, <2>1
  <2>3. Cardinality(At(m)) = SumTo(h, m) /\ IsFiniteSet(At(m))
    BY <1>4
  <2>4. m + 1 \notin At(m) /\ \A i \in 1..(m + 1) : i = m + 1 \/ i \in 1..m
    OBVIOUS
  <2>5. CASE r[m + 1] \in Relevant(g)
    <3>1. At(m + 1) = At(m) \cup {m + 1}
      BY <2>1, <2>5
    <3>2. IsFiniteSet(At(m + 1)) /\ Cardinality(At(m + 1)) = Cardinality(At(m)) + 1
      BY <2>3, <2>4, <3>1, FS_AddElement
    <3> HIDE DEF At
    <3> QED BY <1>1, <2>1, <2>2, <2>3, <2>5, <3>2
  <2>6. CASE r[m + 1] \notin Relevant(g)
    <3>1. At(m + 1) = At(m)
      BY <2>1, <2>6
    <3> HIDE DEF At
    <3> QED BY <1>1, <2>1, <2>2, <2>3, <2>6, <3>1
  <2> QED BY <2>5, <2>6
<1> HIDE DEF S
<1>5. 0..n \subseteq S
  BY <1>1, <1>3, <1>4, Climb
<1>6. ASSUME NEW k \in Nat, NEW m \in 0..n, m = IF k <= n THEN k ELSE n
      PROVE  PrecisionHits(r, g, k) = SumTo(h, m)
  <2>1. Min({k, Len(r)}) = m
    BY <1>1, <1>6, MinOfTwo DEF n
  <2>2. m \in S
    BY <1>5
  <2>3. PrecisionHits(r, g, k) = Cardinality(At(m))
    BY <2>1 DEF PrecisionHits
  <2> HIDE DEF At
  <2> QED BY <2>2, <2>3 DEF S
<1>7. \A m \in 0..n : PrecisionHits(r, g, m) = SumTo(h, m)
  BY <1>1, <1>6
<1>8. \A k \in Nat : k >= n => PrecisionHits(r, g, k) = SumTo(h, n)
  BY <1>1, <1>6
<1> QED BY <1>1, <1>7, <1>8 DEF h, n

\* Two neighbours in each other's place
LEMMA PromotedIs ==
    ASSUME NEW r, Ranking(r), NEW i \in 1..(Len(r) - 1)
    PROVE  LET p == Promoted(r, i)
           IN /\ Ranking(p) /\ Len(p) = Len(r) /\ p[i] = r[i + 1] /\ p[i + 1] = r[i]
              /\ \A j \in 1..Len(r) : j # i /\ j # i + 1 => p[j] = r[j]
<1> DEFINE p == Promoted(r, i)
           n == Len(r)
<1>1. n \in Nat /\ DOMAIN r = 1..n /\ r \in Seq(Chunks) /\ \A j \in 1..n : r[j] \in Chunks
  BY SeqFacts DEF Ranking
<1>2. i \in 1..n /\ i + 1 \in 1..n /\ i # i + 1
  BY <1>1
<1>3. /\ p[i] = r[i + 1] /\ p[i + 1] = r[i]
      /\ \A j \in 1..n : j # i /\ j # i + 1 => p[j] = r[j]
      /\ DOMAIN p = 1..n
  BY <1>1, <1>2 DEF Promoted
<1>4. p \in [1..n -> Chunks]
  BY <1>1, <1>2 DEF Promoted
<1>5. p \in Seq(Chunks) /\ Len(p) = n
  BY <1>1, <1>4
<1> HIDE DEF p, n
<1>6. \A a, b \in 1..n : p[a] = p[b] => a = b
  <2>1. \A a, b \in 1..n : r[a] = r[b] => a = b
    BY <1>1 DEF Ranking
  <2> QED BY <1>2, <1>3, <2>1
<1>7. Ranking(p)
  BY <1>3, <1>5, <1>6 DEF Ranking
<1> QED BY <1>3, <1>5, <1>7 DEF p, n

\* The terms of AveragePrecision
Precisions(r, g) ==
    [j \in DOMAIN r |-> IF r[j] \in Relevant(g)
                        THEN PrecisionHits(r, g, j) * Others(0, TopK, j) ELSE 0]

\* As many hits as before, one more at the place above if what was there is not relevant; and
\* an average precision that is no less
LEMMA PromotedHits ==
    ASSUME NEW r, Ranking(r), Len(r) <= TopK, NEW g \in [Chunks -> Nat], NEW i \in 1..(Len(r) - 1),
           g[r[i + 1]] > g[r[i]], NEW k \in Nat
    PROVE  LET p == Promoted(r, i)
           IN /\ PrecisionHits(p, g, k) >= PrecisionHits(r, g, k)
              /\ FirstHit(r, g, k) # 0 => FirstHit(p, g, k) \in 1..FirstHit(r, g, k)
              /\ AveragePrecision(p, g, k) >= AveragePrecision(r, g, k)
<1> DEFINE p == Promoted(r, i)
           n == Len(r)
           m == IF k <= n THEN k ELSE n
           s == Hits(r, g)
           t == Hits(p, g)
           Rel == Relevant(g)
<1>1. /\ Ranking(p) /\ Len(p) = n /\ p[i] = r[i + 1] /\ p[i + 1] = r[i]
      /\ \A j \in 1..n : j # i /\ j # i + 1 => p[j] = r[j]
  BY PromotedIs
<1>2. /\ n \in Nat /\ DOMAIN r = 1..n /\ DOMAIN p = 1..n
      /\ \A j \in 1..n : r[j] \in Chunks /\ p[j] \in Chunks
  BY <1>1, SeqFacts DEF Ranking
<1>3. i \in 1..n /\ i + 1 \in 1..n /\ i # i + 1 /\ i \in Nat /\ m \in Nat /\ m \in 0..n
  BY <1>2
<1>4. r[i + 1] \in Rel
  BY <1>2, <1>3 DEF Relevant
<1>5. /\ \A j \in 1..n : s[j] \in Nat /\ s[j] = IF r[j] \in Rel THEN 1 ELSE 0
      /\ \A j \in 1..n : t[j] \in Nat /\ t[j] = IF p[j] \in Rel THEN 1 ELSE 0
  BY <1>1, <1>2 DEF Hits
<1> HIDE DEF p, n, m, s, t, Rel
<1>6. /\ t[i] = 1 /\ s[i + 1] = 1 /\ t[i + 1] = s[i]
      /\ \A j \in 1..n : j # i /\ j # i + 1 => s[j] = t[j]
  BY <1>1, <1>3, <1>4, <1>5
<1>7. ASSUME NEW j \in 0..n
      PROVE  /\ SumTo(s, j) \in Nat /\ SumTo(t, j) \in Nat
             /\ SumTo(t, j) = SumTo(s, j) + IF j = i THEN 1 - s[i] ELSE 0
  <2>1. \A x \in 1..n : s[x] \in Int /\ t[x] \in Int
    BY <1>5
  <2>2. SumTo(s, j) \in Nat /\ SumTo(t, j) \in Nat
    BY <1>2, <1>5, SumNat
  <2>3. \A x \in 0..n :
           /\ SumTo(s, x) \in Int /\ SumTo(t, x) \in Int
           /\ x < i => SumTo(t, x) = SumTo(s, x)
           /\ x = i => SumTo(t, x) = SumTo(s, x) + (t[i] - s[i])
           /\ x > i => SumTo(t, x) = SumTo(s, x) + (t[i] - s[i]) + (t[i + 1] - s[i + 1])
    <3>1. \A x \in 1..n : x # i /\ x # i + 1 => s[x] = t[x]
      BY <1>6
    <3>2. n \in Nat /\ i \in 1..n
      BY <1>2, <1>3
    <3>3. Differ(s, t, i, n)
      BY <2>1, <3>1 DEF Differ
    <3> QED BY <3>2, <3>3, SumSwap
  <2>6. /\ j < i => SumTo(t, j) = SumTo(s, j)
        /\ j = i => SumTo(t, j) = SumTo(s, j) + (t[i] - s[i])
        /\ j > i => SumTo(t, j) = SumTo(s, j) + (t[i] - s[i]) + (t[i + 1] - s[i + 1])
    BY <2>3
  <2>4. s[i] \in Int
    BY <1>3, <2>1
  <2>5. j < i \/ j = i \/ j > i
    BY <1>3
  <2> QED BY <1>3, <1>6, <2>2, <2>4, <2>5, <2>6
<1>8. /\ \A j \in 0..n : PrecisionHits(r, g, j) = SumTo(s, j)
      /\ \A j \in 0..n : PrecisionHits(p, g, j) = SumTo(t, j)
      /\ PrecisionHits(r, g, k) = SumTo(s, m)
      /\ PrecisionHits(p, g, k) = SumTo(t, m)
  <2>1. /\ \A j \in 0..n : PrecisionHits(r, g, j) = SumTo(s, j)
        /\ \A j \in Nat : j >= n => PrecisionHits(r, g, j) = SumTo(s, n)
    BY HitsAre DEF s, n
  <2>2. /\ \A j \in 0..n : PrecisionHits(p, g, j) = SumTo(t, j)
        /\ \A j \in Nat : j >= n => PrecisionHits(p, g, j) = SumTo(t, n)
    BY <1>1, HitsAre DEF t
  <2>3. k \in 0..n \/ k >= n
    BY <1>2
  <2> QED BY <2>1, <2>2, <2>3, <1>2 DEF m
<1>9. PrecisionHits(p, g, k) >= PrecisionHits(r, g, k)
  <2>1. s[i] \in {0, 1}
    BY <1>3, <1>5
  <2> QED BY <1>3, <1>7, <1>8, <2>1
<1>10. ASSUME FirstHit(r, g, k) # 0 PROVE FirstHit(p, g, k) \in 1..FirstHit(r, g, k)
  <2> DEFINE A == {j \in 1..m : r[j] \in Rel}
             B == {j \in 1..m : p[j] \in Rel}
             f == Min(A)
  <2>1. Min({k, Len(r)}) = m /\ Min({k, Len(p)}) = m
    BY <1>1, <1>2, MinOfTwo DEF m, n
  <2>2. A # {} /\ FirstHit(r, g, k) = f
    BY <1>10, <2>1 DEF FirstHit, Rel
  <2>3. f \in A
    <3>1. A \subseteq Nat
      BY <1>3
    <3> HIDE DEF A
    <3> QED BY <2>2, <3>1, MinIs
  <2>4. \E j \in B : j <= f
    <3>1. f \in 1..n /\ f \in 1..m /\ f \in Nat /\ r[f] \in Rel
      <4> HIDE DEF f
      <4> QED BY <1>2, <1>3, <2>3
    <3> HIDE DEF f
    <3>2. CASE f # i /\ f # i + 1
      <4>1. p[f] \in Rel
        BY <1>1, <3>1, <3>2
      <4> QED BY <3>1, <4>1
    <3>3. CASE f = i \/ f = i + 1
      <4>1. i \in 1..m /\ i <= f
        BY <1>3, <3>1, <3>3
      <4>2. i \in B
        BY <1>1, <1>4, <4>1
      <4> QED BY <4>1, <4>2
    <3> QED BY <3>2, <3>3
  <2>5. B # {} /\ B \subseteq Nat
    BY <2>4
  <2>6. Min(B) \in B /\ \A j \in B : Min(B) <= j
    BY <2>5, MinIs
  <2>7. FirstHit(p, g, k) = Min(B)
    BY <2>1, <2>5 DEF FirstHit, Rel
  <2>8. f \in Nat /\ Min(B) \in Nat /\ Min(B) >= 1
    BY <2>3, <2>6
  <2>9. Min(B) <= f
    <3> HIDE DEF A, B, f
    <3> QED BY <2>4, <2>6, <2>8, <2>5
  <2> HIDE DEF A, B, f
  <2> QED BY <2>2, <2>7, <2>8, <2>9
<1>11. AveragePrecision(p, g, k) >= AveragePrecision(r, g, k)
  <2> DEFINE u == Precisions(r, g)
             v == Precisions(p, g)
             w(j) == Others(0, TopK, j)
  <2>1. AveragePrecision(r, g, k) = SumTo(u, m) /\ AveragePrecision(p, g, k) = SumTo(v, m)
    <3>1. Min({k, Len(r)}) = m /\ Min({k, Len(p)}) = m
      BY <1>1, <1>2, MinOfTwo DEF m, n
    <3> QED BY <3>1 DEF AveragePrecision, Precisions
  <2>2. \A j \in 1..n : w(j) \in Nat
    <3>1. TopK \in Nat /\ 0 \in Nat /\ TopK \in 0..TopK /\ \A j \in 1..n : j \in Nat
      BY Sizes
    <3>2. \A j \in 1..n : Others(0, TopK, j) \in Positive
      BY <3>1, OthersFacts
    <3> QED BY <3>2 DEF Positive
  <2>3. w(i) > w(i + 1)
    <3>1. TopK \in Nat /\ 0 \in Nat /\ i \in 1..TopK /\ i + 1 \in 1..TopK /\ i < i + 1
      BY <1>2, <1>3, Sizes DEF n
    <3> QED BY <3>1, ShareFalls
  <2> HIDE DEF w
  <2>4. ASSUME NEW j \in 1..n
        PROVE  /\ u[j] = (IF r[j] \in Rel THEN SumTo(s, j) * w(j) ELSE 0)
               /\ v[j] = (IF p[j] \in Rel THEN SumTo(t, j) * w(j) ELSE 0)
               /\ u[j] \in Nat /\ v[j] \in Nat
    <3>1. j \in 0..n
      OBVIOUS
    <3>2. /\ u[j] = (IF r[j] \in Rel THEN SumTo(s, j) * w(j) ELSE 0)
          /\ v[j] = (IF p[j] \in Rel THEN SumTo(t, j) * w(j) ELSE 0)
      BY <1>2, <1>8, <3>1 DEF Precisions, w, Rel
    <3>3. SumTo(s, j) * w(j) \in Nat /\ SumTo(t, j) * w(j) \in Nat
      BY <1>7, <2>2, <3>1
    <3> HIDE DEF u, v
    <3> QED BY <3>2, <3>3
  <2> HIDE DEF u, v
  <2>5. ASSUME NEW j \in 1..n, j # i, j # i + 1 PROVE u[j] = v[j]
    <3>1. j \in 0..n
      OBVIOUS
    <3>2. SumTo(t, j) = SumTo(s, j)
      BY <1>7, <2>5, <3>1
    <3> QED BY <1>1, <2>4, <2>5, <3>2
  <2>6. /\ \A x \in 1..n : u[x] \in Int /\ v[x] \in Int
        /\ \A j \in 1..n : j # i /\ j # i + 1 => u[j] = v[j]
    BY <2>4, <2>5
  <2>7. /\ SumTo(u, m) \in Int /\ SumTo(v, m) \in Int
        /\ m < i => SumTo(v, m) = SumTo(u, m)
        /\ m = i => SumTo(v, m) = SumTo(u, m) + (v[i] - u[i])
        /\ m > i => SumTo(v, m) = SumTo(u, m) + (v[i] - u[i]) + (v[i + 1] - u[i + 1])
    <3>1. n \in Nat /\ i \in 1..n
      BY <1>2, <1>3
    <3>2. \A x \in 0..n :
             /\ SumTo(u, x) \in Int /\ SumTo(v, x) \in Int
             /\ x < i => SumTo(v, x) = SumTo(u, x)
             /\ x = i => SumTo(v, x) = SumTo(u, x) + (v[i] - u[i])
             /\ x > i => SumTo(v, x) = SumTo(u, x) + (v[i] - u[i]) + (v[i + 1] - u[i + 1])
      <4>1. Differ(u, v, i, n)
        BY <2>6 DEF Differ
      <4> QED BY <3>1, <4>1, SumSwap
    <3> QED BY <1>3, <3>2
  <2>8. u[i] <= v[i] /\ (v[i] - u[i]) + (v[i + 1] - u[i + 1]) >= 0
    <3>1. i \in 0..n /\ i + 1 \in 0..n
      BY <1>3
    <3>2. SumTo(t, i) = SumTo(s, i) + (1 - s[i]) /\ SumTo(t, i + 1) = SumTo(s, i + 1)
      BY <1>3, <1>7, <3>1
    <3>3. SumTo(s, i + 1) = SumTo(s, i) + 1
      <4>1. \A x \in 1..n : s[x] \in Int
        BY <1>5
      <4>2. SumTo(s, i + 1) = SumTo(s, (i + 1) - 1) + s[i + 1]
        BY <1>2, <1>3, <4>1, SumFacts
      <4>3. (i + 1) - 1 = i
        BY <1>3
      <4> QED BY <1>6, <4>2, <4>3
    <3>4. v[i] = SumTo(t, i) * w(i) /\ u[i + 1] = SumTo(s, i + 1) * w(i + 1)
      BY <1>1, <1>3, <1>4, <2>4
    <3>5. w(i) \in Nat /\ w(i + 1) \in Nat /\ SumTo(s, i) \in Nat /\ SumTo(s, i + 1) \in Nat
          /\ u[i] \in Int /\ v[i] \in Int /\ u[i + 1] \in Int /\ v[i + 1] \in Int
      BY <1>3, <1>7, <2>2, <2>6, <3>1
    <3>6. CASE r[i] \in Rel
      <4>1. s[i] = 1 /\ u[i] = SumTo(s, i) * w(i) /\ v[i + 1] = SumTo(t, i + 1) * w(i + 1)
        BY <1>1, <1>3, <1>5, <2>4, <3>6
      <4>2. u[i] = v[i] /\ u[i + 1] = v[i + 1]
        BY <3>2, <3>4, <3>5, <4>1
      <4> QED BY <3>5, <4>2
    <3>7. CASE r[i] \notin Rel
      <4>1. s[i] = 0 /\ u[i] = 0 /\ v[i + 1] = 0
        BY <1>1, <1>3, <1>5, <2>4, <3>7
      <4>2. SumTo(t, i) = SumTo(s, i + 1)
        BY <3>2, <3>3, <3>5, <4>1
      <4>3. \A h, x, y \in Nat : x > y => h * x >= h * y
        OBVIOUS
      <4>4. v[i] >= u[i + 1]
        BY <2>3, <3>4, <3>5, <4>2, <4>3
      <4>5. v[i] >= 0
        BY <1>3, <2>4
      <4> QED BY <3>5, <4>1, <4>4, <4>5
    <3> QED BY <3>6, <3>7
  <2>9. SumTo(v, m) >= SumTo(u, m)
    <3>1. u[i] \in Int /\ v[i] \in Int /\ u[i + 1] \in Int /\ v[i + 1] \in Int
      BY <1>3, <2>6
    <3>2. m < i \/ m = i \/ m > i
      BY <1>3
    <3> QED BY <2>7, <2>8, <3>1, <3>2
  <2> QED BY <2>1, <2>7, <2>9
<1> QED BY <1>9, <1>10, <1>11 DEF p

-----------------------------------------------------------------------------
\* Discounted gains

\* What the chunk at a place gains: nothing, beyond the end
Val(r, g, j) == IF j \in 1..Len(r) THEN Gain[g[r[j]]] ELSE 0
Vals(r, g) == [j \in 1..TopK |-> Val(r, g, j)]
Gained(r, g) == [j \in 1..TopK |-> Val(r, g, j) * Discounts[j]]
Best(g) == Ordered(Relevant(g), g)

\* Discounts are positive and fall.
LEMMA DiscountsFall ==
    /\ \A j \in 1..TopK : Discounts[j] \in Nat /\ Discounts[j] > 0
    /\ \A j \in 1..TopK : j + 1 \in 1..TopK => Discounts[j + 1] < Discounts[j]
<1>1. /\ DOMAIN Discounts = 1..Len(Discounts) /\ Len(Discounts) \in Nat
      /\ \A j \in DOMAIN Discounts : Discounts[j] \in Nat \ {0}
  BY DiscountsAssumption, SeqFacts
<1>2. \A j \in 1..TopK : j \in 1..Len(Discounts)
  BY <1>1, DiscountsAssumption, Sizes
<1>3. \A j \in 1..TopK : j + 1 \in 1..TopK => j \in 1..(Len(Discounts) - 1)
  BY <1>1, DiscountsAssumption, Sizes
<1> QED BY <1>1, <1>2, <1>3, DiscountsAssumption

\* Gains are numbers.
LEMMA ValIs ==
    ASSUME NEW r, Ranking(r), NEW g \in [Chunks -> Nat]
    PROVE  /\ \A j : Val(r, g, j) \in Nat
           /\ \A j \in 1..TopK : Vals(r, g)[j] = Val(r, g, j)
           /\ \A j \in 1..TopK : Gained(r, g)[j] = Val(r, g, j) * Discounts[j]
           /\ \A j \in 1..TopK : Gained(r, g)[j] \in Nat /\ Vals(r, g)[j] \in Nat
<1>1. \A j \in 1..Len(r) : r[j] \in Chunks
  BY SeqFacts DEF Ranking
<1>2. \A j : Val(r, g, j) \in Nat
  BY <1>1, GainFacts DEF Val
<1>3. \A j \in 1..TopK : Vals(r, g)[j] = Val(r, g, j)
                         /\ Gained(r, g)[j] = Val(r, g, j) * Discounts[j]
  BY DEF Vals, Gained
<1> QED BY <1>2, <1>3, DiscountsFall

\* The discounted gain of the first k
LEMMA DCGIs ==
    ASSUME NEW r, Ranking(r), NEW g \in [Chunks -> Nat], NEW k \in 1..TopK,
           NEW s, s = [i \in DOMAIN Cut(r, k) |-> g[r[i]]]
    PROVE  DCG(s) = SumTo(Gained(r, g), k)
<1> DEFINE m == Len(Cut(r, k))
           t == [i \in DOMAIN s |-> Gain[s[i]] * Discounts[i]]
           u == Gained(r, g)
<1>1. /\ r \in Seq(Chunks) /\ k \in Nat /\ TopK \in Nat /\ Len(r) \in Nat
      /\ \A j \in 1..Len(r) : r[j] \in Chunks
  BY Sizes, SeqFacts DEF Ranking
<1>2. /\ Cut(r, k) \in Seq(Chunks)
      /\ m = (IF k <= Len(r) THEN k ELSE Len(r)) /\ m \in Nat
  BY <1>1, CutIs
<1>3. DOMAIN Cut(r, k) = 1..m
  BY <1>2, SeqFacts
<1> HIDE DEF m
<1>4. m \in 0..k /\ m <= Len(r) /\ \A j \in 1..m : j \in 1..Len(r) /\ j \in 1..TopK
  BY <1>1, <1>2
<1>5. s \in [1..m -> Nat] /\ \A i \in 1..m : s[i] = g[r[i]]
  BY <1>1, <1>3, <1>4
<1>6. Len(s) = m /\ DOMAIN s = 1..m
  BY <1>2, <1>5
<1>7. DCG(s) = SumTo(t, m)
  BY <1>6 DEF DCG
<1>8. \A j \in 1..k : u[j] \in Int /\ u[j] = Val(r, g, j) * Discounts[j]
  <2>1. \A j \in 1..k : j \in 1..TopK
    BY <1>1
  <2> QED BY <2>1, ValIs
<1>9. \A j \in 1..m : t[j] \in Int /\ t[j] = u[j]
  <2> TAKE j \in 1..m
  <2>1. t[j] = Gain[g[r[j]]] * Discounts[j]
    BY <1>5, <1>6
  <2>2. j \in 1..k /\ Val(r, g, j) = Gain[g[r[j]]]
    BY <1>1, <1>4 DEF Val
  <2> HIDE DEF t, u
  <2> QED BY <1>8, <2>1, <2>2
<1> HIDE DEF t, u
<1>10. SumTo(t, m) = SumTo(u, m)
  BY <1>2, <1>9, SumSame
<1>11. SumTo(u, k) = SumTo(u, m)
  <2>1. ASSUME NEW j \in 1..k, j > m PROVE u[j] = 0
    <3>1. j \notin 1..Len(r)
      BY <1>1, <1>2, <2>1
    <3>2. Val(r, g, j) = 0 /\ j \in 1..TopK
      BY <1>1, <3>1 DEF Val
    <3> QED BY <1>8, <3>2, DiscountsFall
  <2>2. \A j \in 1..k : u[j] \in Int
    BY <1>8
  <2> QED BY <1>1, <1>4, <2>1, <2>2, SumTail
<1> QED BY <1>7, <1>10, <1>11 DEF u

\* The ideal order lists the relevant chunks, by their grades.
LEMMA BestSorts ==
    ASSUME NEW g \in [Chunks -> Nat]
    PROVE  /\ Relevant(g) \subseteq Chunks /\ Sorted(Best(g), Relevant(g), g)
           /\ Ranking(Best(g)) /\ Len(Best(g)) = Cardinality(Relevant(g))
<1>1. Relevant(g) \subseteq Chunks /\ IsFiniteSet(Relevant(g)) /\ Relevant(g) \subseteq Nat
  <2>1. Relevant(g) \in SUBSET Chunks
    BY DEF Relevant
  <2> QED BY <2>1, Sizes, FS_Subset
<1>2. \A c \in Relevant(g) : g[c] \in Int
  BY <1>1
<1>3. Sorted(Best(g), Relevant(g), g)
  BY <1>1, <1>2, OrderedSorts DEF Best
<1> QED BY <1>1, <1>3, SortedRanks

\* nDCG is the discounted gain over that of the ideal order.
LEMMA NDCGIs ==
    ASSUME NEW r, Ranking(r), NEW g \in [Chunks -> Nat], NEW k \in 1..TopK
    PROVE  /\ NDCG(r, g, k) = <<SumTo(Gained(r, g), k), SumTo(Gained(Best(g), g), k)>>
           /\ SumTo(Gained(r, g), k) \in Nat /\ SumTo(Gained(Best(g), g), k) \in Nat
<1>1. k \in Nat /\ k \in 0..TopK /\ TopK \in Nat
  BY Sizes
<1>2. Ranking(Best(g))
  BY BestSorts
<1> DEFINE top == Cut(r, k)
           s == [i \in DOMAIN top |-> g[top[i]]]
           t == Ideal(r, g, k)
<1>3. s = [i \in DOMAIN Cut(r, k) |-> g[r[i]]]
  <2>1. top \in Seq(Chunks) /\ \A i \in 1..Len(top) : top[i] = r[i]
    BY <1>1, CutIs DEF Ranking
  <2>2. DOMAIN top = 1..Len(top)
    BY <2>1, SeqFacts
  <2> HIDE DEF top
  <2>3. s = [i \in DOMAIN top |-> g[r[i]]]
    BY <2>1, <2>2
  <2> QED BY <2>3 DEF top
<1>4. t = [i \in DOMAIN Cut(Best(g), k) |-> g[Best(g)[i]]]
  BY DEF Ideal, Best
<1>5. NDCG(r, g, k) = <<DCG(s), DCG(t)>>
  BY DEF NDCG
<1> HIDE DEF s, t
<1>6. DCG(s) = SumTo(Gained(r, g), k)
  BY <1>3, DCGIs
<1>7. DCG(t) = SumTo(Gained(Best(g), g), k)
  BY <1>2, <1>4, DCGIs
<1>8. SumTo(Gained(r, g), k) \in Nat
  <2>1. \A j \in 1..TopK : Gained(r, g)[j] \in Nat
    BY ValIs
  <2> QED BY <1>1, <2>1, SumNat
<1>9. SumTo(Gained(Best(g), g), k) \in Nat
  <2>1. \A j \in 1..TopK : Gained(Best(g), g)[j] \in Nat
    BY <1>2, ValIs
  <2> QED BY <1>1, <2>1, SumNat
<1> QED BY <1>5, <1>6, <1>7, <1>8, <1>9

\* Nor is nDCG any less.
LEMMA PromotedGains ==
    ASSUME NEW r, Ranking(r), Len(r) <= TopK, NEW g \in [Chunks -> Nat], NEW i \in 1..(Len(r) - 1),
           g[r[i + 1]] > g[r[i]], NEW k \in 1..TopK
    PROVE  NDCG(Promoted(r, i), g, k)[1] * NDCG(r, g, k)[2]
              >= NDCG(r, g, k)[1] * NDCG(Promoted(r, i), g, k)[2]
<1> DEFINE p == Promoted(r, i)
           s == Gained(r, g)
           t == Gained(p, g)
           b == SumTo(Gained(Best(g), g), k)
<1>1. /\ Ranking(p) /\ Len(p) = Len(r) /\ p[i] = r[i + 1] /\ p[i + 1] = r[i]
      /\ \A j \in 1..Len(r) : j # i /\ j # i + 1 => p[j] = r[j]
  BY PromotedIs
<1>2. /\ NDCG(r, g, k) = <<SumTo(s, k), b>> /\ NDCG(p, g, k) = <<SumTo(t, k), b>>
      /\ SumTo(s, k) \in Nat /\ SumTo(t, k) \in Nat /\ b \in Nat
  BY <1>1, NDCGIs
<1>3. /\ \A j \in 1..TopK : s[j] = Val(r, g, j) * Discounts[j] /\ s[j] \in Nat
      /\ \A j \in 1..TopK : t[j] = Val(p, g, j) * Discounts[j] /\ t[j] \in Nat
  BY <1>1, ValIs
<1> HIDE DEF p, s, t, b
<1>4. Len(r) \in Nat /\ i \in Nat /\ i \in 1..Len(r) /\ i + 1 \in 1..Len(r)
      /\ i \in 1..TopK /\ i + 1 \in 1..TopK /\ TopK \in Nat /\ k \in 0..TopK
      /\ \A j \in 1..Len(r) : r[j] \in Chunks
  BY Sizes, SeqFacts DEF Ranking
<1> DEFINE x == Gain[g[r[i]]]
           y == Gain[g[r[i + 1]]]
<1>5. x \in Nat /\ y \in Nat /\ x < y
  <2>1. g[r[i]] \in Nat /\ g[r[i + 1]] \in Nat
    BY <1>4
  <2> QED BY <2>1, GainFacts, GainGrows
<1>6. /\ Val(r, g, i) = x /\ Val(r, g, i + 1) = y /\ Val(p, g, i) = y /\ Val(p, g, i + 1) = x
      /\ \A j \in 1..TopK : j # i /\ j # i + 1 => Val(r, g, j) = Val(p, g, j)
  BY <1>1, <1>4 DEF Val
<1> HIDE DEF x, y
<1>7. Differ(s, t, i, TopK)
  <2>1. \A j \in 1..TopK : s[j] \in Int /\ t[j] \in Int
    BY <1>3
  <2>2. \A j \in 1..TopK : j # i /\ j # i + 1 => s[j] = t[j]
    BY <1>3, <1>6
  <2> QED BY <2>1, <2>2 DEF Differ
<1>8. /\ k < i => SumTo(t, k) = SumTo(s, k)
      /\ k = i => SumTo(t, k) = SumTo(s, k) + (t[i] - s[i])
      /\ k > i => SumTo(t, k) = SumTo(s, k) + (t[i] - s[i]) + (t[i + 1] - s[i + 1])
  <2>1. \A m \in 0..TopK :
           /\ SumTo(s, m) \in Int /\ SumTo(t, m) \in Int
           /\ m < i => SumTo(t, m) = SumTo(s, m)
           /\ m = i => SumTo(t, m) = SumTo(s, m) + (t[i] - s[i])
           /\ m > i => SumTo(t, m) = SumTo(s, m) + (t[i] - s[i]) + (t[i + 1] - s[i + 1])
    BY <1>4, <1>7, SumSwap
  <2>2. k \in 0..TopK
    BY <1>4
  <2> QED BY <2>1, <2>2
<1> DEFINE d == Discounts[i]
           e == Discounts[i + 1]
<1>9. d \in Nat /\ e \in Nat /\ e < d
  BY <1>4, DiscountsFall
<1>10. s[i] = x * d /\ t[i] = y * d /\ s[i + 1] = y * e /\ t[i + 1] = x * e
  BY <1>3, <1>4, <1>6
<1> HIDE DEF d, e
<1>11. x * d <= y * d /\ (y * d - x * d) + (x * e - y * e) >= 0
  <2>1. y - x \in Nat /\ d - e \in Nat
    BY <1>5, <1>9
  <2>2. (y - x) * (d - e) \in Nat /\ (y - x) * d \in Nat
    BY <1>9, <2>1
  <2>3. (y - x) * (d - e) = (y * d - x * d) + (x * e - y * e) /\ (y - x) * d = y * d - x * d
    BY <1>5, <1>9
  <2>4. x * d \in Int /\ y * d \in Int /\ x * e \in Int /\ y * e \in Int
    BY <1>5, <1>9
  <2> QED BY <2>2, <2>3, <2>4
<1>12. SumTo(t, k) >= SumTo(s, k)
  <2>1. x * d \in Int /\ y * d \in Int /\ x * e \in Int /\ y * e \in Int
    BY <1>5, <1>9
  <2>2. k < i \/ k = i \/ k > i
    BY <1>4
  <2> QED BY <1>2, <1>8, <1>10, <1>11, <2>1, <2>2
<1>13. SumTo(t, k) * b >= SumTo(s, k) * b
  <2>1. \A v, w, z \in Nat : v >= w => v * z >= w * z
    OBVIOUS
  <2> QED BY <1>2, <1>12, <2>1
<1> QED BY <1>2, <1>13 DEF p

-----------------------------------------------------------------------------
\* The ideal order

\* Gains are in the order of the grades.
LEMMA GainOrder ==
    ASSUME NEW x \in Nat, NEW y \in Nat
    PROVE  Gain[x] \in Nat /\ Gain[y] \in Nat /\ (x > y <=> Gain[x] > Gain[y])
<1>1. Gain[x] \in Nat /\ Gain[y] \in Nat
  BY GainFacts
<1>2. x < y => Gain[x] < Gain[y]
  BY GainGrows
<1>3. y < x => Gain[y] < Gain[x]
  BY GainGrows
<1>4. x < y \/ x = y \/ y < x
  OBVIOUS
<1> QED BY <1>1, <1>2, <1>3, <1>4

Distinct(q, m) == \A a, b \in 1..m : q[a] = q[b] => a = b
GainsOf(q, g) == [j \in DOMAIN q |-> Gain[g[q[j]]]]

\* Of as many chunks as places and one more, some one gains no more than the ideal's next.
LEMMA OneIsNoBetter ==
    ASSUME NEW g \in [Chunks -> Nat], NEW m \in Nat,
           NEW q \in [1..(m + 1) -> Chunks], Distinct(q, m + 1)
    PROVE  \E j \in 1..(m + 1) : Gain[g[q[j]]] <= Val(Best(g), g, m + 1)
<1> DEFINE best == Best(g)
           v == Val(best, g, m + 1)
           n == Cardinality(Relevant(g))
<1>1. Sorted(best, Relevant(g), g) /\ Ranking(best) /\ Len(best) = n /\ Relevant(g) \subseteq Chunks
  BY BestSorts
<1>2. v \in Nat
  BY <1>1, ValIs
<1> HIDE DEF best
<1>3. n \in Nat /\ \A j \in 1..n : best[j] \in Relevant(g)
  BY <1>1 DEF Sorted
<1>4. \A j \in 1..(m + 1) : q[j] \in Chunks /\ g[q[j]] \in Nat /\ Gain[g[q[j]]] \in Nat
  BY GainFacts
<1>5. m + 1 \in 1..n => v = Gain[g[best[m + 1]]]
  BY <1>1 DEF Val
<1> HIDE DEF v, n
<1> SUFFICES ASSUME \A j \in 1..(m + 1) : Gain[g[q[j]]] > v PROVE FALSE
  BY <1>2, <1>4 DEF v, best
<1>6. ASSUME NEW j \in 1..(m + 1) PROVE \E p \in 1..m : best[p] = q[j]
  <2>1. g[q[j]] > 0
    <3>1. Gain[g[q[j]]] > 0
      BY <1>2, <1>4
    <3>2. g[q[j]] # 0
      BY <3>1, GainFacts
    <3> QED BY <1>4, <3>2
  <2>2. q[j] \in Relevant(g)
    BY <1>4, <2>1 DEF Relevant
  <2>3. PICK p \in 1..n : best[p] = q[j]
    BY <1>1, <2>2 DEF Sorted, n
  <2>4. ~(p >= m + 1)
    <3> SUFFICES ASSUME p >= m + 1 PROVE FALSE
      OBVIOUS
    <3>1. m + 1 \in 1..n /\ (p = m + 1 \/ m + 1 < p)
      BY <1>3
    <3>2. v = Gain[g[best[m + 1]]] /\ best[m + 1] \in Chunks
      BY <1>1, <1>3, <1>5, <3>1
    <3>3. g[best[m + 1]] \in Nat
      BY <3>2
    <3>4. g[q[j]] > g[best[m + 1]]
      BY <1>4, <3>2, <3>3, GainOrder
    <3>5. CASE p = m + 1
      BY <2>3, <3>3, <3>4, <3>5
    <3>6. CASE m + 1 < p
      <4>1. Better(best[m + 1], best[p], g)
        BY <1>1, <3>1, <3>6 DEF Sorted, n
      <4> QED BY <1>4, <2>3, <3>3, <3>4, <4>1 DEF Better
    <3> QED BY <3>1, <3>5, <3>6
  <2>5. p \in 1..m
    BY <1>3, <2>4
  <2> QED BY <2>3, <2>5
<1> DEFINE f == [j \in 1..(m + 1) |-> CHOOSE p \in 1..m : best[p] = q[j]]
<1>7. f \in [1..(m + 1) -> 1..m] /\ \A j \in 1..(m + 1) : best[f[j]] = q[j]
  BY <1>6
<1> HIDE DEF f
<1>8. /\ IsFiniteSet(1..m) /\ Cardinality(1..m) = m
      /\ IsFiniteSet(1..(m + 1)) /\ Cardinality(1..(m + 1)) = m + 1
  BY Positions, m + 1 \in Nat
<1>9. \E x, y \in 1..(m + 1) : x # y /\ f[x] = f[y]
  <2> DEFINE P == 1..(m + 1)
             Q == 1..m
  <2>1. IsFiniteSet(P) /\ IsFiniteSet(Q) /\ f \in [P -> Q]
    BY <1>7, <1>8
  <2>3. Cardinality(P) = m + 1 /\ Cardinality(Q) = m
    BY <1>8
  <2>4. Cardinality(Q) < Cardinality(P)
    <3> HIDE DEF P, Q
    <3> QED BY <2>3
  <2> HIDE DEF P, Q
  <2>2. \E x, y \in P : x # y /\ f[x] = f[y]
    BY <2>1, <2>4, FS_PigeonHole
  <2> QED BY <2>2 DEF P
<1>10. PICK x \in 1..(m + 1), y \in 1..(m + 1) : x # y /\ f[x] = f[y]
  BY <1>9
<1>11. q[x] = q[y]
  BY <1>7, <1>10
<1> QED BY <1>10, <1>11 DEF Distinct

\* No chunks gain more than as many of the ideal order.
LEMMA TopSums ==
    ASSUME NEW g \in [Chunks -> Nat], NEW k \in 0..TopK,
           NEW r \in [1..k -> Chunks], Distinct(r, k)
    PROVE  SumTo(GainsOf(r, g), k) <= SumTo(Vals(Best(g), g), k)
<1> DEFINE V == Vals(Best(g), g)
           Is(m) == \A q \in [1..m -> Chunks] :
                       Distinct(q, m) => SumTo(GainsOf(q, g), m) <= SumTo(V, m)
           S == {m \in 0..TopK : Is(m)}
<1>1. TopK \in Nat
  BY Sizes
<1>2. /\ \A j \in 1..TopK : V[j] \in Int /\ V[j] = Val(Best(g), g, j)
      /\ Ranking(Best(g))
  <2>1. Ranking(Best(g))
    BY BestSorts
  <2> QED BY <2>1, ValIs
<1> HIDE DEF V
<1>3. /\ SumTo(V, 0) = 0
      /\ \A n \in 0..TopK : SumTo(V, n) \in Int
      /\ \A n \in 1..TopK : SumTo(V, n) = SumTo(V, n - 1) + V[n]
  BY <1>1, <1>2, SumFacts
<1>4. 0 \in S
  <2>1. \A q \in [1..0 -> Chunks] : SumTo(GainsOf(q, g), 0) = 0
    <3> TAKE q \in [1..0 -> Chunks]
    <3>1. \A i \in 1..0 : GainsOf(q, g)[i] \in Int
      OBVIOUS
    <3> QED BY <3>1, SumFacts
  <2> QED BY <1>1, <1>3, <2>1
<1>5. ASSUME NEW m \in 0..(TopK - 1), m \in S PROVE m + 1 \in S
  <2>1. m \in Nat /\ m + 1 \in 1..TopK /\ (m + 1) - 1 = m /\ m + 1 \in 0..TopK /\ m \in 0..TopK
    BY <1>1
  <2> SUFFICES ASSUME NEW q \in [1..(m + 1) -> Chunks], Distinct(q, m + 1)
               PROVE  SumTo(GainsOf(q, g), m + 1) <= SumTo(V, m + 1)
    BY <2>1
  <2>2. PICK j \in 1..(m + 1) : Gain[g[q[j]]] <= V[m + 1]
    BY <1>2, <2>1, OneIsNoBetter
  <2> DEFINE o == [l \in 1..m |-> IF l = j THEN q[m + 1] ELSE q[l]]
             s == GainsOf(q, g)
             t == GainsOf(o, g)
  <2>3. \A l \in 1..m : l \in 1..(m + 1) /\ l # m + 1
    BY <2>1
  <2>4. m + 1 \in 1..(m + 1)
    BY <2>1
  <2>5. o \in [1..m -> Chunks]
    BY <2>3, <2>4
  <2>6. Distinct(o, m)
    BY <2>3, <2>4 DEF Distinct
  <2>7. SumTo(t, m) <= SumTo(V, m)
    <3> HIDE DEF o
    <3> QED BY <1>5, <2>5, <2>6
  <2>8. \A l \in 1..(m + 1) : s[l] \in Int /\ s[l] = Gain[g[q[l]]]
    <3> TAKE l \in 1..(m + 1)
    <3>1. s[l] = Gain[g[q[l]]]
      BY DEF GainsOf
    <3>2. q[l] \in Chunks
      OBVIOUS
    <3>3. g[q[l]] \in Nat
      BY <3>2
    <3>4. Gain[g[q[l]]] \in Nat
      BY <3>3, GainFacts
    <3> HIDE DEF s
    <3> QED BY <3>1, <3>4
  <2>9. \A l \in 1..m : t[l] \in Int /\ t[l] = (IF l = j THEN s[m + 1] ELSE s[l])
    <3> TAKE l \in 1..m
    <3>1. t[l] = Gain[g[o[l]]] /\ o[l] = IF l = j THEN q[m + 1] ELSE q[l]
      BY <2>5 DEF GainsOf
    <3> HIDE DEF t, o, s
    <3> QED BY <2>3, <2>4, <2>8, <3>1
  <2> HIDE DEF o, s, t
  <2>10. SumTo(s, m + 1) = SumTo(s, m) + s[m + 1]
    <3>1. \A l \in 1..(m + 1) : s[l] \in Int
      BY <2>8
    <3>2. SumTo(s, m + 1) = SumTo(s, (m + 1) - 1) + s[m + 1]
      BY <2>1, <2>4, <3>1, SumFacts, m + 1 \in Nat
    <3> QED BY <2>1, <3>2
  <2>11. \A l \in 1..m : s[l] \in Int /\ t[l] \in Int
    BY <2>3, <2>8, <2>9
  <2>12. SumTo(s, m) \in Int /\ SumTo(t, m) \in Int /\ s[m + 1] \in Int /\ s[j] \in Int
    <3>1. \A l \in 1..m : s[l] \in Int
      BY <2>11
    <3>2. \A l \in 1..m : t[l] \in Int
      BY <2>11
    <3>3. m \in 0..m
      BY <2>1
    <3>4. SumTo(s, m) \in Int
      BY <2>1, <3>1, <3>3, SumFacts
    <3>5. SumTo(t, m) \in Int
      BY <2>1, <3>2, <3>3, SumFacts
    <3> QED BY <2>4, <2>8, <3>4, <3>5
  <2>13. SumTo(s, m + 1) = SumTo(t, m) + s[j]
    <3>1. CASE j = m + 1
      <4>1. \A l \in 1..m : s[l] \in Int /\ s[l] = t[l]
        BY <2>3, <2>9, <2>11, <3>1
      <4>2. SumTo(s, m) = SumTo(t, m)
        BY <2>1, <4>1, SumSame
      <4> QED BY <2>10, <3>1, <4>2
    <3>2. CASE j # m + 1
      <4>1. j \in 1..m
        BY <2>1, <3>2
      <4>2. \A l \in 1..m : l # j => s[l] = t[l]
        BY <2>9
      <4>3. SumTo(t, m) = SumTo(s, m) + (t[j] - s[j]) /\ t[j] = s[m + 1]
        BY <2>1, <2>9, <2>11, <4>1, <4>2, SumChange
      <4> QED BY <2>10, <2>12, <4>3
    <3> QED BY <3>1, <3>2
  <2>14. s[j] <= V[m + 1] /\ SumTo(V, m + 1) = SumTo(V, m) + V[m + 1]
         /\ SumTo(V, m) \in Int /\ V[m + 1] \in Int
    BY <1>2, <1>3, <2>1, <2>2, <2>8
  <2>15. SumTo(s, m + 1) <= SumTo(V, m + 1)
    BY <2>7, <2>12, <2>13, <2>14
  <2> QED BY <2>15 DEF s
<1> HIDE DEF S
<1>6. 0..TopK \subseteq S
  BY <1>1, <1>4, <1>5, Climb
<1>7. k \in S
  BY <1>6
<1> QED BY <1>7 DEF S, V

\* What a ranking's first chunks gain, one sum over the places
LEMMA ValsSum ==
    ASSUME NEW r, Ranking(r), NEW g \in [Chunks -> Nat], NEW m \in 0..TopK
    PROVE  /\ SumTo(Vals(r, g), m) \in Nat /\ SumTo(Vals(Best(g), g), m) \in Nat
           /\ SumTo(Vals(r, g), m) <= SumTo(Vals(Best(g), g), m)
<1> DEFINE V == Vals(Best(g), g)
           U == Vals(r, g)
           n == Len(r)
           l == IF m <= n THEN m ELSE n
           q == [j \in 1..l |-> r[j]]
<1>1. /\ n \in Nat /\ TopK \in Nat /\ m \in Nat /\ DOMAIN r = 1..n
      /\ \A j \in 1..n : r[j] \in Chunks
  BY Sizes, SeqFacts DEF Ranking
<1>2. /\ \A j \in 1..TopK : V[j] \in Nat
      /\ \A j \in 1..TopK : U[j] \in Nat /\ U[j] = Val(r, g, j)
  <2>1. Ranking(Best(g))
    BY BestSorts
  <2> QED BY <2>1, ValIs
<1> HIDE DEF U, V, n, l
<1>3. SumTo(U, m) \in Nat /\ SumTo(V, m) \in Nat
  <2>1. \A j \in 1..TopK : U[j] \in Nat
    BY <1>2
  <2>2. \A j \in 1..TopK : V[j] \in Nat
    BY <1>2
  <2> QED BY <1>1, <2>1, <2>2, SumNat
<1>4. l \in 0..m /\ l \in 0..TopK /\ l \in Nat /\ l <= n
      /\ \A j \in 1..l : j \in 1..n /\ j \in 1..TopK
  BY <1>1 DEF l
<1>5. SumTo(U, m) = SumTo(U, l)
  <2>1. \A j \in 1..m : j \in 1..TopK
    BY <1>1
  <2>2. \A j \in 1..m : U[j] \in Int
    BY <1>2, <2>1
  <2>3. \A j \in 1..m : j > l => U[j] = 0
    <3> TAKE j \in 1..m
    <3> HAVE j > l
    <3>1. j \notin 1..Len(r)
      BY <1>1 DEF l, n
    <3> QED BY <1>2, <2>1, <3>1 DEF Val
  <2> QED BY <1>1, <1>4, <2>2, <2>3, SumTail
<1>6. q \in [1..l -> Chunks] /\ Distinct(q, l)
  BY <1>1, <1>4 DEF Ranking, Distinct
<1>7. SumTo(U, l) = SumTo(GainsOf(q, g), l)
  <2>1. \A j \in 1..l : U[j] \in Int /\ U[j] = GainsOf(q, g)[j]
    <3> TAKE j \in 1..l
    <3>1. j \in 1..n /\ j \in 1..TopK
      BY <1>4
    <3>2. U[j] = Gain[g[r[j]]]
      BY <1>2, <3>1 DEF Val, n
    <3>3. GainsOf(q, g)[j] = Gain[g[r[j]]]
      BY DEF GainsOf
    <3> QED BY <1>2, <3>1, <3>2, <3>3
  <2> HIDE DEF q
  <2> QED BY <1>4, <2>1, SumSame
<1>8. SumTo(GainsOf(q, g), l) <= SumTo(V, l)
  <2> HIDE DEF q
  <2> QED BY <1>4, <1>6, TopSums DEF V
<1>9. SumTo(V, l) <= SumTo(V, m) /\ SumTo(V, l) \in Nat
  <2>1. \A j \in 1..TopK : V[j] \in Nat
    BY <1>2
  <2>2. l <= m
    BY <1>1, <1>4
  <2> QED BY <1>1, <1>4, <2>1, <2>2, SumNat
<1>10. SumTo(U, m) <= SumTo(V, m)
  BY <1>3, <1>5, <1>7, <1>8, <1>9
<1> QED BY <1>3, <1>10 DEF U, V

\* Summation by parts: what is never behind in sum is never behind when the earlier counts for
\* more, and no further ahead only if it never was.
LEMMA ByParts ==
    ASSUME NEW N \in Nat, NEW e, NEW d, NEW x,
           \A j \in 1..N : e[j] \in Int /\ d[j] \in Nat /\ d[j] > 0 /\ x[j] = e[j] * d[j],
           \A j \in 1..N : j + 1 \in 1..N => d[j + 1] < d[j],
           \A m \in 0..N : SumTo(e, m) >= 0
    PROVE  /\ SumTo(x, N) \in Int /\ SumTo(x, N) >= 0
           /\ SumTo(x, N) = 0 => \A m \in 0..N : SumTo(e, m) = 0
<1> DEFINE E(m) == SumTo(e, m)
           X(m) == SumTo(x, m)
           Is(m) == /\ X(m) >= E(m) * d[m]
                    /\ X(m) = E(m) * d[m] => \A j \in 0..(m - 1) : E(j) = 0
           S == {m \in 0..N : m = 0 \/ Is(m)}
<1>1. /\ E(0) = 0
      /\ \A m \in 0..N : E(m) \in Int
      /\ \A m \in 1..N : E(m) = E(m - 1) + e[m]
  BY SumFacts
<1>2. /\ X(0) = 0
      /\ \A m \in 0..N : X(m) \in Int
      /\ \A m \in 1..N : X(m) = X(m - 1) + x[m]
  <2>1. \A j \in 1..N : x[j] \in Int
    OBVIOUS
  <2> QED BY <2>1, SumFacts
<1>3. \A m \in 0..N : E(m) \in Nat
  BY <1>1
<1> HIDE DEF E, X
<1>4. 0 \in S
  OBVIOUS
<1>5. ASSUME NEW m \in 0..(N - 1), m \in S PROVE m + 1 \in S
  <2>1. m + 1 \in 1..N /\ (m + 1) - 1 = m /\ m + 1 \in 0..N /\ m \in 0..N /\ m \in Nat
    OBVIOUS
  <2> DEFINE a == E(m)
             b == E(m + 1)
             c == d[m]
             f == d[m + 1]
             g == e[m + 1]
  <2>2. a \in Nat /\ b \in Nat /\ b = a + g /\ g \in Int /\ f \in Nat /\ f > 0
        /\ X(m + 1) = X(m) + g * f /\ X(m) \in Int
    BY <1>1, <1>2, <1>3, <2>1
  <2>3. g * f = b * f - a * f /\ a * f \in Nat /\ b * f \in Nat
    <3>1. g = b - a
      BY <2>2
    <3>2. \A u, v, w \in Nat : (u - v) * w = u * w - v * w /\ v * w \in Nat /\ u * w \in Nat
      OBVIOUS
    <3> HIDE DEF a, b, f, g
    <3> QED BY <2>2, <3>1, <3>2
  <2>4. CASE m = 0
    <3>1. a = 0 /\ X(m) = 0
      BY <1>1, <1>2, <2>4
    <3>2. X(m + 1) = b * f
      <4> HIDE DEF a, b, f, g
      <4>1. 0 * f = 0
        BY <2>2
      <4> QED BY <2>2, <2>3, <3>1, <4>1
    <3>3. \A j \in 0..m : E(j) = 0
      BY <2>4, <3>1
    <3> QED BY <2>1, <2>2, <2>3, <3>2, <3>3
  <2>5. CASE m # 0
    <3>1. m \in 1..N /\ c \in Nat /\ f < c
      BY <2>1, <2>5
    <3>2. X(m) >= a * c /\ (X(m) = a * c => \A j \in 0..(m - 1) : E(j) = 0)
      BY <1>5, <2>5
    <3>3. a * c \in Nat /\ a * f <= a * c /\ (a * f = a * c => a = 0)
      <4>1. \A u, v, w \in Nat : v < w => u * v \in Nat /\ u * w \in Nat
                                          /\ u * v <= u * w /\ (u * v = u * w => u = 0)
        <5> TAKE u, v, w \in Nat
        <5> HAVE v < w
        <5>1. u * w = u * v + u * (w - v) /\ w - v \in Nat /\ w - v > 0
          OBVIOUS
        <5>2. u * v \in Nat /\ u * w \in Nat /\ u * (w - v) \in Nat
          BY <5>1
        <5>3. u # 0 => u * (w - v) > 0
          BY <5>1
        <5> QED BY <5>1, <5>2, <5>3
      <4> HIDE DEF a, c, f
      <4> QED BY <2>2, <3>1, <4>1
    <3>4. X(m + 1) = X(m) + (b * f - a * f)
      BY <2>2, <2>3
    <3>5. X(m + 1) >= b * f
      <4> HIDE DEF a, b, c, f, g
      <4> QED BY <2>2, <2>3, <3>2, <3>3, <3>4
    <3>6. X(m + 1) = b * f => X(m) = a * c /\ a = 0
      <4> HIDE DEF a, b, c, f, g
      <4> QED BY <2>2, <2>3, <3>2, <3>3, <3>4
    <3>7. ASSUME X(m + 1) = b * f, NEW j \in 0..m PROVE E(j) = 0
      <4>1. j = m \/ j \in 0..(m - 1)
        BY <2>1
      <4> QED BY <3>2, <3>6, <3>7, <4>1
    <3> QED BY <2>1, <3>5, <3>7
  <2> QED BY <2>4, <2>5
<1> HIDE DEF S
<1>6. 0..N \subseteq S
  BY <1>4, <1>5, Climb
<1>7. N \in S
  BY <1>6
<1>8. CASE N = 0
  BY <1>1, <1>2, <1>8 DEF E, X
<1>9. CASE N # 0
  <2>1. Is(N)
    BY <1>7, <1>9 DEF S
  <2>2. E(N) \in Nat /\ d[N] \in Nat /\ d[N] > 0 /\ X(N) \in Int
    BY <1>2, <1>3, <1>9
  <2>3. E(N) * d[N] \in Nat /\ (E(N) * d[N] = 0 => E(N) = 0)
    <3>1. \A u, v \in Nat : v > 0 => u * v \in Nat /\ (u * v = 0 => u = 0)
      OBVIOUS
    <3> QED BY <2>2, <3>1
  <2>4. X(N) >= 0
    BY <2>1, <2>2, <2>3
  <2>5. ASSUME X(N) = 0, NEW m \in 0..N PROVE E(m) = 0
    <3>1. E(N) * d[N] = 0 /\ X(N) = E(N) * d[N]
      BY <2>1, <2>2, <2>3, <2>5
    <3>2. m = N \/ m \in 0..(N - 1)
      OBVIOUS
    <3> QED BY <2>1, <2>3, <3>1, <3>2
  <2> QED BY <2>2, <2>4, <2>5 DEF E, X
<1> QED BY <1>8, <1>9

\* Nothing gains more than what is at a place but what comes before it.
LEMMA BestAtIs ==
    ASSUME NEW r, Ranking(r), NEW g \in [Chunks -> Nat], NEW i \in Nat, i >= 1
    PROVE  BestAt(i, r, g) <=>
              \A c \in Chunks : Gain[g[c]] > Val(r, g, i) =>
                                   \E j \in 1..Len(r) : j < i /\ r[j] = c
<1>1. DOMAIN r = 1..Len(r) /\ Len(r) \in Nat /\ \A j \in 1..Len(r) : r[j] \in Chunks
  BY SeqFacts DEF Ranking
<1>2. ASSUME NEW c \in Chunks
      PROVE  Gain[g[c]] > Val(r, g, i) <=>
                c \in Relevant(g) /\ (i \in DOMAIN r => g[c] > g[r[i]])
  <2>1. g[c] \in Nat /\ Gain[0] = 0 /\ (c \in Relevant(g) <=> g[c] > 0)
    BY GainFacts DEF Relevant
  <2>2. CASE i \in 1..Len(r)
    <3>1. g[r[i]] \in Nat /\ Val(r, g, i) = Gain[g[r[i]]]
      BY <1>1, <2>2 DEF Val
    <3>2. Gain[g[c]] > Gain[g[r[i]]] <=> g[c] > g[r[i]]
      BY <2>1, <3>1, GainOrder
    <3>3. g[c] > g[r[i]] => g[c] > 0
      BY <2>1, <3>1
    <3> QED BY <1>1, <2>1, <2>2, <3>1, <3>2, <3>3
  <2>3. CASE i \notin 1..Len(r)
    <3>1. Val(r, g, i) = Gain[0]
      BY <2>1, <2>3 DEF Val
    <3>2. Gain[g[c]] > Gain[0] <=> g[c] > 0
      BY <2>1, GainOrder
    <3> QED BY <1>1, <2>1, <2>3, <3>1, <3>2
  <2> QED BY <2>2, <2>3
<1>3. Relevant(g) \subseteq Chunks
  BY DEF Relevant
<1> QED BY <1>1, <1>2, <1>3 DEF BestAt

\* Where nothing better was missed, what is there gains as much as in the ideal order.
LEMMA BestGains ==
    ASSUME NEW r, Ranking(r), NEW g \in [Chunks -> Nat], NEW i \in Nat, i >= 1, BestAt(i, r, g)
    PROVE  Val(r, g, i) >= Val(Best(g), g, i)
<1> DEFINE best == Best(g)
           v == Val(best, g, i)
           u == Val(r, g, i)
           n == Cardinality(Relevant(g))
<1>1. Sorted(best, Relevant(g), g) /\ Ranking(best) /\ Len(best) = n /\ Relevant(g) \subseteq Chunks
  BY BestSorts
<1>2. u \in Nat /\ v \in Nat
  BY <1>1, ValIs
<1>3. i \in 1..n => v = Gain[g[best[i]]]
  BY <1>1 DEF Val
<1>4. i \notin 1..n => v = 0
  BY <1>1 DEF Val
<1>5. \A c \in Chunks : Gain[g[c]] > u => \E j \in 1..Len(r) : j < i /\ r[j] = c
  BY BestAtIs
<1> HIDE DEF u, v, best, n
<1> SUFFICES ASSUME u < v PROVE FALSE
  BY <1>2 DEF u, v, best
<1>6. i \in 1..n /\ n \in Nat /\ \A j \in 1..n : best[j] \in Chunks
  BY <1>1, <1>2, <1>4 DEF Sorted, n
<1>7. ASSUME NEW p \in 1..i PROVE \E j \in 1..(i - 1) : r[j] = best[p]
  <2>1. p \in 1..n
    BY <1>6
  <2>2. best[p] \in Chunks /\ best[i] \in Chunks
    BY <1>6, <2>1
  <2>3. g[best[p]] \in Nat /\ g[best[i]] \in Nat
    BY <2>2
  <2>4. g[best[p]] >= g[best[i]]
    <3>1. CASE p = i
      BY <2>3, <3>1
    <3>2. CASE p # i
      <4>1. Better(best[p], best[i], g)
        BY <1>1, <1>6, <2>1, <3>2 DEF Sorted, n
      <4> QED BY <2>3, <4>1 DEF Better
    <3> QED BY <3>1, <3>2
  <2>5. /\ Gain[g[best[p]]] \in Nat /\ Gain[g[best[i]]] \in Nat
        /\ ~(Gain[g[best[i]]] > Gain[g[best[p]]])
    <3>1. ~(g[best[i]] > g[best[p]])
      BY <2>3, <2>4
    <3> QED BY <2>3, <3>1, GainOrder
  <2>6. Gain[g[best[p]]] > u
    BY <1>2, <1>3, <1>6, <2>5
  <2>7. PICK j \in 1..Len(r) : j < i /\ r[j] = best[p]
    BY <1>5, <2>2, <2>6
  <2>8. j \in 1..(i - 1)
    BY <2>7
  <2> QED BY <2>7, <2>8
<1> DEFINE P == 1..i
           Q == 1..(i - 1)
           f == [p \in P |-> CHOOSE j \in Q : r[j] = best[p]]
<1>8. f \in [P -> Q] /\ \A p \in P : r[f[p]] = best[p]
  BY <1>7
<1>9. IsFiniteSet(P) /\ IsFiniteSet(Q) /\ Cardinality(P) = i /\ Cardinality(Q) = i - 1
  BY Positions, i - 1 \in Nat
<1>10. Cardinality(Q) < Cardinality(P)
  <2> HIDE DEF P, Q
  <2> QED BY <1>9
<1>11. \A p \in P : p \in 1..n
  BY <1>6
<1> HIDE DEF P, Q, f
<1>12. PICK x \in P, y \in P : x # y /\ f[x] = f[y]
  BY <1>8, <1>9, <1>10, FS_PigeonHole
<1>13. best[x] = best[y]
  BY <1>8, <1>12
<1> QED BY <1>1, <1>11, <1>12, <1>13 DEF Sorted, n

\* Where the sums are those of the ideal order, nothing better was missed.
LEMMA NothingMissed ==
    ASSUME NEW r, Ranking(r), NEW g \in [Chunks -> Nat], NEW k \in 1..TopK, Len(r) <= TopK,
           \A m \in 0..k : SumTo(Vals(r, g), m) = SumTo(Vals(Best(g), g), m),
           NEW i \in 1..k
    PROVE  BestAt(i, r, g)
<1> DEFINE U == Vals(r, g)
           V == Vals(Best(g), g)
           n == Len(r)
           h == IF i <= n + 1 THEN i ELSE n + 1
<1>1. /\ n \in Nat /\ TopK \in Nat /\ k \in Nat /\ i \in Nat /\ DOMAIN r = 1..n
      /\ \A j \in 1..n : r[j] \in Chunks
  BY Sizes, SeqFacts DEF Ranking
<1>2. \A j \in 1..TopK : U[j] \in Nat /\ U[j] = Val(r, g, j)
  BY ValIs
<1> HIDE DEF U, V, n
<1>3. /\ h \in 1..k /\ h \in 1..TopK /\ h \in Nat /\ h - 1 \in Nat /\ h - 1 \in 0..TopK /\ h - 1 <= n
      /\ h <= i /\ h \in 0..k
  BY <1>1
<1>4. Val(r, g, h) <= Val(r, g, i)
  <2>1. CASE i <= n + 1
    <3>1. h = i /\ Val(r, g, i) \in Nat
      BY <2>1, ValIs
    <3> QED BY <3>1
  <2>2. CASE ~(i <= n + 1)
    <3>1. h = n + 1 /\ h \notin 1..Len(r)
      BY <1>1, <2>2 DEF n
    <3>2. Val(r, g, h) = 0 /\ Val(r, g, i) \in Nat
      BY <3>1, ValIs DEF Val
    <3> QED BY <3>2
  <2> QED BY <2>1, <2>2
<1> HIDE DEF h
<1> SUFFICES ASSUME NEW c \in Chunks, Gain[g[c]] > Val(r, g, i),
                    ~ \E j \in 1..n : j < i /\ r[j] = c
             PROVE  FALSE
  BY <1>1, BestAtIs DEF n
<1> DEFINE q == [j \in 1..h |-> IF j = h THEN c ELSE r[j]]
           s == GainsOf(q, g)
<1>5. \A j \in 1..h : j = h \/ (j \in 1..(h - 1) /\ j \in 1..n /\ j < i /\ j # h)
  BY <1>1, <1>3
<1>6. h \in 1..h /\ \A j \in 1..(h - 1) : j \in 1..h /\ j # h /\ j \in 1..TopK /\ j \in 1..n
  BY <1>1, <1>3
<1>7. q \in [1..h -> Chunks]
  BY <1>1, <1>5
<1>8. Distinct(q, h)
  <2>1. \A j \in 1..h : q[j] = IF j = h THEN c ELSE r[j]
    OBVIOUS
  <2>2. \A a, b \in 1..n : r[a] = r[b] => a = b
    BY <1>1 DEF Ranking
  <2> HIDE DEF q
  <2> QED BY <1>5, <2>1, <2>2 DEF Distinct
<1>9. /\ \A j \in 1..h : s[j] \in Int
      /\ s[h] = Gain[g[c]] /\ s[h] \in Nat
      /\ \A j \in 1..(h - 1) : s[j] = Gain[g[r[j]]]
  <2>1. \A j \in 1..h : s[j] = Gain[g[q[j]]]
    BY <1>7 DEF GainsOf
  <2>2. \A j \in 1..h : q[j] \in Chunks /\ q[j] = IF j = h THEN c ELSE r[j]
    BY <1>7
  <2>3. \A x \in Chunks : Gain[g[x]] \in Nat
    BY GainFacts
  <2> HIDE DEF q, s
  <2>4. \A j \in 1..h : s[j] \in Nat
    BY <2>1, <2>2, <2>3
  <2>5. s[h] = Gain[g[c]]
    BY <1>6, <2>1, <2>2
  <2>6. \A j \in 1..(h - 1) : s[j] = Gain[g[r[j]]]
    BY <1>6, <2>1, <2>2
  <2> QED BY <1>6, <2>4, <2>5, <2>6
<1>10. SumTo(s, h) <= SumTo(V, h)
  <2>1. h \in 0..TopK
    BY <1>1, <1>3
  <2> HIDE DEF q
  <2> QED BY <1>7, <1>8, <2>1, TopSums DEF V
<1> HIDE DEF q, s
<1>11. SumTo(s, h) = SumTo(s, h - 1) + s[h]
  BY <1>3, <1>6, <1>9, SumFacts
<1>12. SumTo(s, h - 1) = SumTo(U, h - 1)
  <2>1. \A j \in 1..(h - 1) : s[j] \in Int /\ s[j] = U[j]
    <3> TAKE j \in 1..(h - 1)
    <3>1. j \in 1..h /\ j \in 1..TopK /\ j \in 1..n
      BY <1>6
    <3>2. U[j] = Gain[g[r[j]]]
      BY <1>2, <3>1 DEF Val, n
    <3> QED BY <1>9, <3>1, <3>2
  <2> QED BY <1>3, <2>1, SumSame
<1>13. SumTo(U, h) = SumTo(U, h - 1) + U[h] /\ SumTo(U, h - 1) \in Int
  <2>1. \A j \in 1..TopK : U[j] \in Int
    BY <1>2
  <2> QED BY <1>1, <1>3, <2>1, SumFacts
<1>14. U[h] = Val(r, g, h) /\ U[h] \in Nat /\ Val(r, g, i) \in Nat
  BY <1>2, <1>3, ValIs
<1>15. s[h] > U[h]
  BY <1>4, <1>9, <1>14
<1>16. SumTo(V, h) = SumTo(U, h)
  BY <1>3 DEF U, V
<1> QED BY <1>9, <1>10, <1>11, <1>12, <1>13, <1>14, <1>15, <1>16

\* nDCG is at most 1, and 1 just for an order without a better one at its cutoff.
LEMMA NDCGSound ==
    ASSUME NEW r, Ranking(r), Len(r) <= TopK, NEW g \in [Chunks -> Nat], NEW k \in 1..TopK
    PROVE  /\ NDCG(r, g, k)[1] <= NDCG(r, g, k)[2]
           /\ NDCG(r, g, k)[1] = NDCG(r, g, k)[2] <=> \A i \in 1..k : BestAt(i, r, g)
<1> DEFINE U == Vals(r, g)
           V == Vals(Best(g), g)
           s == Gained(r, g)
           t == Gained(Best(g), g)
           e == [j \in 1..TopK |-> V[j] - U[j]]
           x == [j \in 1..TopK |-> t[j] - s[j]]
<1>1. Ranking(Best(g)) /\ TopK \in Nat /\ k \in Nat /\ \A j \in 1..k : j \in 1..TopK
  BY BestSorts, Sizes
<1>2. /\ NDCG(r, g, k)[1] = SumTo(s, k) /\ NDCG(r, g, k)[2] = SumTo(t, k)
      /\ SumTo(s, k) \in Nat /\ SumTo(t, k) \in Nat
  BY NDCGIs
<1>3. \A j \in 1..TopK : /\ U[j] \in Nat /\ s[j] \in Nat /\ U[j] = Val(r, g, j)
                         /\ s[j] = U[j] * Discounts[j]
  BY ValIs
<1>4. \A j \in 1..TopK : /\ V[j] \in Nat /\ t[j] \in Nat /\ V[j] = Val(Best(g), g, j)
                         /\ t[j] = V[j] * Discounts[j]
  BY <1>1, ValIs
<1> HIDE DEF U, V, s, t
<1>5. \A m \in 0..TopK : /\ SumTo(U, m) \in Nat /\ SumTo(V, m) \in Nat
                         /\ SumTo(U, m) <= SumTo(V, m)
  BY ValsSum DEF U, V
<1>6. \A j \in 1..TopK : e[j] = V[j] - U[j] /\ e[j] \in Int /\ x[j] = t[j] - s[j] /\ x[j] \in Int
                         /\ V[j] = U[j] + e[j] /\ t[j] = s[j] + x[j]
  BY <1>3, <1>4
<1> HIDE DEF e, x
<1>7. \A j \in 1..TopK : x[j] = e[j] * Discounts[j]
  <2> TAKE j \in 1..TopK
  <2>1. \A u, v, w \in Nat : v * w - u * w = (v - u) * w
    OBVIOUS
  <2>2. V[j] * Discounts[j] - U[j] * Discounts[j] = (V[j] - U[j]) * Discounts[j]
    BY <1>3, <1>4, <2>1, DiscountsFall
  <2> QED BY <1>3, <1>4, <1>6, <2>2
<1>8. ASSUME NEW m \in 0..k PROVE SumTo(V, m) = SumTo(U, m) + SumTo(e, m) /\ SumTo(e, m) \in Int
  <2>1. m \in Nat /\ m \in 0..m /\ \A j \in 1..m : j \in 1..TopK
    BY <1>1
  <2>2. \A j \in 1..m : U[j] \in Int /\ e[j] \in Int /\ V[j] = U[j] + e[j]
    BY <1>3, <1>6, <2>1
  <2>3. SumTo(V, m) = SumTo(U, m) + SumTo(e, m)
    BY <2>1, <2>2, SumAdds
  <2>4. \A j \in 1..m : e[j] \in Int
    BY <2>2
  <2> QED BY <2>1, <2>3, <2>4, SumFacts
<1>9. SumTo(t, k) = SumTo(s, k) + SumTo(x, k)
  <2>1. \A j \in 1..k : s[j] \in Int /\ x[j] \in Int /\ t[j] = s[j] + x[j]
    BY <1>1, <1>3, <1>6
  <2> QED BY <1>1, <2>1, SumAdds
<1>10. ASSUME NEW m \in 0..k
       PROVE  m \in 0..TopK /\ SumTo(e, m) >= 0 /\ (SumTo(e, m) = 0 => SumTo(U, m) = SumTo(V, m))
  <2>1. m \in 0..TopK
    BY <1>1
  <2> QED BY <1>5, <1>8, <2>1
<1>11. /\ SumTo(x, k) \in Int /\ SumTo(x, k) >= 0
       /\ SumTo(x, k) = 0 => \A m \in 0..k : SumTo(e, m) = 0
  <2> DEFINE d == Discounts
  <2>1. \A j \in 1..k : e[j] \in Int /\ d[j] \in Nat /\ d[j] > 0 /\ x[j] = e[j] * d[j]
    BY <1>1, <1>6, <1>7, DiscountsFall
  <2>2. \A j \in 1..k : j + 1 \in 1..k => d[j + 1] < d[j]
    BY <1>1, DiscountsFall
  <2>3. \A m \in 0..k : SumTo(e, m) >= 0
    BY <1>10
  <2> HIDE DEF d
  <2> QED BY <1>1, <2>1, <2>2, <2>3, ByParts
<1>12. SumTo(s, k) <= SumTo(t, k)
  BY <1>2, <1>9, <1>11
<1>13. ASSUME SumTo(s, k) = SumTo(t, k), NEW i \in 1..k PROVE BestAt(i, r, g)
  <2>1. SumTo(x, k) = 0
    BY <1>2, <1>9, <1>11, <1>13
  <2>2. \A m \in 0..k : SumTo(U, m) = SumTo(V, m)
    BY <1>10, <1>11, <2>1
  <2> QED BY <2>2, NothingMissed DEF U, V
<1>14. ASSUME \A i \in 1..k : BestAt(i, r, g) PROVE SumTo(s, k) = SumTo(t, k)
  <2>1. \A j \in 1..k : t[j] \in Int /\ s[j] \in Int /\ t[j] <= s[j]
    <3> TAKE j \in 1..k
    <3>1. j \in 1..TopK /\ j \in Nat /\ j >= 1 /\ BestAt(j, r, g)
      BY <1>1, <1>14
    <3>2. U[j] >= V[j]
      BY <1>3, <1>4, <3>1, BestGains
    <3>3. \A u, v, w \in Nat : u >= v => u * w >= v * w
      OBVIOUS
    <3>4. U[j] * Discounts[j] >= V[j] * Discounts[j]
      BY <1>3, <1>4, <3>1, <3>2, <3>3, DiscountsFall
    <3> QED BY <1>3, <1>4, <3>1, <3>4
  <2>2. SumTo(t, k) <= SumTo(s, k)
    BY <1>1, <2>1, SumLeq
  <2> QED BY <1>2, <1>12, <2>2
<1> QED BY <1>2, <1>12, <1>13, <1>14

\* No average precision is above 1.
LEMMA AverageSound ==
    ASSUME NEW r, Ranking(r), Len(r) <= TopK, NEW g \in [Chunks -> Nat], NEW k \in 1..TopK
    PROVE  AveragePrecision(r, g, k) <= Cardinality(Relevant(g)) * Others(0, TopK, 0)
<1> DEFINE n == Len(r)
           m == IF k <= n THEN k ELSE n
           s == Hits(r, g)
           u == Precisions(r, g)
           W == Others(0, TopK, 0)
           w(j) == Others(0, TopK, j)
           Rel == Relevant(g)
           v == [j \in 1..n |-> s[j] * W]
<1>1. /\ n \in Nat /\ TopK \in Nat /\ k \in Nat /\ DOMAIN r = 1..n
      /\ \A j \in 1..n : r[j] \in Chunks /\ j \in 1..TopK /\ j \in Nat
  BY Sizes, SeqFacts DEF Ranking
<1>2. \A j \in 1..n : s[j] \in Nat /\ s[j] = IF r[j] \in Rel THEN 1 ELSE 0
  BY DEF Hits
<1>3. W \in Nat /\ \A j \in 1..n : w(j) \in Nat /\ w(j) * j = W
  <2>1. 0 \in Nat /\ TopK \in 0..TopK
    BY <1>1
  <2>2. W \in Positive /\ \A j \in 1..n : w(j) \in Positive
    BY <1>1, <2>1, OthersFacts
  <2>3. \A j \in 1..n : w(j) * (0 + j) = W
    BY <1>1, <2>1, ShareTimes
  <2>4. \A j \in 1..n : 0 + j = j
    BY <1>1
  <2> QED BY <2>2, <2>3, <2>4 DEF Positive
<1>4. AveragePrecision(r, g, k) = SumTo(u, m)
  <2>1. Min({k, Len(r)}) = m
    BY <1>1, MinOfTwo
  <2> QED BY <2>1 DEF AveragePrecision, Precisions
<1>5. \A j \in 0..n : PrecisionHits(r, g, j) = SumTo(s, j)
  BY HitsAre
<1> HIDE DEF W, w, s, n, m
<1>6. \A j \in 1..n : s[j] \in Int
  BY <1>2
<1>7. \A j \in 0..n : SumTo(s, j) \in Nat /\ SumTo(s, j) <= j
  <2> DEFINE one == [j \in 1..n |-> 1]
             S == {j \in 0..n : SumTo(s, j) <= j}
  <2>1. /\ SumTo(s, 0) = 0 /\ \A j \in 1..n : SumTo(s, j) = SumTo(s, j - 1) + s[j]
    BY <1>1, <1>6, SumFacts
  <2>2. \A j \in 0..n : SumTo(s, j) \in Nat
    <3>1. \A j \in 1..n : s[j] \in Nat
      BY <1>2
    <3> QED BY <1>1, <3>1, SumNat
  <2>3. 0 \in S
    BY <1>1, <2>1
  <2>4. ASSUME NEW j \in 0..(n - 1), j \in S PROVE j + 1 \in S
    <3>1. j + 1 \in 1..n /\ (j + 1) - 1 = j /\ j + 1 \in 0..n /\ j \in 0..n /\ j \in Nat
      BY <1>1
    <3>2. SumTo(s, j + 1) = SumTo(s, j) + s[j + 1] /\ s[j + 1] \in {0, 1} /\ SumTo(s, j) \in Nat
      BY <1>2, <2>1, <2>2, <3>1
    <3> QED BY <2>4, <3>1, <3>2
  <2> HIDE DEF S
  <2>5. 0..n \subseteq S
    BY <1>1, <2>3, <2>4, Climb
  <2> QED BY <2>2, <2>5 DEF S
<1>8. \A j \in 1..n : u[j] \in Int /\ v[j] \in Int /\ u[j] <= v[j] /\ v[j] = s[j] * W
  <2> TAKE j \in 1..n
  <2>1. j \in 0..n
    BY <1>1
  <2>2. u[j] = (IF r[j] \in Rel THEN SumTo(s, j) * w(j) ELSE 0)
    BY <1>1, <1>5, <2>1 DEF Precisions, w
  <2>3. v[j] = s[j] * W
    OBVIOUS
  <2> HIDE DEF u, v
  <2>4. CASE r[j] \in Rel
    <3>1. \A a, b, c \in Nat : a <= b => a * c \in Nat /\ a * c <= c * b
      OBVIOUS
    <3>2. SumTo(s, j) * w(j) \in Nat /\ SumTo(s, j) * w(j) <= w(j) * j
      BY <1>1, <1>3, <1>7, <2>1, <3>1
    <3>3. s[j] = 1
      BY <1>2, <2>4
    <3>4. v[j] = W
      <4> HIDE DEF Rel
      <4> QED BY <1>3, <2>3, <3>3
    <3> QED BY <1>3, <2>2, <2>3, <2>4, <3>2, <3>3, <3>4
  <2>5. CASE r[j] \notin Rel
    <3>1. s[j] = 0 /\ u[j] = 0 /\ v[j] = 0
      BY <1>2, <1>3, <2>2, <2>3, <2>5
    <3> QED BY <2>3, <3>1
  <2> QED BY <2>4, <2>5
<1> HIDE DEF u, v
<1>9. m \in 0..n /\ m \in Nat /\ \A j \in 1..m : j \in 1..n
  BY <1>1 DEF m
<1>10. SumTo(u, m) <= SumTo(v, m) /\ SumTo(v, m) = SumTo(s, m) * W
       /\ SumTo(u, m) \in Int
  <2>1. \A j \in 1..m : u[j] \in Int /\ v[j] \in Int /\ u[j] <= v[j]
    BY <1>8, <1>9
  <2>2. \A j \in 1..m : s[j] \in Int /\ v[j] = s[j] * W
    BY <1>6, <1>8, <1>9
  <2>3. SumTo(u, m) <= SumTo(v, m)
    BY <1>9, <2>1, SumLeq
  <2>4. SumTo(v, m) = SumTo(s, m) * W
    BY <1>3, <1>9, <2>2, SumTimes, W \in Int
  <2>5. \A j \in 1..m : u[j] \in Int
    BY <2>1
  <2>6. SumTo(u, m) \in Int
    BY <1>9, <2>5, SumFacts, m \in 0..m
  <2> QED BY <2>3, <2>4, <2>6
<1>11. SumTo(s, m) <= Cardinality(Rel) /\ Cardinality(Rel) \in Nat
  <2> DEFINE A == {i \in 1..m : r[i] \in Rel}
             f == [i \in A |-> r[i]]
  <2>1. IsFiniteSet(Rel)
    <3>1. Rel \in SUBSET Chunks
      BY DEF Relevant
    <3> QED BY <3>1, Sizes, FS_Subset
  <2>2. f \in Injection(A, Rel)
    <3>1. f \in [A -> Rel]
      OBVIOUS
    <3>2. \A i \in A : i \in 1..n /\ f[i] = r[i]
      BY <1>9
    <3>3. \A i, j \in A : f[i] = f[j] => i = j
      BY <1>1, <3>2 DEF Ranking
    <3> QED BY <3>1, <3>3 DEF Injection, IsInjective
  <2>3. Cardinality(A) <= Cardinality(Rel)
    <3> HIDE DEF A, f, Rel
    <3> QED BY <2>1, <2>2, FS_Injection
  <2>4. Min({m, Len(r)}) = m
    BY <1>1, <1>9, MinOfTwo DEF n
  <2>5. PrecisionHits(r, g, m) = Cardinality(A)
    BY <2>4 DEF PrecisionHits
  <2> QED BY <1>5, <1>9, <2>1, <2>3, <2>5, FS_CardinalityType
<1> HIDE DEF Rel
<1>12. SumTo(s, m) * W <= Cardinality(Rel) * W
  <2>1. \A a, b, c \in Nat : a <= b => a * c <= b * c
    OBVIOUS
  <2> QED BY <1>3, <1>7, <1>9, <1>11, <2>1
<1>13. SumTo(s, m) * W \in Int /\ Cardinality(Rel) * W \in Int
  BY <1>3, <1>7, <1>9, <1>11
<1>14. SumTo(u, m) <= Cardinality(Rel) * W
  BY <1>10, <1>12, <1>13
<1> QED BY <1>4, <1>14 DEF Rel, W

\* No metric falls when a more relevant chunk moves up; nDCG and average precision stay
\* within 1, nDCG at it just for an order without a better one (metrics.py).
THEOREM MetricsHold == Spec => []MetricsSound
<1>1. ASSUME QueryInv, CommandInv PROVE MetricsSound
  <2> SUFFICES ASSUME command = "experiment", at = "done"
               PROVE  MetricsSoundFor(retrieved, grades)
    BY DEF MetricsSound
  <2>1. Ranking(retrieved) /\ Len(retrieved) <= TopK
    BY <1>1 DEF QueryInv
  <2>2. grades \in [Chunks -> Nat]
    BY <1>1, AnswersAssumption DEF CommandInv
  <2> SUFFICES ASSUME NEW k \in 1..TopK
               PROVE  /\ \A i \in 1..(Len(retrieved) - 1) :
                            grades[retrieved[i + 1]] > grades[retrieved[i]] =>
                                NotWorse(Promoted(retrieved, i), retrieved, grades, k)
                      /\ NDCG(retrieved, grades, k)[1] <= NDCG(retrieved, grades, k)[2]
                      /\ NDCG(retrieved, grades, k)[1] = NDCG(retrieved, grades, k)[2]
                            <=> \A i \in 1..k : BestAt(i, retrieved, grades)
                      /\ AveragePrecision(retrieved, grades, k)
                            <= Cardinality(Relevant(grades)) * Others(0, TopK, 0)
    BY DEF MetricsSoundFor
  <2>3. ASSUME NEW i \in 1..(Len(retrieved) - 1), grades[retrieved[i + 1]] > grades[retrieved[i]]
        PROVE  NotWorse(Promoted(retrieved, i), retrieved, grades, k)
    <3> DEFINE p == Promoted(retrieved, i)
    <3>1. k \in Nat
      OBVIOUS
    <3>2. /\ PrecisionHits(p, grades, k) >= PrecisionHits(retrieved, grades, k)
          /\ FirstHit(retrieved, grades, k) # 0
                => FirstHit(p, grades, k) \in 1..FirstHit(retrieved, grades, k)
          /\ AveragePrecision(p, grades, k) >= AveragePrecision(retrieved, grades, k)
      BY <2>1, <2>2, <2>3, <3>1, PromotedHits
    <3>3. NDCG(p, grades, k)[1] * NDCG(retrieved, grades, k)[2]
             >= NDCG(retrieved, grades, k)[1] * NDCG(p, grades, k)[2]
      BY <2>1, <2>2, <2>3, PromotedGains
    <3> QED BY <3>2, <3>3 DEF NotWorse
  <2>4. /\ NDCG(retrieved, grades, k)[1] <= NDCG(retrieved, grades, k)[2]
        /\ NDCG(retrieved, grades, k)[1] = NDCG(retrieved, grades, k)[2]
              <=> \A i \in 1..k : BestAt(i, retrieved, grades)
    BY <2>1, <2>2, NDCGSound
  <2>5. AveragePrecision(retrieved, grades, k)
           <= Cardinality(Relevant(grades)) * Others(0, TopK, 0)
    BY <2>1, <2>2, AverageSound
  <2> QED BY <2>3, <2>4, <2>5
<1> QED BY <1>1, InitQuery, NextQueryInv, PTL DEF Spec

-----------------------------------------------------------------------------
\* The sentences of an answer

Answer(tokens, n) == n \in 0..MaxTokens /\ tokens \in [1..n -> {Stop, Word} \cup Markers]

\* How many sentences an answer of n tokens has
SentencesOf(tokens, n) == IF n = 0 THEN 0 ELSE SentenceAt(tokens, n)

\* Tokens are in one sentence each, the later in no earlier one.
LEMMA SentenceIs ==
    ASSUME NEW tokens, NEW n, Answer(tokens, n)
    PROVE  /\ n \in Nat /\ DOMAIN tokens = 1..n /\ \A i \in 1..n : tokens[i] \in Int
           /\ SentencesOf(tokens, n) \in 0..n
           /\ \A i \in 1..n : SentenceAt(tokens, i) \in 1..SentencesOf(tokens, n)
           /\ DOMAIN Sentences(tokens) = 1..SentencesOf(tokens, n)
           /\ \A k \in 1..SentencesOf(tokens, n) :
                 Sentences(tokens)[k] = {i \in 1..n : SentenceAt(tokens, i) = k}
<1> DEFINE Stops(i) == {j \in 1..(i - 1) : tokens[j] = Stop}
<1>1. n \in Nat /\ DOMAIN tokens = 1..n
  BY WeightsAssumption DEF Answer
<1>2. \A i \in 1..n : tokens[i] \in Int
  <2>1. TopK + 1 \in Int
    BY Sizes
  <2>2. \A i \in 1..n : tokens[i] \in {Stop, Word} \cup Markers
    BY DEF Answer
  <2> QED BY <2>1, <2>2 DEF Stop, Word, Markers
<1>3. ASSUME NEW i \in 1..n
      PROVE  /\ IsFiniteSet(Stops(i)) /\ Cardinality(Stops(i)) \in 0..(i - 1)
             /\ SentenceAt(tokens, i) = 1 + Cardinality(Stops(i))
  <2>1. i - 1 \in Nat
    OBVIOUS
  <2>2. IsFiniteSet(1..(i - 1)) /\ Cardinality(1..(i - 1)) = i - 1
    BY <2>1, Positions
  <2>3. Stops(i) \in SUBSET (1..(i - 1))
    OBVIOUS
  <2>4. IsFiniteSet(Stops(i)) /\ Cardinality(Stops(i)) <= i - 1
    <3> HIDE DEF Stops
    <3> QED BY <2>2, <2>3, FS_Subset
  <2>5. Cardinality(Stops(i)) \in Nat
    BY <2>4, FS_CardinalityType
  <2>6. SentenceAt(tokens, i) = 1 + Cardinality(Stops(i))
    BY DEF SentenceAt
  <2> HIDE DEF Stops
  <2> QED BY <2>1, <2>4, <2>5, <2>6
<1>4. ASSUME NEW i \in 1..n PROVE SentenceAt(tokens, i) <= SentenceAt(tokens, n)
  <2>1. n \in 1..n
    BY <1>1
  <2>2. Stops(i) \in SUBSET Stops(n)
    BY <1>1
  <2>3. Cardinality(Stops(i)) <= Cardinality(Stops(n))
    BY <1>3, <2>1, <2>2, FS_Subset
  <2> HIDE DEF Stops
  <2> QED BY <1>3, <2>1, <2>3
<1> HIDE DEF Stops
<1>5. n = 0 \/ n \in 1..n
  BY <1>1
<1>6. SentencesOf(tokens, n) \in 0..n
  BY <1>1, <1>3, <1>5 DEF SentencesOf
<1>7. \A i \in 1..n : SentenceAt(tokens, i) \in 1..SentencesOf(tokens, n)
  <2> TAKE i \in 1..n
  <2>1. SentencesOf(tokens, n) = SentenceAt(tokens, n) /\ n \in 1..n
    BY <1>1 DEF SentencesOf
  <2> QED BY <1>3, <1>4, <2>1
<1>8. Len(tokens) = n /\ (tokens = <<>> <=> n = 0)
  <2>1. tokens \in Seq(Int) /\ Len(tokens) = n
    <3>1. tokens \in [1..n -> Int]
      BY <1>1, <1>2 DEF Answer
    <3> QED BY <1>1, <3>1
  <2>2. tokens = <<>> => n = 0
    BY <2>1
  <2>3. n = 0 => tokens = <<>>
    BY <2>1
  <2> QED BY <2>1, <2>2, <2>3
<1>9. /\ DOMAIN Sentences(tokens) = 1..SentencesOf(tokens, n)
      /\ \A k \in 1..SentencesOf(tokens, n) :
            Sentences(tokens)[k] = {i \in 1..n : SentenceAt(tokens, i) = k}
  BY <1>1, <1>8 DEF Sentences, SentencesOf
<1> QED BY <1>1, <1>2, <1>6, <1>7, <1>9

\* In sentence k of an answer a marker stands for chunk c.
StandsFor(tokens, n, hits, k, c) ==
    \E i \in 1..n : /\ SentenceAt(tokens, i) = k
                    /\ tokens[i] \in 1..Len(hits) /\ hits[tokens[i]] = c

\* The chunks a sentence cites, and its words: one at least where it cites.
LEMMA CitationsAre ==
    ASSUME NEW tokens, NEW n, Answer(tokens, n), NEW hits, Ranking(hits)
    PROVE  LET s == ParseCitations(tokens, hits)
               K == SentencesOf(tokens, n)
           IN /\ DOMAIN s = 1..K /\ Len(s) = K /\ K \in Nat /\ (s = <<>> => K = 0)
              /\ \A k \in 1..K :
                    /\ s[k].cites \subseteq Range(hits) /\ IsFiniteSet(s[k].cites)
                    /\ \A c : c \in s[k].cites <=> StandsFor(tokens, n, hits, k, c)
                    /\ s[k].words = Cardinality({i \in 1..n : SentenceAt(tokens, i) = k
                                                                /\ tokens[i] # Stop})
                    /\ s[k].words \in Nat
                    /\ s[k].cites # {} => s[k].words > 0
<1> DEFINE s == ParseCitations(tokens, hits)
           K == SentencesOf(tokens, n)
           pieces == Sentences(tokens)
           words(k) == {i \in 1..n : SentenceAt(tokens, i) = k /\ tokens[i] # Stop}
<1>1. /\ n \in Nat /\ DOMAIN tokens = 1..n /\ \A i \in 1..n : tokens[i] \in Int
      /\ K \in 0..n
      /\ DOMAIN pieces = 1..K
      /\ \A k \in 1..K : pieces[k] = {i \in 1..n : SentenceAt(tokens, i) = k}
  BY SentenceIs
<1>2. DOMAIN hits = 1..Len(hits) /\ Len(hits) \in Nat /\ IsFiniteSet(Range(hits))
  BY SeqFacts, RangeIs DEF Ranking
<1>3. K \in Nat
  BY <1>1
<1> HIDE DEF K, pieces
<1>4. s = [k \in 1..K |->
              [words |-> WordsOf(tokens, pieces[k]),
               cites |-> {hits[tokens[i]] : i \in {j \in pieces[k] : tokens[j] \in DOMAIN hits}}]]
  BY <1>1 DEF ParseCitations, pieces
<1> HIDE DEF s
<1>5. DOMAIN s = 1..K /\ Len(s) = K
  BY <1>3, <1>4
<1>6. s = <<>> => K = 0
  BY <1>5
<1>7. ASSUME NEW k \in 1..K
      PROVE  /\ s[k].cites \subseteq Range(hits) /\ IsFiniteSet(s[k].cites)
             /\ \A c : c \in s[k].cites <=> StandsFor(tokens, n, hits, k, c)
             /\ s[k].words = Cardinality(words(k))
             /\ s[k].words \in Nat
             /\ s[k].cites # {} => s[k].words > 0
  <2>1. /\ s[k].words = WordsOf(tokens, pieces[k])
        /\ s[k].cites = {hits[tokens[i]] : i \in {j \in pieces[k] : tokens[j] \in DOMAIN hits}}
    BY <1>4
  <2>2. \A c : c \in s[k].cites <=>
           \E i \in 1..n : /\ SentenceAt(tokens, i) = k
                           /\ tokens[i] \in 1..Len(hits) /\ hits[tokens[i]] = c
    <3> TAKE c
    <3>1. c \in s[k].cites <=>
             \E i \in pieces[k] : tokens[i] \in 1..Len(hits) /\ hits[tokens[i]] = c
      BY <1>2, <2>1
    <3>2. \A i : i \in pieces[k] <=> i \in 1..n /\ SentenceAt(tokens, i) = k
      BY <1>1
    <3> QED BY <3>1, <3>2
  <2>3. s[k].cites \subseteq Range(hits)
    BY <1>2, <2>2 DEF Range
  <2>4. IsFiniteSet(s[k].cites)
    BY <1>2, <2>3, FS_Subset
  <2>5. s[k].words = Cardinality(words(k))
    <3>1. {i \in pieces[k] : tokens[i] # Stop} = words(k)
      BY <1>1
    <3> HIDE DEF words
    <3> QED BY <2>1, <3>1 DEF WordsOf
  <2>6. IsFiniteSet(words(k)) /\ Cardinality(words(k)) \in Nat
    <3>1. IsFiniteSet(1..n) /\ words(k) \in SUBSET (1..n)
      BY <1>1, Positions
    <3> HIDE DEF words
    <3> QED BY <3>1, FS_Subset, FS_CardinalityType
  <2>7. ASSUME s[k].cites # {} PROVE words(k) # {}
    <3>1. PICK i \in 1..n : SentenceAt(tokens, i) = k /\ tokens[i] \in 1..Len(hits)
      BY <2>2, <2>7
    <3>2. tokens[i] # Stop
      BY <3>1 DEF Stop
    <3> QED BY <3>1, <3>2
  <2>8. s[k].cites # {} => Cardinality(words(k)) > 0
    <3> HIDE DEF words
    <3> QED BY <2>6, <2>7, FS_EmptySet
  <2>9. \A c : c \in s[k].cites <=> StandsFor(tokens, n, hits, k, c)
    BY <2>2 DEF StandsFor
  <2> HIDE DEF words
  <2> QED BY <2>3, <2>4, <2>5, <2>6, <2>8, <2>9
<1> QED BY <1>3, <1>5, <1>6, <1>7 DEF s, K

\* The words of the sentences are tokens of the answer.
LEMMA WordsSum ==
    ASSUME NEW tokens, NEW n, Answer(tokens, n), NEW hits, Ranking(hits), NEW w,
           \A k \in 1..SentencesOf(tokens, n) : w[k] = ParseCitations(tokens, hits)[k].words
    PROVE  SumTo(w, SentencesOf(tokens, n)) <= n
<1> DEFINE K == SentencesOf(tokens, n)
           InIt(k) == {i \in 1..n : SentenceAt(tokens, i) = k /\ tokens[i] # Stop}
           Through(k) == {i \in 1..n : SentenceAt(tokens, i) <= k /\ tokens[i] # Stop}
           S == {k \in 0..K : SumTo(w, k) = Cardinality(Through(k))}
<1>1. /\ n \in Nat /\ K \in Nat /\ \A i \in 1..n : SentenceAt(tokens, i) \in 1..K
      /\ IsFiniteSet(1..n) /\ Cardinality(1..n) = n
  BY SentenceIs, Positions
<1>2. \A k \in 1..K : w[k] = Cardinality(InIt(k)) /\ w[k] \in Nat
  BY CitationsAre
<1> HIDE DEF K
<1>3. SumTo(w, 0) = 0 /\ \A k \in 1..K : SumTo(w, k) = SumTo(w, k - 1) + w[k]
  <2>1. \A k \in 1..K : w[k] \in Int
    <3> HIDE DEF InIt
    <3> QED BY <1>2
  <2> QED BY <1>1, <2>1, SumFacts
<1>4. \A k : Through(k) \in SUBSET (1..n) /\ InIt(k) \in SUBSET (1..n)
  OBVIOUS
<1>5. \A k : IsFiniteSet(Through(k)) /\ IsFiniteSet(InIt(k)) /\ Cardinality(Through(k)) <= n
             /\ Cardinality(Through(k)) \in Nat /\ Cardinality(InIt(k)) \in Nat
  <2> HIDE DEF Through, InIt
  <2> QED BY <1>1, <1>4, FS_Subset, FS_CardinalityType
<1>6. 0 \in S
  <2>1. Through(0) = {}
    BY <1>1
  <2> HIDE DEF Through
  <2>2. Cardinality(Through(0)) = 0
    BY <2>1, FS_EmptySet
  <2>3. 0 \in 0..K /\ SumTo(w, 0) = 0
    BY <1>1, <1>3
  <2> QED BY <2>2, <2>3
<1>7. ASSUME NEW k \in 0..(K - 1), k \in S PROVE k + 1 \in S
  <2>1. k + 1 \in 1..K /\ (k + 1) - 1 = k /\ k + 1 \in 0..K
    BY <1>1
  <2>2. SumTo(w, k + 1) = SumTo(w, k) + w[k + 1]
    BY <1>3, <2>1
  <2>3. Through(k + 1) = Through(k) \cup InIt(k + 1) /\ Through(k) \cap InIt(k + 1) = {}
    <3>1. \A i \in 1..n : SentenceAt(tokens, i) \in Int
      BY <1>1
    <3>2. \A a \in Int : (a <= k + 1 <=> a <= k \/ a = k + 1) /\ ~(a <= k /\ a = k + 1)
      OBVIOUS
    <3> QED BY <3>1, <3>2
  <2>4. Cardinality(Through(k + 1)) = Cardinality(Through(k)) + Cardinality(InIt(k + 1)) - 0
    <3> HIDE DEF Through, InIt
    <3>1. Cardinality({}) = 0
      BY FS_EmptySet
    <3>2. Cardinality(Through(k) \cup InIt(k + 1))
             = Cardinality(Through(k)) + Cardinality(InIt(k + 1)) - Cardinality(Through(k) \cap InIt(k + 1))
      BY <1>5, FS_Union
    <3> QED BY <2>3, <3>1, <3>2
  <2> HIDE DEF Through, InIt
  <2>5. SumTo(w, k + 1) = Cardinality(Through(k + 1))
    BY <1>2, <1>5, <1>7, <2>1, <2>2, <2>4
  <2> QED BY <2>1, <2>5
<1> HIDE DEF S
<1>8. 0..K \subseteq S
  BY <1>1, <1>6, <1>7, Climb
<1>9. K \in S
  BY <1>1, <1>8
<1>10. SumTo(w, K) <= n
  <2> HIDE DEF Through
  <2> QED BY <1>5, <1>9 DEF S
<1> QED BY <1>10 DEF K

-----------------------------------------------------------------------------
\* What a page earns

\* A part of a whole, in units: none of nothing, one at least of what is fine enough, and at
\* most all of them.
LEMMA Division ==
    ASSUME NEW a \in Nat, NEW b \in Nat, NEW w \in Nat, b > 0, a <= b
    PROVE  /\ (a * w) \div b \in 0..w
           /\ a = 0 => (a * w) \div b = 0
           /\ a > 0 /\ b <= w => (a * w) \div b > 0
<1> DEFINE x == a * w
           q == x \div b
<1>1. x \in Nat /\ b * w \in Nat /\ x <= b * w
  <2>1. \A u, v, z \in Nat : u <= v => u * z \in Nat /\ v * z \in Nat /\ u * z <= v * z
    OBVIOUS
  <2> QED BY <2>1
<1>2. a > 0 => x >= w
  <2>1. \A u, z \in Nat : u > 0 => u * z >= z
    OBVIOUS
  <2> QED BY <2>1
<1>3. a = 0 => x = 0
  OBVIOUS
<1> HIDE DEF x
<1>4. q \in Int /\ b * q <= x /\ x < b * q + b
  <2>1. q \in Int /\ b * q = x - (x % b) /\ x % b \in 0..(b - 1)
    BY <1>1
  <2> QED BY <1>1, <2>1
<1> HIDE DEF q
<1>5. q >= 0
  <2> SUFFICES ASSUME q <= -1 PROVE FALSE
    BY <1>4
  <2>1. b * q <= b * (-1)
    BY <1>4
  <2> QED BY <1>1, <1>4, <2>1
<1>6. q <= w
  <2> SUFFICES ASSUME q >= w + 1 PROVE FALSE
    BY <1>4
  <2>1. b * q >= b * (w + 1) /\ b * (w + 1) = b * w + b
    BY <1>4
  <2> QED BY <1>1, <1>4, <2>1
<1>7. a = 0 => q = 0
  <2> SUFFICES ASSUME a = 0, q # 0 PROVE FALSE
    OBVIOUS
  <2>1. q >= 1 /\ x = 0
    BY <1>3, <1>4, <1>5
  <2>2. b * q >= b
    BY <1>4, <2>1
  <2> QED BY <1>4, <2>1, <2>2
<1>8. a > 0 /\ b <= w => q > 0
  <2> SUFFICES ASSUME a > 0, b <= w, q = 0 PROVE FALSE
    BY <1>4, <1>5
  <2>1. b * q = 0 /\ x >= w
    BY <1>2
  <2> QED BY <1>1, <1>4, <2>1
<1> QED BY <1>4, <1>5, <1>6, <1>7, <1>8 DEF x, q

\* A page's share of an answer is some of the whole, and something just when it was cited.
LEMMA ShareIs ==
    ASSUME NEW tokens, NEW n, Answer(tokens, n), NEW hits, Ranking(hits), NEW target
    PROVE  LET s == ParseCitations(tokens, hits)
           IN /\ PositionShare(s, target) \in 0..Whole
              /\ PositionShare(s, target) > 0
                    <=> \E k \in 1..SentencesOf(tokens, n) : s[k].cites \cap target # {}
<1> DEFINE s == ParseCitations(tokens, hits)
           K == SentencesOf(tokens, n)
           H == {k \in DOMAIN s : s[k].cites \cap target # {}}
           A == [k \in DOMAIN s |-> IF k \in DOMAIN s THEN SentenceWeight[k] * s[k].words ELSE 0]
           B == [k \in DOMAIN s |-> IF k \in H THEN SentenceWeight[k] * s[k].words ELSE 0]
           words == [k \in 1..K |-> s[k].words]
           all == SumTo(A, K)
           hit == SumTo(B, K)
<1>1. /\ DOMAIN s = 1..K /\ Len(s) = K /\ K \in Nat
      /\ \A k \in 1..K : s[k].words \in Nat /\ (s[k].cites # {} => s[k].words > 0)
  BY CitationsAre
<1>2. n \in Nat /\ n <= MaxTokens /\ MaxTokens \in Nat /\ Whole \in Nat /\ K <= n
  BY SentenceIs, WeightsAssumption DEF Answer
<1>3. \A k \in 1..K : /\ SentenceWeight[k] \in Nat /\ SentenceWeight[k] > 0
                      /\ SentenceWeight[k] * MaxTokens <= Whole
  <2>1. /\ DOMAIN SentenceWeight = 1..Len(SentenceWeight) /\ Len(SentenceWeight) \in Nat
        /\ \A k \in DOMAIN SentenceWeight : SentenceWeight[k] \in Nat \ {0}
    BY WeightsAssumption, SeqFacts
  <2>2. \A k \in 1..K : k \in DOMAIN SentenceWeight
    <3> HIDE DEF K
    <3> QED BY <1>1, <1>2, <2>1, WeightsAssumption
  <2> HIDE DEF K
  <2> QED BY <2>1, <2>2, WeightsAssumption
<1>4. SumTo(words, K) <= n
  <2>1. \A k \in 1..K : words[k] = s[k].words
    OBVIOUS
  <2> HIDE DEF words
  <2> QED BY <2>1, WordsSum
<1>5. \A k \in 1..K : words[k] = s[k].words /\ words[k] \in Nat
  BY <1>1
<1> HIDE DEF K, s, words
<1>6. \A k \in 1..K : /\ A[k] = SentenceWeight[k] * words[k] /\ A[k] \in Nat
                      /\ B[k] = (IF k \in H THEN A[k] ELSE 0) /\ B[k] \in Nat
  <2> TAKE k \in 1..K
  <2>1. SentenceWeight[k] * words[k] \in Nat
    BY <1>3, <1>5
  <2>2. A[k] = SentenceWeight[k] * words[k] /\ B[k] = IF k \in H THEN A[k] ELSE 0
    BY <1>1, <1>5
  <2> HIDE DEF A, B, H
  <2> QED BY <2>1, <2>2
<1>7. PositionShare(s, target) = IF all = 0 THEN 0 ELSE (hit * Whole) \div all
  BY <1>1 DEF PositionShare, Weighted
<1> HIDE DEF A, B
<1>8. all \in Nat /\ \A k \in 1..K : A[k] <= all
  <2>1. \A k \in 1..K : A[k] \in Nat
    BY <1>6
  <2> QED BY <1>1, <2>1, SumNat, K \in 0..K
<1>9. hit \in Nat /\ (\A k \in 1..K : B[k] <= hit) /\ ((\A k \in 1..K : B[k] = 0) => hit = 0)
  <2>1. \A k \in 1..K : B[k] \in Nat
    BY <1>6
  <2> QED BY <1>1, <2>1, SumNat, K \in 0..K
<1>10. hit <= all
  <2>1. \A k \in 1..K : B[k] \in Int /\ A[k] \in Int /\ B[k] <= A[k]
    BY <1>6
  <2> QED BY <1>1, <2>1, SumLeq
<1>11. all <= Whole
  <2> DEFINE C == [k \in 1..K |-> A[k] * MaxTokens]
             D == [k \in 1..K |-> words[k] * Whole]
  <2>1. CASE MaxTokens = 0
    <3>1. K = 0
      BY <1>1, <1>2, <2>1
    <3>2. all = 0
      <4>1. \A k \in 1..0 : A[k] \in Int
        OBVIOUS
      <4> QED BY <3>1, <4>1, SumFacts
    <3> QED BY <1>2, <3>2
  <2>2. CASE MaxTokens > 0
    <3>1. \A k \in 1..K : A[k] \in Int /\ C[k] = A[k] * MaxTokens
      BY <1>6
    <3>2. \A k \in 1..K : words[k] \in Int /\ D[k] = words[k] * Whole
      BY <1>5
    <3>3. \A k \in 1..K : C[k] \in Int /\ D[k] \in Int /\ C[k] <= D[k]
      <4> TAKE k \in 1..K
      <4>1. \A u, v, x, y \in Nat : u * x <= y =>
               (u * v) * x \in Nat /\ v * y \in Nat /\ (u * v) * x <= v * y
        <5> TAKE u, v, x, y \in Nat
        <5> HAVE u * x <= y
        <5>1. (u * v) * x = v * (u * x) /\ u * x \in Nat
          OBVIOUS
        <5>2. \A p, q \in Nat : p <= q => v * p <= v * q
          OBVIOUS
        <5>3. v * (u * x) <= v * y
          BY <5>1, <5>2
        <5> QED BY <5>1, <5>3
      <4>2. (SentenceWeight[k] * words[k]) * MaxTokens \in Nat /\ words[k] * Whole \in Nat
            /\ (SentenceWeight[k] * words[k]) * MaxTokens <= words[k] * Whole
        BY <1>2, <1>3, <1>5, <4>1
      <4>3. C[k] = (SentenceWeight[k] * words[k]) * MaxTokens /\ D[k] = words[k] * Whole
        BY <1>6
      <4> HIDE DEF C, D
      <4> QED BY <4>2, <4>3
    <3> HIDE DEF C, D
    <3>4. SumTo(C, K) = all * MaxTokens
      BY <1>1, <1>2, <3>1, SumTimes, MaxTokens \in Int
    <3>5. SumTo(D, K) = SumTo(words, K) * Whole
      BY <1>1, <1>2, <3>2, SumTimes, Whole \in Int
    <3>6. SumTo(C, K) <= SumTo(D, K)
      BY <1>1, <3>3, SumLeq
    <3>7. SumTo(words, K) \in Nat
      <4>1. \A k \in 1..K : words[k] \in Nat
        BY <1>5
      <4> QED BY <1>1, <4>1, SumNat, K \in 0..K
    <3>8. SumTo(words, K) * Whole <= MaxTokens * Whole
      <4>1. \A u, v, x \in Nat : u <= v => u * x <= v * x
        OBVIOUS
      <4>2. SumTo(words, K) <= MaxTokens
        BY <1>2, <1>4, <3>7
      <4> QED BY <1>2, <3>7, <4>1, <4>2
    <3>9. all * MaxTokens <= Whole * MaxTokens
      <4>1. all * MaxTokens \in Int /\ SumTo(words, K) * Whole \in Int
            /\ MaxTokens * Whole = Whole * MaxTokens /\ MaxTokens * Whole \in Int
        BY <1>2, <1>8, <3>7
      <4> HIDE DEF all
      <4> QED BY <3>4, <3>5, <3>6, <3>8, <4>1
    <3>10. \A u, v, x \in Nat : x > 0 /\ u * x <= v * x => u <= v
      <4> TAKE u, v, x \in Nat
      <4> HAVE x > 0 /\ u * x <= v * x
      <4> SUFFICES ASSUME u >= v + 1 PROVE FALSE
        OBVIOUS
      <4>1. u * x >= (v + 1) * x /\ (v + 1) * x = v * x + x /\ u * x \in Int /\ v * x \in Int
        OBVIOUS
      <4> QED BY <4>1
    <3> QED BY <1>2, <1>8, <2>2, <3>9, <3>10
  <2> QED BY <1>2, <2>1, <2>2
<1>12. ASSUME NEW k \in 1..K, s[k].cites \cap target # {} PROVE hit > 0
  <2>1. k \in H /\ words[k] > 0
    BY <1>1, <1>5, <1>12
  <2>2. \A u, v \in Nat : u > 0 /\ v > 0 => u * v > 0
    OBVIOUS
  <2>3. A[k] > 0
    BY <1>3, <1>5, <1>6, <2>1, <2>2
  <2>4. B[k] = A[k]
    BY <1>6, <2>1
  <2>5. B[k] <= hit /\ B[k] \in Nat
    BY <1>6, <1>9
  <2> HIDE DEF hit
  <2> QED BY <1>9, <2>3, <2>4, <2>5
<1>13. ASSUME \A k \in 1..K : s[k].cites \cap target = {} PROVE hit = 0
  <2>1. \A k \in 1..K : k \notin H
    BY <1>13
  <2>2. \A k \in 1..K : B[k] = 0
    BY <1>6, <2>1
  <2> QED BY <1>9, <2>2
<1> HIDE DEF all, hit
<1>14. CASE all = 0
  <2>1. hit = 0 /\ PositionShare(s, target) = 0
    BY <1>7, <1>9, <1>10, <1>14
  <2>2. ~ \E k \in 1..K : s[k].cites \cap target # {}
    BY <1>12, <2>1
  <2> QED BY <1>2, <2>1, <2>2 DEF s, K
<1>15. CASE all # 0
  <2>1. /\ PositionShare(s, target) = (hit * Whole) \div all
        /\ all > 0
    BY <1>7, <1>8, <1>15
  <2>2. /\ (hit * Whole) \div all \in 0..Whole
        /\ hit = 0 => (hit * Whole) \div all = 0
        /\ hit > 0 => (hit * Whole) \div all > 0
    BY <1>2, <1>8, <1>9, <1>10, <1>11, <2>1, Division
  <2>3. hit > 0 <=> \E k \in 1..K : s[k].cites \cap target # {}
    BY <1>12, <1>13
  <2>4. hit > 0 \/ hit = 0
    BY <1>9
  <2> QED BY <2>1, <2>2, <2>3, <2>4 DEF s, K
<1> QED BY <1>14, <1>15

-----------------------------------------------------------------------------
\* The citations of the pages, and of all of them

\* Sentences 1..K, each with finitely many chunks cited, all of them in R
Citing(s, K, R) ==
    /\ K \in Nat /\ DOMAIN s = 1..K /\ Len(s) = K
    /\ \A k \in 1..K : s[k].cites \subseteq R /\ IsFiniteSet(s[k].cites)

\* Citations are counted sentence by sentence.
LEMMA HitsSum ==
    ASSUME NEW s, NEW K, NEW R, Citing(s, K, R), NEW A, NEW t,
           \A k \in 1..K : t[k] = Cardinality(s[k].cites \cap A)
    PROVE  /\ CitationHits(s, A) = SumTo(t, K) /\ CitationHits(s, A) \in Nat
           /\ \A k \in 1..K : t[k] \in Nat
           /\ (\A k \in 1..K : s[k].cites \cap A = {}) => CitationHits(s, A) = 0
<1> DEFINE u == [k \in DOMAIN s |-> Cardinality(s[k].cites \cap A)]
<1>1. CitationHits(s, A) = SumTo(u, K)
  BY DEF CitationHits, Citing
<1>2. \A k \in 1..K : u[k] = t[k]
  BY DEF Citing
<1>3. ASSUME NEW k \in 1..K PROVE t[k] \in Nat
  <2>1. IsFiniteSet(s[k].cites \cap A)
    <3>1. s[k].cites \cap A \in SUBSET s[k].cites /\ IsFiniteSet(s[k].cites)
      BY DEF Citing
    <3> QED BY <3>1, FS_Subset
  <2> QED BY <2>1, FS_CardinalityType
<1> HIDE DEF u
<1>4. K \in Nat
  BY DEF Citing
<1>5. SumTo(u, K) = SumTo(t, K)
  <2>1. \A k \in 1..K : u[k] \in Int /\ u[k] = t[k]
    BY <1>2, <1>3
  <2> QED BY <1>4, <2>1, SumSame
<1>6. SumTo(t, K) \in Nat /\ ((\A k \in 1..K : t[k] = 0) => SumTo(t, K) = 0)
  BY <1>3, <1>4, SumNat, K \in 0..K
<1>7. (\A k \in 1..K : s[k].cites \cap A = {}) => \A k \in 1..K : t[k] = 0
  BY FS_EmptySet
<1> QED BY <1>1, <1>3, <1>5, <1>6, <1>7

\* What is cited of two disjoint sets is cited of one or of the other.
LEMMA HitsSplit ==
    ASSUME NEW s, NEW K, NEW R, Citing(s, K, R), NEW A, NEW B, NEW C,
           A \cap B = {}, R \cap C = (R \cap A) \cup (R \cap B)
    PROVE  CitationHits(s, C) = CitationHits(s, A) + CitationHits(s, B)
<1> DEFINE a == [k \in 1..K |-> Cardinality(s[k].cites \cap A)]
           b == [k \in 1..K |-> Cardinality(s[k].cites \cap B)]
           c == [k \in 1..K |-> Cardinality(s[k].cites \cap C)]
<1>1. /\ \A k \in 1..K : a[k] = Cardinality(s[k].cites \cap A)
      /\ \A k \in 1..K : b[k] = Cardinality(s[k].cites \cap B)
      /\ \A k \in 1..K : c[k] = Cardinality(s[k].cites \cap C)
  OBVIOUS
<1> HIDE DEF a, b, c
<1>2. /\ CitationHits(s, A) = SumTo(a, K) /\ \A k \in 1..K : a[k] \in Nat
      /\ CitationHits(s, B) = SumTo(b, K) /\ \A k \in 1..K : b[k] \in Nat
      /\ CitationHits(s, C) = SumTo(c, K)
  BY <1>1, HitsSum
<1>3. ASSUME NEW k \in 1..K PROVE c[k] = a[k] + b[k]
  <2> DEFINE P == s[k].cites \cap A
             Q == s[k].cites \cap B
  <2>1. P \cup Q = s[k].cites \cap C /\ P \cap Q = {}
    BY DEF Citing
  <2>2. P \in SUBSET s[k].cites /\ Q \in SUBSET s[k].cites /\ IsFiniteSet(s[k].cites)
    BY DEF Citing
  <2>3. c[k] = Cardinality(s[k].cites \cap C) /\ a[k] = Cardinality(P) /\ b[k] = Cardinality(Q)
    BY <1>1
  <2> HIDE DEF P, Q
  <2>4. IsFiniteSet(P) /\ IsFiniteSet(Q)
    BY <2>2, FS_Subset
  <2>5. Cardinality(P \cup Q) = Cardinality(P) + Cardinality(Q) - Cardinality(P \cap Q)
    BY <2>4, FS_Union
  <2>6. Cardinality(P \cap Q) = 0
    BY <2>1, FS_EmptySet
  <2>7. a[k] \in Nat /\ b[k] \in Nat
    BY <1>2
  <2>8. c[k] = Cardinality(P \cup Q)
    BY <2>1, <2>3
  <2> QED BY <2>3, <2>5, <2>6, <2>7, <2>8
<1>4. K \in Nat /\ \A k \in 1..K : a[k] \in Int /\ b[k] \in Int /\ c[k] = a[k] + b[k]
  BY <1>2, <1>3 DEF Citing
<1>5. SumTo(c, K) = SumTo(a, K) + SumTo(b, K)
  BY <1>4, SumAdds
<1> QED BY <1>2, <1>5

\* The citations of the pages add up to those made, whatever order the pages are in.
LEMMA PagesAdd ==
    ASSUME NEW s, NEW K, NEW hits, Citing(s, K, Range(hits)), Range(hits) \subseteq Chunks,
           NEW pages \in [1..Cardinality(Docs) -> Docs], IsInjective(pages)
    PROVE  SumTo([i \in DOMAIN pages |-> CitationHits(s, ChunksOf(hits, pages[i]))],
                 Cardinality(Docs))
              = CitationHits(s, Chunks)
<1> DEFINE D == Cardinality(Docs)
           R == Range(hits)
           t == [i \in DOMAIN pages |-> CitationHits(s, ChunksOf(hits, pages[i]))]
           Of(m) == {c \in R : \E i \in 1..m : DocOf[c] = pages[i]}
           S == {m \in 0..D : SumTo(t, m) = CitationHits(s, Of(m))}
<1>1. D \in Nat /\ IsFiniteSet(Docs) /\ DocOf \in [Chunks -> Docs]
  BY AnswersAssumption, FS_CardinalityType
<1>2. \A A : CitationHits(s, A) \in Nat
  <2> TAKE A
  <2> DEFINE u == [k \in 1..K |-> Cardinality(s[k].cites \cap A)]
  <2>1. \A k \in 1..K : u[k] = Cardinality(s[k].cites \cap A)
    OBVIOUS
  <2> HIDE DEF u
  <2> QED BY <2>1, HitsSum
<1>3. pages \in [1..D -> Docs] /\ \A i, j \in 1..D : pages[i] = pages[j] => i = j
  BY DEF IsInjective
<1> HIDE DEF D, R
<1>4. \A i \in 1..D : t[i] = CitationHits(s, ChunksOf(hits, pages[i])) /\ t[i] \in Int
  <2> TAKE i \in 1..D
  <2>1. t[i] = CitationHits(s, ChunksOf(hits, pages[i]))
    BY <1>3
  <2>2. CitationHits(s, ChunksOf(hits, pages[i])) \in Nat
    BY <1>2
  <2> HIDE DEF t
  <2> QED BY <2>1, <2>2
<1> HIDE DEF t
<1>5. SumTo(t, 0) = 0 /\ \A m \in 1..D : SumTo(t, m) = SumTo(t, m - 1) + t[m]
  BY <1>1, <1>4, SumFacts
<1>6. 0 \in S
  <2> DEFINE u == [k \in 1..K |-> Cardinality(s[k].cites \cap Of(0))]
  <2>1. \A k \in 1..K : u[k] = Cardinality(s[k].cites \cap Of(0))
    OBVIOUS
  <2>2. Of(0) = {}
    OBVIOUS
  <2>3. \A k \in 1..K : s[k].cites \cap Of(0) = {}
    BY <2>2
  <2> HIDE DEF u, Of
  <2>4. CitationHits(s, Of(0)) = 0
    BY <2>1, <2>3, HitsSum
  <2> QED BY <1>1, <1>5, <2>4
<1>7. ASSUME NEW m \in 0..(D - 1), m \in S PROVE m + 1 \in S
  <2>1. m + 1 \in 1..D /\ (m + 1) - 1 = m /\ m + 1 \in 0..D /\ \A i \in 1..m : i \in 1..D
    BY <1>1
  <2> DEFINE A == Of(m)
             B == ChunksOf(hits, pages[m + 1])
             C == Of(m + 1)
  <2>2. A \cap B = {}
    <3>1. \A i \in 1..m : pages[i] # pages[m + 1]
      <4>1. \A i \in 1..m : i # m + 1
        OBVIOUS
      <4> QED BY <1>3, <2>1, <4>1
    <3> QED BY <3>1 DEF ChunksOf, R
  <2>3. R \cap C = (R \cap A) \cup (R \cap B)
    <3>1. \A i : i \in 1..(m + 1) <=> i \in 1..m \/ i = m + 1
      OBVIOUS
    <3> QED BY <3>1 DEF ChunksOf, R
  <2> HIDE DEF A, B, C, Of
  <2>4. CitationHits(s, C) = CitationHits(s, A) + CitationHits(s, B)
    BY <2>2, <2>3, HitsSplit DEF R
  <2>5. SumTo(t, m + 1) = SumTo(t, m) + t[m + 1] /\ t[m + 1] = CitationHits(s, B)
    BY <1>4, <1>5, <2>1 DEF B
  <2>6. SumTo(t, m) = CitationHits(s, A)
    BY <1>7 DEF A
  <2> QED BY <2>1, <2>4, <2>5, <2>6 DEF C
<1> HIDE DEF S
<1>8. 0..D \subseteq S
  BY <1>1, <1>6, <1>7, Climb
<1>9. SumTo(t, D) = CitationHits(s, Of(D))
  <2>1. D \in S
    BY <1>1, <1>8
  <2> QED BY <2>1 DEF S
<1>10. Of(D) = R
  <2>1. pages \in Surjection(1..D, Docs)
    <3>1. pages \in Injection(1..D, Docs)
      BY <1>3 DEF Injection, IsInjective
    <3>2. IsFiniteSet(1..D) /\ Cardinality(1..D) = D
      BY <1>1, Positions
    <3> QED BY <1>1, <3>1, <3>2, FS_Injection DEF D
  <2>2. \A d \in Docs : \E i \in 1..D : pages[i] = d
    BY <2>1 DEF Surjection
  <2>3. \A c \in R : DocOf[c] \in Docs
    BY <1>1 DEF R
  <2> QED BY <2>2, <2>3
<1>11. CitationHits(s, Of(D)) = CitationHits(s, Chunks)
  <2> DEFINE Q == Of(D)
  <2>1. Q = R
    BY <1>10
  <2> HIDE DEF Q, Of
  <2> DEFINE u == [k \in 1..K |-> Cardinality(s[k].cites \cap Q)]
             v == [k \in 1..K |-> Cardinality(s[k].cites \cap Chunks)]
  <2>2. /\ \A k \in 1..K : u[k] = Cardinality(s[k].cites \cap Q)
        /\ \A k \in 1..K : v[k] = Cardinality(s[k].cites \cap Chunks)
    OBVIOUS
  <2>3. \A k \in 1..K : s[k].cites \cap Q = s[k].cites \cap Chunks
    BY <2>1 DEF Citing, R
  <2>4. \A k \in 1..K : u[k] = v[k]
    BY <2>2, <2>3
  <2> HIDE DEF u, v
  <2>5. /\ CitationHits(s, Q) = SumTo(u, K) /\ \A k \in 1..K : u[k] \in Nat
        /\ CitationHits(s, Chunks) = SumTo(v, K)
    <3>1. \A k \in 1..K : u[k] = Cardinality(s[k].cites \cap Q)
      BY <2>2
    <3>2. \A k \in 1..K : v[k] = Cardinality(s[k].cites \cap Chunks)
      BY <2>2
    <3>3. CitationHits(s, Q) = SumTo(u, K) /\ \A k \in 1..K : u[k] \in Nat
      BY <3>1, HitsSum
    <3>4. CitationHits(s, Chunks) = SumTo(v, K)
      BY <3>2, HitsSum
    <3> QED BY <3>3, <3>4
  <2>6. K \in Nat /\ \A k \in 1..K : u[k] \in Int /\ u[k] = v[k]
    BY <2>4, <2>5 DEF Citing
  <2>7. SumTo(u, K) = SumTo(v, K)
    BY <2>6, SumSame
  <2> QED BY <2>5, <2>7 DEF Q
<1> QED BY <1>9, <1>11 DEF t, D

\* At least as many citations are made as chunks are cited.
LEMMA CitedOnce ==
    ASSUME NEW s, NEW K, NEW R, Citing(s, K, R), R \subseteq Chunks
    PROVE  LET cited == UNION {s[k].cites : k \in 1..K}
           IN IsFiniteSet(cited) /\ Cardinality(cited) <= CitationHits(s, Chunks)
<1> DEFINE U(m) == UNION {s[k].cites : k \in 1..m}
           t == [k \in 1..K |-> Cardinality(s[k].cites \cap Chunks)]
           S == {m \in 0..K : IsFiniteSet(U(m)) /\ Cardinality(U(m)) <= SumTo(t, m)}
<1>1. K \in Nat /\ \A k \in 1..K : s[k].cites \cap Chunks = s[k].cites /\ IsFiniteSet(s[k].cites)
  BY DEF Citing
<1>2. \A k \in 1..K : t[k] = Cardinality(s[k].cites \cap Chunks)
  OBVIOUS
<1> HIDE DEF t
<1>3. CitationHits(s, Chunks) = SumTo(t, K) /\ \A k \in 1..K : t[k] \in Nat
  BY <1>2, HitsSum
<1>4. /\ SumTo(t, 0) = 0
      /\ \A m \in 0..K : SumTo(t, m) \in Int
      /\ \A m \in 1..K : SumTo(t, m) = SumTo(t, m - 1) + t[m]
  <2>1. \A k \in 1..K : t[k] \in Int
    BY <1>3
  <2> QED BY <1>1, <2>1, SumFacts
<1>5. 0 \in S
  <2>1. U(0) = {}
    OBVIOUS
  <2> HIDE DEF U
  <2>2. IsFiniteSet(U(0)) /\ Cardinality(U(0)) = 0
    BY <2>1, FS_EmptySet
  <2>3. 0 \in 0..K /\ SumTo(t, 0) = 0
    BY <1>1, <1>4
  <2> QED BY <2>2, <2>3
<1>6. ASSUME NEW m \in 0..(K - 1), m \in S PROVE m + 1 \in S
  <2>1. m + 1 \in 1..K /\ (m + 1) - 1 = m /\ m + 1 \in 0..K /\ m \in 0..K
    BY <1>1
  <2> DEFINE P == U(m)
             Q == s[m + 1].cites
  <2>2. U(m + 1) = P \cup Q
    <3>1. \A i : i \in 1..(m + 1) <=> i \in 1..m \/ i = m + 1
      OBVIOUS
    <3> QED BY <3>1
  <2>3. IsFiniteSet(P) /\ Cardinality(P) <= SumTo(t, m)
    BY <1>6
  <2>4. IsFiniteSet(Q) /\ Cardinality(Q) = t[m + 1]
    BY <1>1, <1>2, <2>1
  <2> HIDE DEF P, Q, U
  <2>5. IsFiniteSet(P \cup Q)
        /\ Cardinality(P \cup Q) = Cardinality(P) + Cardinality(Q) - Cardinality(P \cap Q)
    BY <2>3, <2>4, FS_Union
  <2>6. IsFiniteSet(P \cap Q)
    BY <2>3, FS_Subset, P \cap Q \in SUBSET P
  <2>7. Cardinality(P) \in Nat /\ Cardinality(Q) \in Nat /\ Cardinality(P \cap Q) \in Nat
    BY <2>3, <2>4, <2>6, FS_CardinalityType
  <2>8. SumTo(t, m + 1) = SumTo(t, m) + t[m + 1] /\ SumTo(t, m) \in Int
    BY <1>4, <2>1
  <2>9. Cardinality(P \cup Q) <= SumTo(t, m + 1)
    BY <2>3, <2>4, <2>5, <2>7, <2>8
  <2> QED BY <2>1, <2>2, <2>5, <2>9
<1> HIDE DEF S
<1>7. 0..K \subseteq S
  BY <1>1, <1>5, <1>6, Climb
<1>8. K \in S
  BY <1>1, <1>7
<1> QED BY <1>3, <1>8 DEF S

-----------------------------------------------------------------------------
\* Visibility

\* The chunks an answer's in-range markers stand for
Meant(tokens, hits) == {hits[m] : m \in Range(tokens) \cap DOMAIN hits}

\* What the sentences of an answer cite is what its in-range markers stand for.
LEMMA AnswerCites ==
    ASSUME NEW tokens, NEW n, Answer(tokens, n), NEW hits, Ranking(hits)
    PROVE  LET s == ParseCitations(tokens, hits)
               K == SentencesOf(tokens, n)
           IN /\ Citing(s, K, Range(hits)) /\ Range(hits) \subseteq Chunks
              /\ UNION {s[k].cites : k \in 1..K} = Meant(tokens, hits)
<1> DEFINE s == ParseCitations(tokens, hits)
           K == SentencesOf(tokens, n)
<1>1. /\ DOMAIN s = 1..K /\ Len(s) = K /\ K \in Nat
      /\ \A k \in 1..K : s[k].cites \subseteq Range(hits) /\ IsFiniteSet(s[k].cites)
  BY CitationsAre
<1>2. \A k \in 1..K : \A c : c \in s[k].cites <=> StandsFor(tokens, n, hits, k, c)
  BY CitationsAre
<1>3. DOMAIN tokens = 1..n /\ \A i \in 1..n : SentenceAt(tokens, i) \in 1..K
  BY SentenceIs
<1>4. Range(hits) \subseteq Chunks /\ DOMAIN hits = 1..Len(hits)
  BY RangeIs, SeqFacts DEF Ranking
<1> HIDE DEF s, K
<1>5. Citing(s, K, Range(hits))
  BY <1>1 DEF Citing
<1>6. ASSUME NEW c PROVE (\E k \in 1..K : c \in s[k].cites) <=> c \in Meant(tokens, hits)
  <2>1. ASSUME NEW k \in 1..K, c \in s[k].cites PROVE c \in Meant(tokens, hits)
    <3>1. PICK i \in 1..n : tokens[i] \in 1..Len(hits) /\ hits[tokens[i]] = c
      BY <1>2, <2>1 DEF StandsFor
    <3>2. tokens[i] \in Range(tokens) \cap DOMAIN hits
      BY <1>3, <1>4, <3>1 DEF Range
    <3> QED BY <3>1, <3>2 DEF Meant
  <2>2. ASSUME c \in Meant(tokens, hits) PROVE \E k \in 1..K : c \in s[k].cites
    <3>1. PICK i \in 1..n : tokens[i] \in 1..Len(hits) /\ hits[tokens[i]] = c
      BY <1>3, <1>4, <2>2 DEF Meant, Range
    <3>2. PICK k \in 1..K : k = SentenceAt(tokens, i)
      BY <1>3
    <3>3. c \in s[k].cites
      BY <1>2, <3>1, <3>2 DEF StandsFor
    <3> QED BY <3>3
  <2> QED BY <2>1, <2>2
<1>7. UNION {s[k].cites : k \in 1..K} = Meant(tokens, hits)
  BY <1>6
<1> QED BY <1>4, <1>5, <1>7 DEF s, K

\* Every in-range marker of an answer is counted.
LEMMA MarkersCounted ==
    ASSUME NEW tokens, NEW n, Answer(tokens, n), NEW hits, Ranking(hits)
    PROVE  CitationHits(ParseCitations(tokens, hits), Chunks)
              >= Cardinality(Range(tokens) \cap DOMAIN hits)
<1> DEFINE s == ParseCitations(tokens, hits)
           K == SentencesOf(tokens, n)
           M == Range(tokens) \cap DOMAIN hits
           T == Meant(tokens, hits)
           f == [m \in M |-> hits[m]]
<1>1. /\ Citing(s, K, Range(hits)) /\ Range(hits) \subseteq Chunks
      /\ UNION {s[k].cites : k \in 1..K} = T
  BY AnswerCites
<1> HIDE DEF s, K
<1>2. IsFiniteSet(T) /\ Cardinality(T) <= CitationHits(s, Chunks)
  <2> HIDE DEF T
  <2> QED BY <1>1, CitedOnce
<1>3. f \in Injection(M, T)
  <2>1. f \in [M -> T]
    BY DEF Meant
  <2>2. \A a, b \in M : f[a] = f[b] => a = b
    BY DEF Ranking
  <2>3. IsInjective(f)
    <3> HIDE DEF M, T
    <3> QED BY <2>1, <2>2 DEF IsInjective
  <2> HIDE DEF f, M, T
  <2> QED BY <2>1, <2>3 DEF Injection
<1> HIDE DEF f, T
<1>4. IsFiniteSet(M) /\ Cardinality(M) <= Cardinality(T)
  <2> HIDE DEF M
  <2> QED BY <1>2, <1>3, FS_Injection
<1> HIDE DEF M
<1>5. Cardinality(M) \in Nat /\ Cardinality(T) \in Nat
  BY <1>2, <1>4, FS_CardinalityType
<1>6. CitationHits(s, Chunks) \in Nat
  <2> DEFINE t == [k \in 1..K |-> Cardinality(s[k].cites \cap Chunks)]
  <2>1. \A k \in 1..K : t[k] = Cardinality(s[k].cites \cap Chunks)
    OBVIOUS
  <2> HIDE DEF t
  <2> QED BY <1>1, <2>1, HitsSum
<1>7. CitationHits(s, Chunks) >= Cardinality(M)
  BY <1>2, <1>4, <1>5, <1>6
<1> QED BY <1>7 DEF s, M

\* What an answer gives a page
Gives(tokens, hits, d) ==
    IF ParseCitations(tokens, hits) = <<>> THEN 0
    ELSE PositionShare(ParseCitations(tokens, hits), ChunksOf(hits, d))

\* The pages an answer's in-range markers stand for
MeantPages(tokens, hits) == {DocOf[hits[m]] : m \in Range(tokens) \cap DOMAIN hits}

\* An answer gives a page a part of the whole, and something just when a marker stands for it.
LEMMA GivesCited ==
    ASSUME NEW tokens, NEW n, Answer(tokens, n), NEW hits, Ranking(hits), NEW d \in Docs
    PROVE  /\ Gives(tokens, hits, d) \in 0..Whole
           /\ Gives(tokens, hits, d) > 0 <=> d \in MeantPages(tokens, hits)
           /\ MeantPages(tokens, hits) \subseteq Docs
<1> DEFINE s == ParseCitations(tokens, hits)
           K == SentencesOf(tokens, n)
           share == PositionShare(s, ChunksOf(hits, d))
<1>1. /\ Citing(s, K, Range(hits)) /\ Range(hits) \subseteq Chunks
      /\ UNION {s[k].cites : k \in 1..K} = Meant(tokens, hits)
  BY AnswerCites
<1>2. /\ share \in 0..Whole
      /\ share > 0 <=> \E k \in 1..K : s[k].cites \cap ChunksOf(hits, d) # {}
  BY ShareIs
<1>3. K \in Nat /\ (s = <<>> => K = 0)
  BY CitationsAre
<1>4. Gives(tokens, hits, d) = IF s = <<>> THEN 0 ELSE share
  BY DEF Gives
<1>5. Whole \in Nat /\ DocOf \in [Chunks -> Docs]
  BY WeightsAssumption, AnswersAssumption
<1> HIDE DEF s, K, share
<1>6. \A c : c \in Meant(tokens, hits) <=> \E k \in 1..K : c \in s[k].cites
  BY <1>1
<1>7. \A k \in 1..K : s[k].cites \subseteq Range(hits)
  BY <1>1 DEF Citing
<1>8. MeantPages(tokens, hits) = {DocOf[c] : c \in Meant(tokens, hits)}
  BY DEF MeantPages, Meant
<1>9. (\E k \in 1..K : s[k].cites \cap ChunksOf(hits, d) # {}) <=> d \in MeantPages(tokens, hits)
  <2>1. ASSUME NEW k \in 1..K, s[k].cites \cap ChunksOf(hits, d) # {}
        PROVE  d \in MeantPages(tokens, hits)
    <3>1. PICK c \in s[k].cites : DocOf[c] = d
      BY <2>1 DEF ChunksOf
    <3> QED BY <1>6, <1>8, <3>1
  <2>2. ASSUME d \in MeantPages(tokens, hits)
        PROVE  \E k \in 1..K : s[k].cites \cap ChunksOf(hits, d) # {}
    <3>1. PICK c \in Meant(tokens, hits) : DocOf[c] = d
      BY <1>8, <2>2
    <3>2. PICK k \in 1..K : c \in s[k].cites
      BY <1>6, <3>1
    <3>3. c \in s[k].cites \cap ChunksOf(hits, d)
      BY <1>7, <3>1, <3>2 DEF ChunksOf
    <3> QED BY <3>3
  <2> QED BY <2>1, <2>2
<1>10. MeantPages(tokens, hits) \subseteq Docs
  <2>1. Meant(tokens, hits) \subseteq Chunks
    BY <1>1, <1>6, <1>7
  <2> QED BY <1>5, <1>8, <2>1
<1>11. CASE s = <<>>
  <2>1. Gives(tokens, hits, d) = 0 /\ K = 0
    BY <1>3, <1>4, <1>11
  <2>2. d \notin MeantPages(tokens, hits)
    BY <1>9, <2>1
  <2> QED BY <1>5, <1>10, <2>1, <2>2
<1>12. CASE s # <<>>
  BY <1>2, <1>4, <1>9, <1>10, <1>12
<1> QED BY <1>11, <1>12

-----------------------------------------------------------------------------
\* The run of a calibration

EarnedInv ==
    /\ asked \in Nat /\ earned \in [Docs -> Nat]
    /\ claimed \subseteq Docs /\ Visible = claimed
    /\ \A d \in Docs : earned[d] <= asked * Whole

AnswerInv ==
    /\ at = "answered" => \E n : /\ Answer(answer.tokens, n)
                                 /\ answer.sentences = ParseCitations(answer.tokens, retrieved)
    /\ at # "answered" => answer = NoAnswer

WeightsInv ==
    /\ weights.fitted => Cardinality(claimed) >= 2 /\ \E s \in Signals : weights.of[s] > 0
    /\ at # "done" => ~weights.fitted

VisibleInv == QueryInv /\ CommandInv /\ EarnedInv /\ AnswerInv /\ WeightsInv

\* Initially nobody has earned anything.
LEMMA InitVisible == ASSUME Init PROVE VisibleInv
<1>1. QueryInv /\ CommandInv
  BY InitQuery
<1>2. EarnedInv
  <2>1. asked = 0 /\ earned = [d \in Docs |-> 0] /\ claimed = {} /\ Whole \in Nat
    BY WeightsAssumption DEF Init
  <2>2. \A d \in Docs : earned[d] = 0
    BY <2>1
  <2>3. Visible = {}
    BY <2>2 DEF Visible
  <2>4. \A d \in Docs : earned[d] <= asked * Whole
    BY <2>1, <2>2
  <2> QED BY <2>1, <2>3, <2>4 DEF EarnedInv
<1>3. AnswerInv
  BY DEF Init, AnswerInv
<1>4. WeightsInv
  BY DEF Init, WeightsInv
<1> QED BY <1>1, <1>2, <1>3, <1>4 DEF VisibleInv

\* An answer makes visible the pages its markers stand for.
LEMMA AnsweredEarns ==
    ASSUME VisibleInv, Answered
    PROVE  EarnedInv' /\ AnswerInv' /\ WeightsInv'
<1>1. Ranking(retrieved) /\ EarnedInv /\ WeightsInv
  BY DEF VisibleInv, QueryInv
<1>2. PICK n \in 0..MaxTokens : \E tokens \in [1..n -> {Stop, Word} \cup Markers] :
          LET sentences == ParseCitations(tokens, retrieved)
          IN /\ answer' = [tokens |-> tokens, sentences |-> sentences]
             /\ earned' = [d \in Docs |-> earned[d]
                              + IF sentences = <<>> THEN 0
                                ELSE PositionShare(sentences, ChunksOf(retrieved, d))]
             /\ claimed' = claimed \cup
                   {DocOf[retrieved[m]] : m \in Range(tokens) \cap DOMAIN retrieved}
  BY DEF Answered
<1>3. PICK tokens \in [1..n -> {Stop, Word} \cup Markers] :
          /\ answer' = [tokens |-> tokens, sentences |-> ParseCitations(tokens, retrieved)]
          /\ earned' = [d \in Docs |-> earned[d] + Gives(tokens, retrieved, d)]
          /\ claimed' = claimed \cup MeantPages(tokens, retrieved)
  BY <1>2 DEF Gives, MeantPages
<1>4. Answer(tokens, n)
  BY DEF Answer
<1>5. /\ at = "answer" /\ at' = "answered" /\ asked' = asked + 1
      /\ retrieved' = retrieved /\ weights' = weights
  BY DEF Answered
<1>6. ASSUME NEW d \in Docs
      PROVE  /\ Gives(tokens, retrieved, d) \in 0..Whole
             /\ Gives(tokens, retrieved, d) > 0 <=> d \in MeantPages(tokens, retrieved)
             /\ MeantPages(tokens, retrieved) \subseteq Docs
  BY <1>1, <1>4, GivesCited
<1>7. EarnedInv'
  <2>1. asked \in Nat /\ Whole \in Nat /\ earned \in [Docs -> Nat]
    BY <1>1, WeightsAssumption DEF EarnedInv
  <2>2. \A d \in Docs : d \in claimed <=> earned[d] > 0
    BY <1>1 DEF EarnedInv, Visible
  <2>3. claimed' \subseteq Docs
    <3>1. MeantPages(tokens, retrieved) \subseteq Docs
      <4>1. CASE Docs # {}
        BY <1>6, <4>1
      <4>2. CASE Docs = {}
        <5>1. Range(retrieved) \subseteq Chunks /\ DocOf \in [Chunks -> Docs]
          BY <1>1, RangeIs, AnswersAssumption
        <5> QED BY <5>1 DEF MeantPages, Range
      <4> QED BY <4>1, <4>2
    <3> QED BY <1>1, <1>3, <3>1 DEF EarnedInv
  <2>4. ASSUME NEW d \in Docs
        PROVE  /\ earned'[d] \in Nat
               /\ d \in claimed' <=> earned'[d] > 0
               /\ earned'[d] <= asked' * Whole
    <3>1. earned'[d] = earned[d] + Gives(tokens, retrieved, d) /\ earned[d] \in Nat
      BY <1>3, <2>1
    <3>2. Gives(tokens, retrieved, d) \in Nat /\ Gives(tokens, retrieved, d) <= Whole
      BY <1>6, <2>1
    <3>3. d \in claimed' <=> d \in claimed \/ d \in MeantPages(tokens, retrieved)
      BY <1>3
    <3>4. d \in claimed' <=> earned'[d] > 0
      BY <1>6, <2>2, <3>1, <3>2, <3>3
    <3>5. earned[d] <= asked * Whole
      BY <1>1 DEF EarnedInv
    <3>6. (asked + 1) * Whole = asked * Whole + Whole /\ asked * Whole \in Nat
      BY <2>1
    <3> QED BY <1>5, <2>1, <3>1, <3>2, <3>4, <3>5, <3>6
  <2>5. earned' \in [Docs -> Nat]
    BY <1>3, <2>4
  <2>6. Visible' = claimed'
    <3>1. Visible' = {d \in Docs : earned'[d] > 0}
      BY DEF Visible
    <3> QED BY <2>3, <2>4, <3>1
  <2>7. asked' \in Nat
    BY <1>5, <2>1
  <2> QED BY <2>3, <2>4, <2>5, <2>6, <2>7 DEF EarnedInv
<1>8. AnswerInv'
  <2>1. answer'.tokens = tokens /\ answer'.sentences = ParseCitations(tokens, retrieved)
    BY <1>3
  <2>2. ParseCitations(answer.tokens, retrieved)' = ParseCitations(tokens, retrieved)
    BY <1>5, <2>1 DEF ParseCitations, Sentences, SentenceAt, WordsOf
  <2>3. Answer(answer.tokens, n)'
    BY <1>4, <2>1 DEF Answer
  <2> QED BY <1>5, <2>1, <2>2, <2>3 DEF AnswerInv
<1>9. WeightsInv'
  BY <1>1, <1>5 DEF WeightsInv
<1> QED BY <1>7, <1>8, <1>9

\* Weights are fitted to two visible pages at least.
LEMMA CalibrateFits ==
    ASSUME VisibleInv, CalibrateWeights
    PROVE  WeightsInv'
<1>1. claimed' = claimed /\ at' = "done" /\ Visible = claimed
  BY DEF CalibrateWeights, VisibleInv, EarnedInv
<1>2. ASSUME weights'.fitted
      PROVE  Cardinality(claimed') >= 2 /\ \E s \in Signals : weights'.of[s] > 0
  <2>1. weights' # Uniform
    BY <1>2 DEF Uniform
  <2>2. Fittable /\ weights' \in Fitted
    BY <2>1 DEF CalibrateWeights
  <2>3. PICK w \in [Signals -> Coefficients] : weights' = Normalized(w)
    BY <2>2 DEF Fitted
  <2>4. PICK s \in Signals : w[s] # 0
    BY <2>1, <2>3 DEF Normalized
  <2>5. weights' = [fitted |-> TRUE, of |-> w]
    BY <2>3, <2>4 DEF Normalized
  <2>6. w[s] \in Nat /\ w[s] > 0
    <3>1. Coefficients \subseteq Nat
      BY AnswersAssumption
    <3>2. w[s] \in Nat
      BY <3>1
    <3> QED BY <2>4, <3>2
  <2>7. Cardinality(claimed') >= 2
    BY <1>1, <2>2 DEF Fittable
  <2> QED BY <2>5, <2>6, <2>7
<1> QED BY <1>1, <1>2 DEF WeightsInv

\* Every step keeps what the pages have earned to what was cited.
LEMMA NextVisible ==
    ASSUME VisibleInv, [Next]_vars
    PROVE  VisibleInv'
<1>1. QueryInv' /\ CommandInv'
  BY NextQueryInv DEF VisibleInv
<1>2. ASSUME UNCHANGED <<asked, earned, claimed>> PROVE EarnedInv'
  <2>1. EarnedInv /\ Visible' = Visible
    BY <1>2 DEF VisibleInv, Visible
  <2> QED BY <1>2, <2>1 DEF EarnedInv
<1>3. ASSUME UNCHANGED <<claimed, weights>>, at' = "done" => at = "done" \/ ~weights.fitted,
             at' # "done" => at # "done"
      PROVE  WeightsInv'
  BY <1>3 DEF VisibleInv, WeightsInv
<1>4. ASSUME answer' = answer, at # "answered", at' # "answered" PROVE AnswerInv'
  BY <1>4 DEF VisibleInv, AnswerInv
<1>5. CASE Asked
  BY <1>1, <1>2, <1>3, <1>4, <1>5 DEF Asked, VisibleInv
<1>6. CASE Searched
  BY <1>1, <1>2, <1>3, <1>4, <1>6 DEF Searched, VisibleInv
<1>7. CASE Merged
  BY <1>1, <1>2, <1>3, <1>4, <1>7 DEF Merged, VisibleInv
<1>8. CASE Returned
  BY <1>1, <1>2, <1>3, <1>4, <1>8 DEF Returned, VisibleInv
<1>9. CASE Evaluated
  <2>1. ~weights.fitted
    BY <1>9 DEF Evaluated, VisibleInv, WeightsInv
  <2> QED BY <1>1, <1>2, <1>3, <1>4, <1>9, <2>1 DEF Evaluated, VisibleInv
<1>10. CASE Answered
  BY <1>1, <1>10, AnsweredEarns DEF VisibleInv
<1>11. CASE NextQuery
  <2>1. AnswerInv'
    BY <1>11 DEF NextQuery, AnswerInv, NoAnswer
  <2>2. EarnedInv'
    BY <1>2, <1>11 DEF NextQuery
  <2>3. WeightsInv'
    BY <1>3, <1>11 DEF NextQuery
  <2> QED BY <1>1, <2>1, <2>2, <2>3 DEF VisibleInv
<1>12. CASE CalibrateWeights
  <2>1. WeightsInv'
    BY <1>12, CalibrateFits
  <2>2. EarnedInv' /\ AnswerInv'
    BY <1>2, <1>4, <1>12 DEF CalibrateWeights
  <2> QED BY <1>1, <2>1, <2>2 DEF VisibleInv
<1>13. CASE UNCHANGED vars
  <2>1. /\ at' = at /\ answer' = answer /\ retrieved' = retrieved /\ claimed' = claimed
        /\ weights' = weights /\ asked' = asked /\ earned' = earned
    BY <1>13 DEF vars
  <2>2. EarnedInv'
    BY <1>2, <2>1
  <2>3. WeightsInv'
    BY <2>1 DEF VisibleInv, WeightsInv
  <2>4. AnswerInv'
    <3>1. ParseCitations(answer.tokens, retrieved)' = ParseCitations(answer.tokens, retrieved)
      BY <2>1 DEF ParseCitations, Sentences, SentenceAt, WordsOf
    <3>2. \A n : Answer(answer.tokens, n)' <=> Answer(answer.tokens, n)
      BY <2>1 DEF Answer
    <3> QED BY <2>1, <3>1, <3>2 DEF VisibleInv, AnswerInv
  <2> QED BY <1>1, <2>2, <2>3, <2>4 DEF VisibleInv
<1> QED BY <1>5, <1>6, <1>7, <1>8, <1>9, <1>10, <1>11, <1>12, <1>13 DEF Next

\* A page is visible just when the model really cited it, and the citations of the pages add
\* up to those made (geo/engine.py, geo/visibility.py, calibration.py).
THEOREM VisibilityHolds == Spec => []VisibilityEarned
<1>1. ASSUME VisibleInv PROVE VisibilityEarned
  <2>1. Ranking(retrieved) /\ EarnedInv /\ AnswerInv /\ WeightsInv
    BY <1>1 DEF VisibleInv, QueryInv
  <2> DEFINE s == answer.sentences
             M == Range(answer.tokens) \cap DOMAIN retrieved
  <2>2. \E K : /\ Citing(s, K, Range(retrieved))
               /\ CitationHits(s, Chunks) >= Cardinality(M)
    <3>1. CASE at = "answered"
      <4>1. PICK n : /\ Answer(answer.tokens, n)
                     /\ s = ParseCitations(answer.tokens, retrieved)
        BY <2>1, <3>1 DEF AnswerInv
      <4>2. Citing(s, SentencesOf(answer.tokens, n), Range(retrieved))
        BY <2>1, <4>1, AnswerCites
      <4>3. CitationHits(s, Chunks) >= Cardinality(M)
        BY <2>1, <4>1, MarkersCounted
      <4> QED BY <4>2, <4>3
    <3>2. CASE at # "answered"
      <4>1. s = <<>> /\ answer.tokens = <<>>
        BY <2>1, <3>2 DEF AnswerInv, NoAnswer
      <4>2. Citing(s, 0, Range(retrieved))
        BY <4>1 DEF Citing
      <4>3. Cardinality(M) = 0
        <5>1. M = {}
          BY <4>1 DEF Range
        <5> HIDE DEF M
        <5> QED BY <5>1, FS_EmptySet
      <4> DEFINE t == [k \in 1..0 |-> Cardinality(s[k].cites \cap Chunks)]
      <4>4. \A k \in 1..0 : t[k] = Cardinality(s[k].cites \cap Chunks)
        OBVIOUS
      <4> HIDE DEF t, s, M
      <4>5. CitationHits(s, Chunks) \in Nat
        BY <4>2, <4>4, HitsSum
      <4> QED BY <4>2, <4>3, <4>5
    <3> QED BY <3>1, <3>2
  <2>3. PICK K : /\ Citing(s, K, Range(retrieved))
                 /\ CitationHits(s, Chunks) >= Cardinality(M)
    BY <2>2
  <2> HIDE DEF s, M
  <2>4. ASSUME NEW pages \in [1..Cardinality(Docs) -> Docs], IsInjective(pages)
        PROVE  SumTo([i \in DOMAIN pages |-> CitationHits(s, ChunksOf(retrieved, pages[i]))],
                     Cardinality(Docs)) = CitationHits(s, Chunks)
    <3>1. Range(retrieved) \subseteq Chunks
      BY <2>1, RangeIs
    <3> QED BY <2>3, <2>4, <3>1, PagesAdd
  <2>5. Visible = claimed /\ \A d \in Docs : earned[d] <= asked * Whole
    BY <2>1 DEF EarnedInv
  <2>6. weights.fitted => Cardinality(claimed) >= 2 /\ \E q \in Signals : weights.of[q] > 0
    BY <2>1 DEF WeightsInv
  <2> QED BY <2>3, <2>4, <2>5, <2>6 DEF VisibilityEarned, s, M
<1> QED BY <1>1, InitVisible, NextVisible, PTL DEF Spec
=============================================================================
