---------------------------- MODULE JudgingProofs ----------------------------
(***************************************************************************)
(* What Judging guarantees of the chunks of a document and of the chunks    *)
(* that are judged to answer a query, for any pages, any chunkers their     *)
(* constructors allow and any queries, proved.                              *)
(*                                                                         *)
(* A text is the numbers of its words, so every piece of it is a run of     *)
(* numbers. Sentences are a run cut at places that grow, a group is         *)
(* consecutive sentences, so every chunk is a run again, and runs that      *)
(* follow each other up to the last word leave none out. How the words are  *)
(* spelled changes only once: to respell what was respelled changes no more. *)
(* The stack of extract_sections holds the open headings, so a section's    *)
(* path is that of each of its words. A passage is itself a run of          *)
(* sentences: where the groups of another chunker, or the windows of the    *)
(* text it is found in, are at least as long, one of them holds half of it, *)
(* and where sentences can be found in their text, offsets are those of the *)
(* words, and ranges overlap only where words are shared.                   *)
(***************************************************************************)
EXTENDS Judging, FiniteSetTheorems, WellFoundedInduction, TLAPS

-----------------------------------------------------------------------------
(* Numbers.                                                                *)

\* What a sequence is.
LEMMA SeqFacts ==
    ASSUME NEW S, NEW s \in Seq(S)
    PROVE  DOMAIN s = 1..Len(s) /\ Len(s) \in Nat /\ \A k \in DOMAIN s : s[k] \in S
OBVIOUS

\* The positions of a sequence are finitely many.
LEMMA Positions ==
    ASSUME NEW n \in Nat
    PROVE  IsFiniteSet(1..n) /\ Cardinality(1..n) = n
<1>1. IsFiniteSet(1..n) /\ Cardinality(1..n) = IF 1 > n THEN 0 ELSE n - 1 + 1
  BY FS_Interval, 1 \in Int, n \in Int
<1> QED BY <1>1

\* A set of numbers has a least one.
LEMMA Least ==
    ASSUME NEW S, S \subseteq Nat, S # {}
    PROVE  \E m \in S : \A n \in S : m <= n
<1> DEFINE R == OpToRel(<, Nat)
<1>1. IsWellFoundedOn(R, Nat)
  BY NatLessThanWellFounded
<1>2. PICK m \in S : \A n \in S : ~ (<<n, m>> \in R)
  BY <1>1, WFMin
<1>3. \A n \in S : ~(n < m)
  BY <1>2 DEF OpToRel
<1> QED BY <1>3

\* Min is the least of a set of numbers.
LEMMA MinIs ==
    ASSUME NEW S, S \subseteq Nat, S # {}
    PROVE  Min(S) \in S /\ \A n \in S : Min(S) <= n
<1>1. PICK m \in S : \A n \in S : m <= n
  BY Least
<1> QED BY <1>1 DEF Min

\* Max is the greatest of a bounded set of numbers.
LEMMA MaxIs ==
    ASSUME NEW S, NEW N \in Nat, S \subseteq 0..N, S # {}
    PROVE  Max(S) \in S /\ \A n \in S : Max(S) >= n
<1> DEFINE T == {k \in Nat : N - k \in S}
<1>1. T \subseteq Nat /\ T # {}
  <2>1. PICK n \in S : TRUE
    OBVIOUS
  <2>2. N - n \in Nat /\ N - (N - n) = n
    BY <2>1
  <2> QED BY <2>1, <2>2
<1>2. PICK m \in T : \A k \in T : m <= k
  BY <1>1, Least
<1>3. N - m \in S
  BY <1>2
<1>4. ASSUME NEW n \in S PROVE N - m >= n
  <2>1. N - n \in Nat /\ N - (N - n) = n
    OBVIOUS
  <2>2. m <= N - n
    BY <1>2, <2>1
  <2> QED BY <1>1, <1>2, <2>1, <2>2
<1> QED BY <1>3, <1>4 DEF Max

\* Induction up to a number, for a set
LEMMA Climb ==
    ASSUME NEW N \in Nat, NEW S, 0 \in S, \A n \in 0..(N - 1) : n \in S => n + 1 \in S
    PROVE  0..N \subseteq S
<1> SUFFICES ASSUME NEW k \in 0..N, k \notin S PROVE FALSE
  OBVIOUS
<1> DEFINE T == {n \in 0..N : n \notin S}
<1>1. T \subseteq Nat /\ T # {}
  OBVIOUS
<1>2. PICK m \in T : \A n \in T : m <= n
  BY <1>1, Least
<1>3. m # 0 /\ m \in 1..N /\ m - 1 \in 0..(N - 1) /\ m - 1 \in 0..N
  BY <1>2
<1>4. m - 1 \in S
  BY <1>2, <1>3
<1>5. (m - 1) + 1 \in S /\ (m - 1) + 1 = m
  BY <1>3, <1>4
<1> QED BY <1>2, <1>5

Recursive(f, N, V, base, step) ==
    f \in [0..N -> V] /\ f[0] = base /\ \A n \in 1..N : f[n] = step[n][f[n - 1]]

\* A function on 0..N may be defined by recursion over a set.
LEMMA RecursionExists ==
    ASSUME NEW N \in Nat, NEW V, NEW base \in V, NEW step \in [1..N -> [V -> V]]
    PROVE  \E f : Recursive(f, N, V, base, step)
<1> DEFINE S == {m \in 0..N : \E f \in [0..m -> V] :
                    f[0] = base /\ \A n \in 1..m : f[n] = step[n][f[n - 1]]}
<1>1. 0 \in S
  <2> DEFINE f == [n \in 0..0 |-> base]
  <2>1. f \in [0..0 -> V] /\ f[0] = base /\ \A n \in 1..0 : f[n] = step[n][f[n - 1]]
    OBVIOUS
  <2>2. 0 \in 0..N
    OBVIOUS
  <2> HIDE DEF f
  <2> QED BY <2>1, <2>2
<1>2. ASSUME NEW m \in 0..(N - 1), m \in S
      PROVE  m + 1 \in S
  <2>1. PICK f \in [0..m -> V] : f[0] = base /\ \A n \in 1..m : f[n] = step[n][f[n - 1]]
    BY <1>2
  <2> DEFINE g == [n \in 0..(m + 1) |-> IF n = m + 1 THEN step[m + 1][f[m]] ELSE f[n]]
  <2>2. m + 1 \in 1..N /\ m \in 0..m /\ m + 1 \in 0..N /\ m + 1 \in 0..(m + 1)
    OBVIOUS
  <2>3. step[m + 1][f[m]] \in V
    BY <2>1, <2>2
  <2>4. \A n \in 0..(m + 1) : n = m + 1 \/ n \in 0..m
    OBVIOUS
  <2>5. g \in [0..(m + 1) -> V]
    BY <2>1, <2>3, <2>4
  <2>6. 0 \in 0..(m + 1) /\ g[0] = base
    BY <2>1
  <2>7. ASSUME NEW n \in 1..(m + 1) PROVE g[n] = step[n][g[n - 1]]
    <3>1. CASE n = m + 1
      <4>1. n - 1 = m /\ m \in 0..(m + 1) /\ m # m + 1
        BY <3>1
      <4>2. g[n - 1] = f[m] /\ g[n] = step[m + 1][f[m]]
        BY <2>2, <3>1, <4>1
      <4> QED BY <3>1, <4>2
    <3>2. CASE n # m + 1
      <4>1. n \in 1..m /\ n - 1 \in 0..m /\ n \in 0..(m + 1) /\ n - 1 \in 0..(m + 1)
            /\ n - 1 # m + 1
        BY <3>2
      <4>2. g[n] = f[n] /\ g[n - 1] = f[n - 1]
        BY <3>2, <4>1
      <4> QED BY <2>1, <4>1, <4>2
    <3> QED BY <3>1, <3>2
  <2> HIDE DEF g
  <2> QED BY <2>2, <2>5, <2>6, <2>7
<1> HIDE DEF S
<1>3. 0..N \subseteq S
  BY <1>1, <1>2, Climb
<1>4. N \in S
  BY <1>3
<1> QED BY <1>4 DEF S, Recursive


-----------------------------------------------------------------------------
(* Runs: the numbers from one to another.                                  *)

\* Two sequences of the same members in the same places are one.
LEMMA SeqEqual ==
    ASSUME NEW S, NEW s \in Seq(S), NEW t \in Seq(S), Len(s) = Len(t),
           \A i \in 1..Len(s) : s[i] = t[i]
    PROVE  s = t
OBVIOUS

\* The lesser and the greater of two numbers
LEMMA MinOfTwo ==
    ASSUME NEW a \in Int, NEW b \in Int
    PROVE  Min({a, b}) = IF a <= b THEN a ELSE b
<1>1. \E x \in {a, b} : \A y \in {a, b} : x <= y
  OBVIOUS
<1> QED BY <1>1 DEF Min

\* The greater of two numbers.
LEMMA MaxOfTwo ==
    ASSUME NEW a \in Int, NEW b \in Int
    PROVE  Max({a, b}) = IF a >= b THEN a ELSE b
<1>1. \E x \in {a, b} : \A y \in {a, b} : x >= y
  OBVIOUS
<1> QED BY <1>1 DEF Max

\* What a run is, empty where it ends before it begins.
LEMMA RunIs ==
    ASSUME NEW a \in Nat, NEW b \in Int, a - 1 <= b
    PROVE  /\ Run(a, b) \in Seq(Nat) /\ Len(Run(a, b)) = b - a + 1
           /\ DOMAIN Run(a, b) = 1..(b - a + 1)
           /\ \A i \in 1..(b - a + 1) : Run(a, b)[i] = a + i - 1
           /\ Run(a, b) = <<>> <=> b = a - 1
<1>1. b - a + 1 \in Nat /\ \A i \in 1..(b - a + 1) : a + i - 1 \in Nat
  OBVIOUS
<1>2. Run(a, b) \in [1..(b - a + 1) -> Nat]
  BY <1>1 DEF Run
<1>3. \A i \in 1..(b - a + 1) : Run(a, b)[i] = a + i - 1
  BY DEF Run
<1>4. Run(a, b) \in Seq(Nat) /\ Len(Run(a, b)) = b - a + 1
  BY <1>1, <1>2
<1> QED BY <1>1, <1>2, <1>3, <1>4

\* The members of a run.
LEMMA RunRange ==
    ASSUME NEW a \in Nat, NEW b \in Int, a - 1 <= b
    PROVE  Range(Run(a, b)) = a..b
<1>1. ASSUME NEW x \in a..b PROVE x \in Range(Run(a, b))
  <2>1. x - a + 1 \in 1..(b - a + 1) /\ a + (x - a + 1) - 1 = x
    OBVIOUS
  <2>2. /\ x - a + 1 \in DOMAIN Run(a, b)
        /\ Run(a, b)[x - a + 1] = a + (x - a + 1) - 1
    BY <2>1, RunIs
  <2> QED BY <2>1, <2>2 DEF Range
<1>2. ASSUME NEW x \in Range(Run(a, b)) PROVE x \in a..b
  <2>1. PICK i \in DOMAIN Run(a, b) : x = Run(a, b)[i]
    BY DEF Range
  <2>2. i \in 1..(b - a + 1) /\ x = a + i - 1
    BY <2>1, RunIs
  <2> QED BY <2>2
<1> QED BY <1>1, <1>2

\* A run and the one that begins behind it are one.
LEMMA RunsJoin ==
    ASSUME NEW a \in Nat, NEW b \in Int, NEW c \in Int, a - 1 <= b, b <= c
    PROVE  Run(a, b) \o Run(b + 1, c) = Run(a, c)
<1> DEFINE s == Run(a, b)
           t == Run(b + 1, c)
           u == Run(a, c)
<1>1. b + 1 \in Nat /\ (b + 1) - 1 <= c /\ a - 1 <= c
  OBVIOUS
<1>2. /\ s \in Seq(Nat) /\ Len(s) = b - a + 1 /\ \A i \in 1..(b - a + 1) : s[i] = a + i - 1
      /\ u \in Seq(Nat) /\ Len(u) = c - a + 1 /\ \A i \in 1..(c - a + 1) : u[i] = a + i - 1
  BY <1>1, RunIs
<1>3. /\ t \in Seq(Nat) /\ Len(t) = c - (b + 1) + 1
      /\ \A i \in 1..(c - (b + 1) + 1) : t[i] = (b + 1) + i - 1
  BY <1>1, RunIs
<1> HIDE DEF s, t, u
<1>4. s \o t \in Seq(Nat) /\ Len(s \o t) = Len(u)
  BY <1>2, <1>3
<1>5. ASSUME NEW i \in 1..Len(s \o t) PROVE (s \o t)[i] = u[i]
  <2>1. i \in 1..(c - a + 1)
    BY <1>2, <1>4
  <2>2. CASE i <= Len(s)
    <3>1. i \in 1..(b - a + 1)
      BY <1>2, <2>1, <2>2
    <3> QED BY <1>2, <1>3, <2>1, <2>2, <3>1
  <2>3. CASE i > Len(s)
    <3>1. i - Len(s) \in 1..(c - (b + 1) + 1) /\ Len(s) = b - a + 1
      BY <1>2, <2>1, <2>3
    <3>2. (s \o t)[i] = t[i - Len(s)]
      BY <1>2, <1>3, <2>1, <2>3, <3>1
    <3> QED BY <1>2, <1>3, <2>1, <3>1, <3>2
  <2> QED BY <1>2, <2>1, <2>2, <2>3
<1>6. s \o t = u
  BY <1>2, <1>4, <1>5, SeqEqual
<1> QED BY <1>6 DEF s, t, u

\* A run may be lengthened by the next number.
LEMMA RunGrows ==
    ASSUME NEW a \in Nat, NEW b \in Int, a - 1 <= b
    PROVE  Append(Run(a, b), b + 1) = Run(a, b + 1)
<1> DEFINE s == Run(a, b)
           u == Run(a, b + 1)
<1>1. b + 1 \in Nat /\ a - 1 <= b + 1
  OBVIOUS
<1>2. s \in Seq(Nat) /\ Len(s) = b - a + 1 /\ \A i \in 1..(b - a + 1) : s[i] = a + i - 1
  BY RunIs
<1>3. /\ u \in Seq(Nat) /\ Len(u) = b + 1 - a + 1
      /\ \A i \in 1..(b + 1 - a + 1) : u[i] = a + i - 1
  BY <1>1, RunIs
<1> HIDE DEF s, u
<1>4. Append(s, b + 1) \in Seq(Nat) /\ Len(Append(s, b + 1)) = Len(u)
  BY <1>1, <1>2, <1>3
<1>5. ASSUME NEW i \in 1..Len(u) PROVE Append(s, b + 1)[i] = u[i]
  <2>1. CASE i <= Len(s)
    BY <1>1, <1>2, <1>3, <2>1
  <2>2. CASE i > Len(s)
    <3>1. i = Len(s) + 1
      BY <1>2, <1>3, <2>2
    <3> QED BY <1>1, <1>2, <1>3, <3>1
  <2> QED BY <1>2, <1>3, <2>1, <2>2
<1>6. Append(s, b + 1) = u
  BY <1>3, <1>4, <1>5, SeqEqual
<1> QED BY <1>6 DEF s, u

\* A part of a run is a run.
LEMMA RunPart ==
    ASSUME NEW a \in Nat, NEW b \in Int, a - 1 <= b,
           NEW lo \in Nat \ {0}, NEW hi \in Nat, lo - 1 <= hi, hi <= b - a + 1
    PROVE  SubSeq(Run(a, b), lo, hi) = Run(a + lo - 1, a + hi - 1)
<1> DEFINE p == a + lo - 1
           q == a + hi - 1
           s == Run(a, b)
           u == Run(p, q)
           v == SubSeq(s, lo, hi)
<1>1. p \in Nat /\ q \in Int /\ p - 1 <= q /\ q - p + 1 = hi - lo + 1 /\ p = a + lo - 1
  OBVIOUS
<1>2. s \in Seq(Nat) /\ Len(s) = b - a + 1 /\ \A i \in 1..(b - a + 1) : s[i] = a + i - 1
  BY RunIs
<1>3. /\ u \in Seq(Nat) /\ Len(u) = hi - lo + 1
      /\ \A i \in 1..(hi - lo + 1) : u[i] = p + i - 1
  <2> HIDE DEF p, q
  <2>1. /\ u \in Seq(Nat) /\ Len(u) = q - p + 1
        /\ \A i \in 1..(q - p + 1) : u[i] = p + i - 1
    BY <1>1, RunIs
  <2>2. q - p + 1 = hi - lo + 1
    BY <1>1
  <2> HIDE DEF u
  <2> QED BY <2>1, <2>2
<1> HIDE DEF s, u, p, q
<1>4. \A i \in 1..(hi - lo + 1) : lo + i - 1 \in 1..(b - a + 1)
  OBVIOUS
<1>5. v \in Seq(Nat) /\ Len(v) = hi - lo + 1 /\ \A i \in 1..(hi - lo + 1) : v[i] = s[lo + i - 1]
  <2>1. hi - lo + 1 \in Nat
    OBVIOUS
  <2>2. \A i \in 1..(hi - lo + 1) : s[lo + i - 1] \in Nat
    BY <1>2, <1>4
  <2> QED BY <1>2, <1>4, <2>1, <2>2
<1> HIDE DEF v
<1>6. ASSUME NEW i \in 1..Len(v) PROVE v[i] = u[i]
  <2> DEFINE k == lo + i - 1
  <2>1. i \in 1..(hi - lo + 1)
    BY <1>5
  <2>2. k \in 1..(b - a + 1) /\ v[i] = s[k]
    BY <1>4, <1>5, <2>1
  <2>3. a + k - 1 = p + i - 1
    BY <1>1, <2>1
  <2> HIDE DEF k
  <2>4. s[k] = a + k - 1
    BY <1>2, <2>2
  <2>5. u[i] = p + i - 1
    BY <1>3, <2>1
  <2> QED BY <2>2, <2>3, <2>4, <2>5
<1>7. Len(u) = Len(v)
  BY <1>3, <1>5
<1>8. u = v
  BY <1>3, <1>5, <1>6, <1>7, SeqEqual
<1> QED BY <1>8 DEF u, v, s, p, q

-----------------------------------------------------------------------------
(* Numbers in their order, and sequences cut at them.                      *)

Upto(S, x) == {j \in S : j <= x}

\* Every number of a finite set has a place of its own, and every place a number.
LEMMA KthIs ==
    ASSUME NEW S, S \subseteq Nat, IsFiniteSet(S)
    PROVE  /\ Cardinality(S) \in Nat
           /\ \A k \in 1..Cardinality(S) : Kth(S, k) \in S
           /\ \A j, k \in 1..Cardinality(S) : j < k => Kth(S, j) < Kth(S, k)
           /\ \A x \in S : \E k \in 1..Cardinality(S) : Kth(S, k) = x
<1> DEFINE n == Cardinality(S)
           P(x) == Cardinality(Upto(S, x))
           f == [x \in S |-> P(x)]
<1>1. n \in Nat
  BY FS_CardinalityType
<1>2. ASSUME NEW x \in S PROVE x \in Upto(S, x) /\ IsFiniteSet(Upto(S, x)) /\ P(x) \in 1..n
  <2>1. Upto(S, x) \in SUBSET S /\ x \in Upto(S, x)
    BY DEF Upto
  <2>2. IsFiniteSet(Upto(S, x)) /\ P(x) <= n
    BY <2>1, FS_Subset
  <2>3. P(x) \in Nat /\ P(x) # 0
    BY <2>1, <2>2, FS_CardinalityType, FS_EmptySet
  <2> QED BY <1>1, <2>1, <2>2, <2>3
<1>3. ASSUME NEW x \in S, NEW y \in S, x < y PROVE P(x) < P(y)
  <2>1. Upto(S, x) \in SUBSET Upto(S, y)
    <3>1. ASSUME NEW j \in S, j <= x PROVE j <= y
      <4>1. j \in Nat /\ x \in Nat /\ y \in Nat
        OBVIOUS
      <4> QED BY <1>3, <3>1, <4>1
    <3> QED BY <3>1 DEF Upto
  <2>2. y \notin Upto(S, x)
    BY <1>3 DEF Upto
  <2>3. P(x) <= P(y) /\ (P(x) = P(y) => Upto(S, y) = Upto(S, x))
    BY <1>2, <2>1, FS_Subset
  <2>4. P(x) # P(y)
    BY <1>2, <2>2, <2>3
  <2>5. P(x) \in Nat /\ P(y) \in Nat
    BY <1>2
  <2> QED BY <2>3, <2>4, <2>5
<1>4. \A x, y \in S : x < y \/ y < x \/ x = y
  OBVIOUS
<1>5. f \in Injection(S, 1..n)
  <2>1. f \in [S -> 1..n]
    BY <1>2
  <2>2. ASSUME NEW x \in S, NEW y \in S, f[x] = f[y] PROVE x = y
    <3>1. P(x) = P(y) /\ P(x) \in Nat
      BY <1>2, <2>2
    <3>2. ~(x < y) /\ ~(y < x)
      <4> HIDE DEF P
      <4> QED BY <1>3, <3>1
    <3> QED BY <1>4, <3>2
  <2> HIDE DEF f
  <2> QED BY <2>1, <2>2 DEF Injection, IsInjective
<1>6. f \in Surjection(S, 1..n)
  <2>1. IsFiniteSet(1..n) /\ Cardinality(1..n) = n
    BY <1>1, Positions
  <2> HIDE DEF f
  <2> QED BY <1>5, <2>1, FS_Injection
<1>7. ASSUME NEW k \in 1..n PROVE Kth(S, k) \in S /\ P(Kth(S, k)) = k
  <2>1. \E x \in S : f[x] = k
    <3> HIDE DEF f
    <3> QED BY <1>6 DEF Surjection
  <2>2. \E x \in S : P(x) = k
    BY <2>1
  <2>3. Kth(S, k) = CHOOSE x \in S : P(x) = k
    BY DEF Kth, Upto
  <2> HIDE DEF P
  <2> QED BY <2>2, <2>3
<1>8. ASSUME NEW j \in 1..n, NEW k \in 1..n, j < k PROVE Kth(S, j) < Kth(S, k)
  <2>1. /\ Kth(S, j) \in S /\ P(Kth(S, j)) = j
        /\ Kth(S, k) \in S /\ P(Kth(S, k)) = k
    BY <1>7
  <2> HIDE DEF P
  <2>2. Kth(S, k) < Kth(S, j) => P(Kth(S, k)) < P(Kth(S, j))
    BY <1>3, <2>1
  <2>3. ~(k < j) /\ k # j
    BY <1>1, <1>8
  <2>4. ~(Kth(S, k) < Kth(S, j)) /\ Kth(S, k) # Kth(S, j)
    BY <2>1, <2>2, <2>3
  <2> QED BY <1>4, <2>1, <2>4
<1>9. ASSUME NEW x \in S PROVE \E k \in 1..n : Kth(S, k) = x
  <2>1. P(x) \in 1..n /\ Kth(S, P(x)) \in S /\ P(Kth(S, P(x))) = P(x)
    BY <1>2, <1>7
  <2> HIDE DEF P
  <2>2. /\ Kth(S, P(x)) < x => P(Kth(S, P(x))) < P(x)
        /\ x < Kth(S, P(x)) => P(x) < P(Kth(S, P(x)))
    BY <1>3, <2>1
  <2>3. ~(P(x) < P(x))
    BY <1>1, <2>1
  <2>4. ~(Kth(S, P(x)) < x) /\ ~(x < Kth(S, P(x)))
    BY <2>1, <2>2, <2>3
  <2>5. Kth(S, P(x)) = x
    BY <1>4, <2>1, <2>4
  <2> QED BY <2>1, <2>5
<1> QED BY <1>1, <1>7, <1>8, <1>9

\* Cuts: the places, from a first to a last, between which pieces lie.
Cuts(c, m, from, to) ==
    /\ m \in Nat /\ c \in [0..m -> Nat]
    /\ c[0] = from /\ c[m] = to
    /\ \A k \in 1..m : c[k - 1] < c[k]

\* Cuts grow all the way.
LEMMA CutsGrow ==
    ASSUME NEW c, NEW m, NEW from, NEW to, Cuts(c, m, from, to)
    PROVE  /\ \A j, k \in 0..m : j < k => c[j] < c[k]
           /\ \A k \in 0..m : c[k] \in from..to
<1>1. m \in Nat /\ c \in [0..m -> Nat] /\ c[0] = from /\ c[m] = to
      /\ \A k \in 1..m : c[k - 1] < c[k]
  BY DEF Cuts
<1>2. ASSUME NEW j \in 0..m PROVE \A k \in 0..m : j < k => c[j] < c[k]
  <2> DEFINE S == {k \in 0..m : j < k => c[j] < c[k]}
  <2>1. 0 \in S
    BY <1>1
  <2>2. ASSUME NEW k \in 0..(m - 1), k \in S PROVE k + 1 \in S
    <3>1. k + 1 \in 1..m /\ (k + 1) - 1 = k /\ k \in 0..m /\ k + 1 \in 0..m
      BY <1>1
    <3>2. c[k] < c[k + 1] /\ c[k] \in Nat /\ c[k + 1] \in Nat /\ c[j] \in Nat
      BY <1>1, <3>1
    <3>3. j < k + 1 => j = k \/ j < k
      BY <1>1, <3>1
    <3> QED BY <2>2, <3>1, <3>2, <3>3
  <2> HIDE DEF S
  <2>3. 0..m \subseteq S
    BY <1>1, <2>1, <2>2, Climb
  <2> QED BY <2>3 DEF S
<1>3. ASSUME NEW k \in 0..m PROVE c[k] \in from..to
  <2>1. 0 \in 0..m /\ m \in 0..m /\ (k = 0 \/ 0 < k) /\ (k = m \/ k < m)
    BY <1>1
  <2>2. c[0] \in Nat /\ c[m] \in Nat /\ c[k] \in Nat
    BY <1>1, <2>1
  <2>3. c[0] <= c[k] /\ c[k] <= c[m]
    BY <1>2, <2>1, <2>2
  <2> QED BY <1>1, <2>2, <2>3
<1> QED BY <1>2, <1>3

\* Every place lies in a piece.
LEMMA CutsCover ==
    ASSUME NEW c, NEW m, NEW from, NEW to, Cuts(c, m, from, to), NEW x \in Nat, from < x, x <= to
    PROVE  \E k \in 1..m : c[k - 1] < x /\ x <= c[k]
<1>1. m \in Nat /\ c \in [0..m -> Nat] /\ c[0] = from /\ c[m] = to
  BY DEF Cuts
<1> DEFINE S == {k \in 0..m : x <= c[k]}
<1>2. m \in S /\ S \subseteq Nat
  BY <1>1
<1>3. PICK k \in S : \A j \in S : k <= j
  BY <1>2, Least
<1>4. k # 0
  BY <1>1
<1>5. k \in 1..m /\ k - 1 \in 0..m /\ ~(k <= k - 1)
  BY <1>1, <1>4
<1>6. ~(x <= c[k - 1]) /\ c[k - 1] \in Nat
  BY <1>1, <1>3, <1>5
<1> QED BY <1>5, <1>6

\* Where a sequence of n members is cut
CutAt(ends) == [k \in 0..Cardinality(ends) |-> IF k = 0 THEN 0 ELSE Kth(ends, k)]

\* Places to cut at, taken in order, are cuts.
LEMMA CutsAre ==
    ASSUME NEW n \in Nat, NEW ends, ends \subseteq 1..n, n # 0 => n \in ends
    PROVE  /\ Cuts(CutAt(ends), Cardinality(ends), 0, n)
           /\ \A k \in 1..Cardinality(ends) : CutAt(ends)[k] \in ends
           /\ \A x \in ends : \E k \in 1..Cardinality(ends) : CutAt(ends)[k] = x
<1> DEFINE m == Cardinality(ends)
           c == CutAt(ends)
<1>1. IsFiniteSet(ends)
  BY Positions, FS_Subset
<1>2. /\ m \in Nat
      /\ \A k \in 1..m : Kth(ends, k) \in ends
      /\ \A j, k \in 1..m : j < k => Kth(ends, j) < Kth(ends, k)
      /\ \A x \in ends : \E k \in 1..m : Kth(ends, k) = x
  <2>1. ends \subseteq Nat
    OBVIOUS
  <2> QED BY <1>1, <2>1, KthIs
<1> HIDE DEF m
<1>3. c = [k \in 0..m |-> IF k = 0 THEN 0 ELSE Kth(ends, k)]
  BY DEF CutAt, m
<1> HIDE DEF c
<1>4. c[0] = 0 /\ \A k \in 1..m : c[k] = Kth(ends, k)
  BY <1>2, <1>3
<1>5. c \in [0..m -> Nat]
  <2>1. \A k \in 0..m : k = 0 \/ k \in 1..m
    BY <1>2
  <2>2. \A k \in 1..m : Kth(ends, k) \in Nat
    <3>1. \A x \in ends : x \in Nat
      OBVIOUS
    <3> QED BY <1>2, <3>1
  <2> QED BY <1>3, <2>1, <2>2
<1>6. ASSUME NEW k \in 1..m PROVE c[k - 1] < c[k] /\ c[k] \in ends
  <2>1. CASE k = 1
    <3>1. Kth(ends, 1) \in ends /\ 1 - 1 = 0
      BY <1>2, <2>1
    <3>2. \A x \in ends : 0 < x
      OBVIOUS
    <3>3. 0 < Kth(ends, 1)
      BY <3>1, <3>2
    <3> QED BY <1>4, <2>1, <3>1, <3>3
  <2>2. CASE k # 1
    <3>1. k - 1 \in 1..m /\ k - 1 < k
      BY <1>2, <2>2
    <3> QED BY <1>2, <1>4, <3>1
  <2> QED BY <2>1, <2>2
<1>7. c[m] = n
  <2>1. CASE n = 0
    <3>1. ends = {}
      BY <2>1
    <3>2. m = 0
      BY <3>1, FS_EmptySet DEF m
    <3> QED BY <1>4, <2>1, <3>2
  <2>2. CASE n # 0
    <3>1. PICK k \in 1..m : Kth(ends, k) = n
      BY <1>2, <2>2
    <3>2. m \in 1..m
      BY <1>2, <3>1
    <3>3. Kth(ends, m) \in ends /\ (k < m => n < Kth(ends, m))
      BY <1>2, <3>1, <3>2
    <3>4. Kth(ends, m) \in 1..n
      BY <3>3
    <3>5. ~(k < m)
      BY <1>2, <3>3, <3>4
    <3>6. k = m
      BY <1>2, <3>5
    <3> QED BY <1>4, <3>1, <3>2, <3>6
  <2> QED BY <2>1, <2>2
<1>8. Cuts(c, m, 0, n)
  BY <1>2, <1>4, <1>5, <1>6, <1>7 DEF Cuts
<1>9. \A x \in ends : \E k \in 1..m : c[k] = x
  BY <1>2, <1>4
<1> QED BY <1>6, <1>8, <1>9 DEF m, c

\* What is cut there
LEMMA PiecesAre ==
    ASSUME NEW n \in Nat, NEW ends, ends \subseteq 1..n, NEW s
    PROVE  Pieces(s, ends) = [k \in 1..Cardinality(ends) |->
                                 SubSeq(s, CutAt(ends)[k - 1] + 1, CutAt(ends)[k])]
<1> DEFINE m == Cardinality(ends)
           c == CutAt(ends)
<1>1. m \in Nat
  BY Positions, FS_Subset, FS_CardinalityType
<1>2. c = [k \in 0..m |-> IF k = 0 THEN 0 ELSE Kth(ends, k)]
  BY DEF CutAt
<1>3. Pieces(s, ends) =
        [k \in 1..m |-> SubSeq(s, IF k = 1 THEN 1 ELSE Kth(ends, k - 1) + 1, Kth(ends, k))]
  BY DEF Pieces
<1> HIDE DEF m, c
<1>4. c[0] = 0 /\ \A k \in 1..m : c[k] = Kth(ends, k)
  BY <1>1, <1>2
<1>5. ASSUME NEW k \in 1..m
      PROVE  (IF k = 1 THEN 1 ELSE Kth(ends, k - 1) + 1) = c[k - 1] + 1
  <2>1. CASE k = 1
    BY <1>4, <2>1
  <2>2. CASE k # 1
    <3>1. k - 1 \in 1..m
      BY <1>1, <2>2
    <3> QED BY <1>4, <2>2, <3>1
  <2> QED BY <2>1, <2>2
<1>6. Pieces(s, ends) = [k \in 1..m |-> SubSeq(s, c[k - 1] + 1, c[k])]
  BY <1>3, <1>4, <1>5
<1> QED BY <1>6 DEF m, c

-----------------------------------------------------------------------------
(* Sentences.                                                              *)

\* The runs between the cuts
Between(c, m) == [k \in 1..m |-> Run(c[k - 1] + 1, c[k])]

\* Cuts of the text from a to b at the ends of its sentences
SentenceCuts(words, a, b, c, m) ==
    /\ Cuts(c, m, a - 1, b)
    /\ \A k \in 1..m : c[k] = b \/ words[c[k]] \in Stops
    /\ \A x \in a..b : x = b \/ words[x] \in Stops => \E k \in 1..m : c[k] = x

\* split_sentences cuts a run behind every stop and at its end.
LEMMA SentencesAre ==
    ASSUME NEW words, NEW a \in Nat \ {0}, NEW b \in Nat, a - 1 <= b
    PROVE  \E m, c : /\ SentenceCuts(words, a, b, c, m)
                     /\ SplitSentences(words, Run(a, b)) = Between(c, m)
<1> DEFINE n == b - a + 1
           text == Run(a, b)
           ends == {i \in DOMAIN text : i = Len(text) \/ words[text[i]] \in Stops}
           m == Cardinality(ends)
           d == CutAt(ends)
           c == [k \in 0..m |-> a - 1 + d[k]]
<1>1. n \in Nat /\ Len(text) = n /\ DOMAIN text = 1..n /\ \A i \in 1..n : text[i] = a + i - 1
  BY RunIs
<1>2. ends = {i \in 1..n : i = n \/ words[a + i - 1] \in Stops}
  <2> HIDE DEF text, n
  <2> QED BY <1>1
<1>3. SplitSentences(words, text) = Pieces(text, ends)
  BY DEF SplitSentences
<1>4. /\ Cuts(d, m, 0, n)
      /\ \A k \in 1..m : d[k] \in ends
      /\ \A x \in ends : \E k \in 1..m : d[k] = x
      /\ Pieces(text, ends) = [k \in 1..m |-> SubSeq(text, d[k - 1] + 1, d[k])]
  <2>1. ends \subseteq 1..n /\ (n # 0 => n \in ends)
    <3> HIDE DEF ends, n
    <3> QED BY <1>1, <1>2
  <2>3. n \in Nat
    BY <1>1
  <2> HIDE DEF ends, n, text, c
  <2>2. /\ Cuts(d, m, 0, n)
        /\ \A k \in 1..m : d[k] \in ends
        /\ \A x \in ends : \E k \in 1..m : d[k] = x
    BY <2>1, <2>3, CutsAre
  <2>4. Pieces(text, ends) = [k \in 1..m |-> SubSeq(text, d[k - 1] + 1, d[k])]
    BY <2>1, <2>3, PiecesAre
  <2> QED BY <2>2, <2>4
<1> HIDE DEF ends, m, d
<1>5. /\ m \in Nat /\ d \in [0..m -> Nat] /\ d[0] = 0 /\ d[m] = n
      /\ \A k \in 1..m : d[k - 1] < d[k]
  BY <1>4 DEF Cuts
<1>6. \A k \in 0..m : c[k] = a - 1 + d[k] /\ d[k] \in Nat
  BY <1>5
<1>7. c \in [0..m -> Nat]
  BY <1>5
<1> HIDE DEF c, n
<1>8. Cuts(c, m, a - 1, b)
  <2>1. 0 \in 0..m /\ m \in 0..m /\ n = b - a + 1
    BY <1>5 DEF n
  <2>2. c[0] = a - 1 /\ c[m] = b
    BY <1>5, <1>6, <2>1
  <2>3. ASSUME NEW k \in 1..m PROVE c[k - 1] < c[k]
    <3>1. k \in 0..m /\ k - 1 \in 0..m
      BY <1>5
    <3> QED BY <1>5, <1>6, <3>1
  <2> QED BY <1>5, <1>7, <2>2, <2>3 DEF Cuts
<1>9. ASSUME NEW k \in 1..m PROVE c[k] = b \/ words[c[k]] \in Stops
  <2>1. k \in 0..m /\ n = b - a + 1
    BY <1>5 DEF n
  <2>2. d[k] \in 1..n /\ (d[k] = n \/ words[a + d[k] - 1] \in Stops)
    BY <1>2, <1>4
  <2>3. c[k] = a + d[k] - 1 /\ (d[k] = n => c[k] = b)
    BY <1>6, <2>1
  <2> QED BY <2>2, <2>3
<1>10. ASSUME NEW x \in a..b, x = b \/ words[x] \in Stops
       PROVE  \E k \in 1..m : c[k] = x
  <2>1. x - a + 1 \in 1..n /\ a + (x - a + 1) - 1 = x /\ (x = b => x - a + 1 = n)
    BY DEF n
  <2>2. x - a + 1 \in ends
    BY <1>2, <1>10, <2>1
  <2>3. PICK k \in 1..m : d[k] = x - a + 1
    BY <1>4, <2>2
  <2>4. k \in 0..m
    BY <1>5
  <2>5. c[k] = x
    BY <1>6, <2>3, <2>4
  <2> QED BY <2>5
<1>11. SplitSentences(words, text) = Between(c, m)
  <2>1. ASSUME NEW k \in 1..m
        PROVE  SubSeq(text, d[k - 1] + 1, d[k]) = Run(c[k - 1] + 1, c[k])
    <3>1. k \in 0..m /\ k - 1 \in 0..m
      BY <1>5
    <3> DEFINE lo == d[k - 1] + 1
               hi == d[k]
    <3>2. lo \in Nat \ {0} /\ hi \in Nat /\ lo - 1 <= hi
      BY <1>5, <3>1
    <3>3. hi <= b - a + 1
      <4>1. hi \in 0..n
        BY <1>4, <3>1, CutsGrow
      <4> QED BY <4>1 DEF n
    <3>4. a + lo - 1 = c[k - 1] + 1 /\ a + hi - 1 = c[k]
      BY <1>6, <3>1, <3>2
    <3> HIDE DEF lo, hi
    <3>5. SubSeq(Run(a, b), lo, hi) = Run(a + lo - 1, a + hi - 1)
      <4>1. a \in Nat /\ b \in Int /\ a - 1 <= b
        OBVIOUS
      <4> QED BY <3>2, <3>3, <4>1, RunPart
    <3> QED BY <3>4, <3>5 DEF lo, hi
  <2> HIDE DEF text
  <2> QED BY <1>3, <1>4, <2>1 DEF Between
<1> QED BY <1>8, <1>9, <1>10, <1>11 DEF SentenceCuts

\* What is between the cuts
LEMMA BetweenIs ==
    ASSUME NEW c, NEW m, NEW from, NEW to, Cuts(c, m, from, to)
    PROVE  /\ Between(c, m) \in Seq(Seq(Nat)) /\ Len(Between(c, m)) = m
           /\ DOMAIN Between(c, m) = 1..m
           /\ \A k \in 1..m : /\ Between(c, m)[k] = Run(c[k - 1] + 1, c[k])
                              /\ Len(Between(c, m)[k]) = c[k] - c[k - 1]
                              /\ c[k - 1] \in Nat /\ c[k] \in Nat /\ c[k - 1] < c[k]
<1>1. m \in Nat /\ c \in [0..m -> Nat] /\ \A k \in 1..m : c[k - 1] < c[k]
  BY DEF Cuts
<1>2. ASSUME NEW k \in 1..m
      PROVE  /\ c[k - 1] \in Nat /\ c[k] \in Nat /\ c[k - 1] < c[k]
             /\ Run(c[k - 1] + 1, c[k]) \in Seq(Nat)
             /\ Len(Run(c[k - 1] + 1, c[k])) = c[k] - c[k - 1]
  <2>1. k - 1 \in 0..m /\ k \in 0..m
    BY <1>1
  <2> DEFINE p == c[k - 1] + 1
             q == c[k]
  <2>2. c[k - 1] \in Nat /\ c[k] \in Nat /\ c[k - 1] < c[k]
    BY <1>1, <2>1
  <2>3. p \in Nat /\ q \in Int /\ p - 1 <= q /\ q - p + 1 = c[k] - c[k - 1]
    BY <2>2
  <2>4. Run(p, q) \in Seq(Nat) /\ Len(Run(p, q)) = q - p + 1
    <3> HIDE DEF p, q
    <3> QED BY <2>3, RunIs
  <2> QED BY <2>2, <2>3, <2>4
<1>3. Between(c, m) \in [1..m -> Seq(Nat)]
  BY <1>2 DEF Between
<1>4. \A k \in 1..m : Between(c, m)[k] = Run(c[k - 1] + 1, c[k])
  BY DEF Between
<1> QED BY <1>1, <1>2, <1>3, <1>4

-----------------------------------------------------------------------------
(* Lists joined.                                                           *)

\* What FlattenSeq computes, list by list
LEMMA FlattenIs ==
    ASSUME NEW S, NEW ss \in Seq(Seq(S)), Len(ss) # 0
    PROVE  \E f \in [1..Len(ss) -> Seq(S)] :
              /\ f[1] = ss[1]
              /\ \A i \in 2..Len(ss) : f[i] = f[i - 1] \o ss[i]
              /\ FlattenSeq(ss) = f[Len(ss)]
<1> DEFINE n == Len(ss)
           step == [i \in 1..(n - 1) |-> [v \in Seq(S) |-> v \o ss[i + 1]]]
           Fixed(g) == g = [i \in 1..n |-> IF i = 1 THEN ss[i] ELSE g[i - 1] \o ss[i]]
           g == CHOOSE g : Fixed(g)
<1>1. n \in Nat \ {0} /\ n - 1 \in Nat /\ \A i \in 1..n : ss[i] \in Seq(S)
  OBVIOUS
<1>2. step \in [1..(n - 1) -> [Seq(S) -> Seq(S)]] /\ ss[1] \in Seq(S)
  <2>1. ASSUME NEW i \in 1..(n - 1), NEW v \in Seq(S) PROVE v \o ss[i + 1] \in Seq(S)
    <3>1. i + 1 \in 1..n
      BY <1>1
    <3>2. ss[i + 1] \in Seq(S)
      BY <1>1, <3>1
    <3> QED BY <3>2
  <2>2. 1 \in 1..n
    BY <1>1
  <2> QED BY <1>1, <2>1, <2>2
<1>3. PICK f : Recursive(f, n - 1, Seq(S), ss[1], step)
  <2> HIDE DEF step, n
  <2> QED BY <1>1, <1>2, RecursionExists
<1>4. f \in [0..(n - 1) -> Seq(S)] /\ f[0] = ss[1]
      /\ \A i \in 1..(n - 1) : f[i] = step[i][f[i - 1]]
  BY <1>3 DEF Recursive
<1>5. ASSUME NEW i \in 1..(n - 1) PROVE f[i] = f[i - 1] \o ss[i + 1]
  <2>1. f[i - 1] \in Seq(S)
    <3>1. i - 1 \in 0..(n - 1)
      BY <1>1
    <3> QED BY <1>4, <3>1
  <2>2. f[i] = step[i][f[i - 1]]
    BY <1>4
  <2> QED BY <2>1, <2>2
<1> HIDE DEF step
<1> DEFINE h == [i \in 1..n |-> f[i - 1]]
<1>6. Fixed(h)
  <2>1. ASSUME NEW i \in 1..n PROVE h[i] = IF i = 1 THEN ss[i] ELSE h[i - 1] \o ss[i]
    <3>1. CASE i = 1
      BY <1>4, <3>1
    <3>2. CASE i # 1
      <4>1. i - 1 \in 1..(n - 1) /\ i - 1 \in 1..n /\ (i - 1) + 1 = i
        BY <1>1, <3>2
      <4>2. h[i - 1] = f[(i - 1) - 1] /\ h[i] = f[i - 1]
        BY <4>1
      <4>3. f[i - 1] = f[(i - 1) - 1] \o ss[(i - 1) + 1]
        BY <1>5, <4>1
      <4> HIDE DEF h
      <4> QED BY <3>2, <4>1, <4>2, <4>3
    <3> QED BY <3>1, <3>2
  <2>2. h = [i \in 1..n |-> h[i]]
    OBVIOUS
  <2> HIDE DEF h
  <2> QED BY <2>1, <2>2
<1>7. Fixed(g)
  <2> HIDE DEF h
  <2> QED BY <1>6
<1>8. FlattenSeq(ss) = g[n]
  BY <1>1 DEF FlattenSeq
<1> HIDE DEF g, h
<1>9. g[1] = ss[1] /\ \A i \in 2..n : g[i] = g[i - 1] \o ss[i]
  <2>1. \A i \in 1..n : g[i] = IF i = 1 THEN ss[i] ELSE g[i - 1] \o ss[i]
    BY <1>7
  <2>2. 1 \in 1..n /\ \A i \in 2..n : i \in 1..n /\ i # 1
    BY <1>1
  <2> QED BY <2>1, <2>2
<1>10. g \in [1..n -> Seq(S)]
  <2> DEFINE T == {i \in 0..(n - 1) : g[i + 1] \in Seq(S)}
  <2>1. 0 \in T
    BY <1>1, <1>2, <1>9
  <2>2. ASSUME NEW i \in 0..((n - 1) - 1), i \in T PROVE i + 1 \in T
    <3>1. i + 2 \in 2..n /\ i + 2 \in 1..n /\ (i + 2) - 1 = i + 1 /\ (i + 1) + 1 = i + 2
          /\ i + 1 \in 0..(n - 1)
      BY <1>1
    <3>2. g[i + 2] = g[i + 1] \o ss[i + 2] /\ ss[i + 2] \in Seq(S) /\ g[i + 1] \in Seq(S)
      BY <1>1, <1>9, <2>2, <3>1
    <3>3. g[i + 2] \in Seq(S)
      BY <3>2
    <3> QED BY <3>1, <3>3
  <2> HIDE DEF T
  <2>3. 0..(n - 1) \subseteq T
    BY <1>1, <2>1, <2>2, Climb
  <2>4. ASSUME NEW i \in 1..n PROVE g[i] \in Seq(S)
    <3>1. i - 1 \in 0..(n - 1) /\ (i - 1) + 1 = i
      BY <1>1
    <3>2. g[(i - 1) + 1] \in Seq(S)
      BY <2>3, <3>1 DEF T
    <3> QED BY <3>1, <3>2
  <2> QED BY <1>7, <2>4
<1> QED BY <1>8, <1>9, <1>10

\* What is in the range of a sequence.
LEMMA RangeIs ==
    ASSUME NEW S, NEW s \in Seq(S)
    PROVE  /\ \A x : x \in Range(s) <=> \E i \in 1..Len(s) : s[i] = x
           /\ Range(s) \subseteq S
<1>1. DOMAIN s = 1..Len(s) /\ \A i \in 1..Len(s) : s[i] \in S
  OBVIOUS
<1>2. Range(s) = {s[i] : i \in 1..Len(s)}
  BY <1>1 DEF Range
<1> QED BY <1>1, <1>2

\* Two sequences joined have the members of both.
LEMMA RangeOfTwo ==
    ASSUME NEW S, NEW s \in Seq(S), NEW t \in Seq(S)
    PROVE  Range(s \o t) = Range(s) \cup Range(t)
<1>1. s \o t \in Seq(S) /\ Len(s \o t) = Len(s) + Len(t) /\ Len(s) \in Nat /\ Len(t) \in Nat
      /\ \A i \in 1..(Len(s) + Len(t)) :
            (s \o t)[i] = IF i <= Len(s) THEN s[i] ELSE t[i - Len(s)]
  OBVIOUS
<1>2. ASSUME NEW x \in Range(s \o t) PROVE x \in Range(s) \/ x \in Range(t)
  <2>1. PICK i \in 1..(Len(s) + Len(t)) : (s \o t)[i] = x
    BY <1>1, RangeIs
  <2>2. CASE i <= Len(s)
    <3>1. i \in 1..Len(s) /\ s[i] = x
      BY <1>1, <2>1, <2>2
    <3> QED BY <3>1, RangeIs
  <2>3. CASE i > Len(s)
    <3>1. i - Len(s) \in 1..Len(t) /\ t[i - Len(s)] = x
      BY <1>1, <2>1, <2>3
    <3> QED BY <3>1, RangeIs
  <2> QED BY <1>1, <2>2, <2>3
<1>3. ASSUME NEW x \in Range(s) PROVE x \in Range(s \o t)
  <2>1. PICK i \in 1..Len(s) : s[i] = x
    BY RangeIs
  <2>2. i \in 1..(Len(s) + Len(t)) /\ (s \o t)[i] = x
    BY <1>1, <2>1
  <2> QED BY <1>1, <2>2, RangeIs
<1>4. ASSUME NEW x \in Range(t) PROVE x \in Range(s \o t)
  <2>1. PICK i \in 1..Len(t) : t[i] = x
    BY RangeIs
  <2>2. Len(s) + i \in 1..(Len(s) + Len(t)) /\ ~(Len(s) + i <= Len(s))
        /\ (Len(s) + i) - Len(s) = i
    BY <1>1
  <2>3. (s \o t)[Len(s) + i] = x
    BY <1>1, <2>1, <2>2
  <2> QED BY <1>1, <2>2, <2>3, RangeIs
<1> QED BY <1>2, <1>3, <1>4

\* What is in the joined list is in one of the lists.
LEMMA FlattenRange ==
    ASSUME NEW S, NEW ss \in Seq(Seq(S))
    PROVE  /\ FlattenSeq(ss) \in Seq(S)
           /\ \A x : x \in Range(FlattenSeq(ss)) <=> \E i \in 1..Len(ss) : x \in Range(ss[i])
<1>1. CASE Len(ss) = 0
  <2>1. FlattenSeq(ss) = <<>>
    <3>1. ss = <<>>
      BY <1>1
    <3> QED BY <3>1 DEF FlattenSeq
  <2>2. FlattenSeq(ss) \in Seq(S) /\ Len(FlattenSeq(ss)) = 0
    <3>1. <<>> \in Seq(S) /\ Len(<<>>) = 0
      OBVIOUS
    <3> QED BY <2>1, <3>1
  <2>3. \A x : x \notin Range(FlattenSeq(ss))
    <3>1. \A x : x \in Range(FlattenSeq(ss)) <=> \E i \in 1..0 : FlattenSeq(ss)[i] = x
      BY <2>2, RangeIs
    <3> QED BY <3>1
  <2> QED BY <1>1, <2>2, <2>3
<1>2. CASE Len(ss) # 0
  <2> DEFINE n == Len(ss)
  <2>1. n \in Nat \ {0} /\ n - 1 \in Nat /\ \A i \in 1..n : ss[i] \in Seq(S)
    BY <1>2
  <2>2. PICK f \in [1..n -> Seq(S)] :
              /\ f[1] = ss[1]
              /\ \A i \in 2..n : f[i] = f[i - 1] \o ss[i]
              /\ FlattenSeq(ss) = f[n]
    BY <1>2, FlattenIs
  <2> DEFINE In_(x, k) == \E i \in 1..k : x \in Range(ss[i])
             T == {k \in 0..(n - 1) : \A x : x \in Range(f[k + 1]) <=> In_(x, k + 1)}
  <2> HIDE DEF n
  <2>3. 0 \in T
    <3>1. 0 \in 0..(n - 1) /\ 0 + 1 = 1 /\ \A i \in 1..1 : i = 1
      BY <2>1
    <3>2. 1 \in 1..1
      OBVIOUS
    <3> QED BY <2>2, <3>1, <3>2
  <2>4. ASSUME NEW k \in 0..((n - 1) - 1), k \in T PROVE k + 1 \in T
    <3>1. /\ k + 2 \in 2..n /\ (k + 2) - 1 = k + 1 /\ k + 1 \in 1..n /\ k + 2 \in 1..n
          /\ k + 1 \in 0..(n - 1) /\ (k + 1) + 1 = k + 2
      BY <2>1
    <3>2. f[k + 2] = f[k + 1] \o ss[k + 2] /\ f[k + 1] \in Seq(S) /\ ss[k + 2] \in Seq(S)
      BY <2>1, <2>2, <3>1
    <3>3. Range(f[k + 2]) = Range(f[k + 1]) \cup Range(ss[k + 2])
      BY <3>2, RangeOfTwo
    <3>4. \A x : In_(x, k + 2) <=> In_(x, k + 1) \/ x \in Range(ss[k + 2])
      <4>1. /\ k + 2 \in 1..(k + 2) /\ \A i \in 1..(k + 1) : i \in 1..(k + 2)
            /\ \A i \in 1..(k + 2) : i \in 1..(k + 1) \/ i = k + 2
        OBVIOUS
      <4> QED BY <4>1
    <3>5. \A x : x \in Range(f[k + 1]) <=> In_(x, k + 1)
      BY <2>4
    <3>6. \A x : x \in Range(f[k + 2]) <=> In_(x, k + 2)
      <4> HIDE DEF In_
      <4> QED BY <3>3, <3>4, <3>5
    <3> HIDE DEF In_
    <3> QED BY <3>1, <3>6
  <2> HIDE DEF In_
  <2>5. 0..(n - 1) \subseteq T
    <3> HIDE DEF T
    <3> QED BY <2>1, <2>3, <2>4, Climb
  <2>6. n - 1 \in 0..(n - 1) /\ (n - 1) + 1 = n /\ n \in 1..n
    BY <2>1
  <2>7. \A x : x \in Range(f[n]) <=> In_(x, n)
    <3>1. n - 1 \in T
      BY <2>5, <2>6
    <3> QED BY <2>6, <3>1
  <2>8. f[n] \in Seq(S)
    BY <2>2, <2>6
  <2> QED BY <2>2, <2>7, <2>8 DEF In_, n
<1> QED BY <1>1, <1>2

\* Neighbouring pieces joined are one run.
LEMMA JoinIs ==
    ASSUME NEW c, NEW m, NEW from, NEW to, Cuts(c, m, from, to),
           NEW lo \in 1..m, NEW hi \in 1..m, lo <= hi
    PROVE  /\ Join(Between(c, m), Run(lo, hi)) = Run(c[lo - 1] + 1, c[hi])
           /\ Tokens(Between(c, m), Run(lo, hi)) = c[hi] - c[lo - 1]
           /\ c[lo - 1] \in Nat /\ c[hi] \in Nat /\ c[lo - 1] < c[hi]
<1> DEFINE b == Between(c, m)
           g == Run(lo, hi)
           n == hi - lo + 1
           ss == [i \in DOMAIN g |-> b[g[i]]]
           p == c[lo - 1] + 1
<1>1. m \in Nat /\ c \in [0..m -> Nat]
  BY DEF Cuts
<1>2. /\ lo \in Nat \ {0} /\ hi \in Nat /\ lo - 1 \in 0..m /\ hi \in 0..m /\ lo - 1 < hi
      /\ n \in Nat \ {0} /\ n - 1 \in Nat
  BY <1>1
<1>3. c[lo - 1] \in Nat /\ c[hi] \in Nat /\ c[lo - 1] < c[hi] /\ p \in Nat
  <2>1. c[lo - 1] \in Nat /\ c[hi] \in Nat
    BY <1>1, <1>2
  <2>2. c[lo - 1] < c[hi]
    BY <1>2, CutsGrow
  <2> QED BY <2>1, <2>2
<1>4. DOMAIN g = 1..n /\ \A i \in 1..n : g[i] = lo + i - 1
  BY <1>2, RunIs
<1>5. /\ \A k \in 1..m : /\ b[k] = Run(c[k - 1] + 1, c[k])
                         /\ c[k - 1] \in Nat /\ c[k] \in Nat /\ c[k - 1] < c[k]
                         /\ b[k] \in Seq(Nat)
  <2>1. b \in Seq(Seq(Nat)) /\ Len(b) = m
        /\ \A k \in 1..m : /\ b[k] = Run(c[k - 1] + 1, c[k])
                           /\ c[k - 1] \in Nat /\ c[k] \in Nat /\ c[k - 1] < c[k]
    BY BetweenIs
  <2> HIDE DEF b
  <2> QED BY <2>1
<1>6. \A i \in 1..n : lo + i - 1 \in 1..m /\ lo + i - 1 \in Nat
  BY <1>1, <1>2
<1> HIDE DEF b, g
<1>7. ss \in [1..n -> Seq(Nat)] /\ \A i \in 1..n : ss[i] = Run(c[(lo + i - 1) - 1] + 1, c[lo + i - 1])
  BY <1>4, <1>5, <1>6
<1>8. Join(b, g) = FlattenSeq(ss)
  BY DEF Join
<1> HIDE DEF ss, n, p
<1>9. ss \in Seq(Seq(Nat)) /\ Len(ss) = n
  BY <1>2, <1>7
<1>10. PICK f \in [1..n -> Seq(Nat)] :
              /\ f[1] = ss[1]
              /\ \A i \in 2..n : f[i] = f[i - 1] \o ss[i]
              /\ FlattenSeq(ss) = f[n]
  <2>1. Len(ss) # 0
    BY <1>2, <1>9
  <2> QED BY <1>9, <2>1, FlattenIs
<1> DEFINE T == {i \in 0..(n - 1) : f[i + 1] = Run(p, c[lo + i])}
<1>11. 0 \in T
  <2>1. 1 \in 1..n /\ 0 \in 0..(n - 1) /\ lo + 1 - 1 = lo /\ lo + 0 = lo
    BY <1>2
  <2>2. ss[1] = Run(c[lo - 1] + 1, c[lo])
    BY <1>7, <2>1
  <2> QED BY <1>10, <2>1, <2>2 DEF p
<1>12. ASSUME NEW i \in 0..((n - 1) - 1), i \in T PROVE i + 1 \in T
  <2>1. /\ i + 2 \in 2..n /\ (i + 2) - 1 = i + 1 /\ i + 2 \in 1..n /\ i + 1 \in 0..(n - 1)
        /\ (i + 1) + 1 = i + 2 /\ lo + (i + 2) - 1 = lo + (i + 1) /\ (lo + (i + 1)) - 1 = lo + i
    BY <1>2
  <2>2. lo + i \in 0..m /\ lo + (i + 1) \in 1..m
    <3>1. i \in 0..((hi - lo + 1 - 1) - 1) /\ m \in Nat /\ lo \in 1..m /\ hi \in 1..m
      BY <1>1 DEF n
    <3> QED BY <3>1
  <2> DEFINE x == c[lo + i]
             y == c[lo + (i + 1)]
  <2>3. f[i + 2] = Run(p, x) \o Run(x + 1, y)
    BY <1>7, <1>10, <1>12, <2>1
  <2>4. x \in Nat /\ y \in Nat /\ x < y
    BY <1>5, <2>1, <2>2
  <2>5. p - 1 <= x
    <3>1. lo - 1 < lo + i
      BY <1>2
    <3>2. c[lo - 1] < x
      BY <1>1, <1>2, <2>2, <3>1, CutsGrow
    <3> QED BY <1>3, <2>4, <3>2 DEF p
  <2>6. Run(p, x) \o Run(x + 1, y) = Run(p, y)
    <3>1. x \in Int /\ y \in Int /\ x <= y
      BY <2>4
    <3> HIDE DEF x, y
    <3> QED BY <1>3, <2>5, <3>1, RunsJoin
  <2> QED BY <2>1, <2>3, <2>6
<1>13. 0..(n - 1) \subseteq T
  <2> HIDE DEF T
  <2> QED BY <1>2, <1>11, <1>12, Climb
<1>14. f[n] = Run(p, c[hi])
  <2>1. n - 1 \in 0..(n - 1) /\ (n - 1) + 1 = n /\ lo + (n - 1) = hi
    BY <1>2 DEF n
  <2>2. n - 1 \in T
    BY <1>13, <2>1
  <2> QED BY <2>1, <2>2
<1>15. Join(b, g) = Run(p, c[hi])
  BY <1>8, <1>10, <1>14
<1>16. Len(Run(p, c[hi])) = c[hi] - c[lo - 1]
  <2>1. c[hi] \in Int /\ p - 1 <= c[hi] /\ c[hi] - p + 1 = c[hi] - c[lo - 1]
    BY <1>3 DEF p
  <2> QED BY <1>3, <2>1, RunIs
<1> QED BY <1>3, <1>15, <1>16 DEF Tokens, b, g, p

-----------------------------------------------------------------------------
(* Packing.                                                                *)

GroupsOf(S) == [groups : Seq(Seq(S)), current : Seq(S)]

\* The end of a group that the next one takes along
LEMMA TailIs ==
    ASSUME NEW S, NEW s \in Seq(S), NEW n \in Nat
    PROVE  Tail_(s, n) \in Seq(S)
<1> DEFINE lo == Max({1, Len(s) - n + 1})
<1>1. Len(s) \in Nat /\ Len(s) - n + 1 \in Int
  OBVIOUS
<1>2. lo = IF 1 >= Len(s) - n + 1 THEN 1 ELSE Len(s) - n + 1
  <2>1. 1 \in Int /\ Len(s) - n + 1 \in Int
    BY <1>1
  <2> DEFINE k == Len(s) - n + 1
  <2> HIDE DEF k
  <2> QED BY <2>1, MaxOfTwo DEF k
<1>3. lo \in 1..(Len(s) + 1)
  <2> HIDE DEF lo
  <2> QED BY <1>1, <1>2
<1> HIDE DEF lo
<1>4. SubSeq(s, lo, Len(s)) \in Seq(S)
  BY <1>1, <1>3
<1> QED BY <1>4 DEF Tail_, lo

\* A sentence put into a group
LEMMA PackType ==
    ASSUME NEW S, NEW r \in GroupsOf(S), NEW x \in S, NEW max, NEW keep \in Nat, NEW ss
    PROVE  Pack(max, keep, ss, r, x) \in GroupsOf(S)
<1>1. r.groups \in Seq(Seq(S)) /\ r.current \in Seq(S)
  BY DEF GroupsOf
<1>2. Append(r.groups, r.current) \in Seq(Seq(S)) /\ Append(r.current, x) \in Seq(S)
  BY <1>1
<1>3. Append(Tail_(r.current, keep), x) \in Seq(S)
  BY <1>1, TailIs
<1>4. [r EXCEPT !.current = Append(@, x)] \in GroupsOf(S)
  BY <1>1, <1>2 DEF GroupsOf
<1>5. [groups |-> Append(r.groups, r.current), current |-> Append(Tail_(r.current, keep), x)]
        \in GroupsOf(S)
  BY <1>2, <1>3 DEF GroupsOf
<1> QED BY <1>4, <1>5 DEF Pack

\* The groups after each sentence
PackedBy(S, max, keep, ss, all, f) ==
    /\ f \in [0..Len(all) -> GroupsOf(S)]
    /\ f[0] = [groups |-> <<>>, current |-> <<>>]
    /\ \A i \in 1..Len(all) : f[i] = Pack(max, keep, ss, f[i - 1], all[i])
    /\ Packed(max, keep, ss, all) = f[Len(all)]

\* What Packed computes, sentence by sentence
LEMMA PackedIs ==
    ASSUME NEW S, NEW all \in Seq(S), NEW max, NEW keep \in Nat, NEW ss
    PROVE  \E f : PackedBy(S, max, keep, ss, all, f)
<1> DEFINE n == Len(all)
           V == GroupsOf(S)
           base == [groups |-> <<>>, current |-> <<>>]
           step == [i \in 1..n |-> [v \in V |-> Pack(max, keep, ss, v, all[i])]]
           Fixed(g) == g = [i \in 0..n |-> IF i = 0 THEN [groups |-> <<>>, current |-> <<>>]
                                           ELSE Pack(max, keep, ss, g[i - 1], all[i])]
           g == CHOOSE g : Fixed(g)
<1>1. n \in Nat /\ \A i \in 1..n : all[i] \in S
  OBVIOUS
<1>2. base \in V
  BY DEF GroupsOf
<1>3. \A v \in V : \A i \in 1..n : Pack(max, keep, ss, v, all[i]) \in V
  BY <1>1, PackType
<1>4. step \in [1..n -> [V -> V]]
  BY <1>3
<1> HIDE DEF n, V, base
<1>5. PICK f : Recursive(f, n, V, base, step)
  <2> HIDE DEF step
  <2> QED BY <1>1, <1>2, <1>4, RecursionExists
<1>6. f \in [0..n -> V] /\ f[0] = base /\ \A i \in 1..n : f[i] = step[i][f[i - 1]]
  <2> HIDE DEF step
  <2> QED BY <1>5 DEF Recursive
<1>7. \A i \in 0..n : i = 0 \/ (i \in 1..n /\ i - 1 \in 0..n)
  BY <1>1
<1>8. \A i \in 1..n : f[i] = Pack(max, keep, ss, f[i - 1], all[i])
  <2> SUFFICES ASSUME NEW i \in 1..n PROVE f[i] = Pack(max, keep, ss, f[i - 1], all[i])
    OBVIOUS
  <2>1. i - 1 \in 0..n
    BY <1>1
  <2>2. f[i - 1] \in V /\ f[i] = step[i][f[i - 1]]
    BY <1>6, <2>1
  <2> QED BY <2>2
<1> HIDE DEF step
<1>9. Fixed(f)
  <2>1. \A i \in 0..n : f[i] = IF i = 0 THEN base ELSE Pack(max, keep, ss, f[i - 1], all[i])
    BY <1>1, <1>6, <1>7, <1>8
  <2> QED BY <1>6, <2>1 DEF base
<1>10. Fixed(g)
  BY <1>9
<1>11. Packed(max, keep, ss, all) = g[n]
  BY DEF Packed, n
<1> HIDE DEF g
<1>12. g[0] = base /\ \A i \in 1..n : g[i] = Pack(max, keep, ss, g[i - 1], all[i])
  <2>1. \A i \in 0..n : g[i] = IF i = 0 THEN base ELSE Pack(max, keep, ss, g[i - 1], all[i])
    BY <1>10 DEF base
  <2>2. 0 \in 0..n /\ \A i \in 1..n : i \in 0..n /\ i # 0
    BY <1>1
  <2> QED BY <2>1, <2>2
<1>13. g \in [0..n -> V]
  <2> DEFINE T == {i \in 0..n : g[i] \in V}
  <2>1. 0 \in T
    BY <1>1, <1>2, <1>12
  <2>2. ASSUME NEW i \in 0..(n - 1), i \in T PROVE i + 1 \in T
    <3>1. i + 1 \in 1..n /\ (i + 1) - 1 = i /\ i + 1 \in 0..n
      BY <1>1
    <3>2. g[i + 1] = Pack(max, keep, ss, g[i], all[i + 1])
      BY <1>12, <3>1
    <3> QED BY <1>3, <2>2, <3>1, <3>2
  <2> HIDE DEF T
  <2>3. 0..n \subseteq T
    BY <1>1, <2>1, <2>2, Climb
  <2>4. \A i \in 0..n : g[i] \in V
    BY <2>3 DEF T
  <2>5. g = [i \in 0..n |-> g[i]]
    BY <1>10
  <2> QED BY <2>4, <2>5
<1> QED BY <1>11, <1>12, <1>13 DEF n, V, base, PackedBy

-----------------------------------------------------------------------------
(* Groups of consecutive sentences that end at the cuts h, each taking     *)
(* along the last `keep` of the one before.                                *)

Lo(h, keep, g) == IF g = 1 THEN h[0] + 1 ELSE h[g - 1] + 1 - keep

Grouped(groups, h, n, keep, from, to) ==
    /\ Cuts(h, n, from - 1, to)
    /\ groups \in Seq(Seq(Nat)) /\ Len(groups) = n
    /\ \A g \in 1..n : groups[g] = Run(Lo(h, keep, g), h[g])

\* Every group but the last would be too long with the sentence behind it.
Greedy(c, max, h, n, keep) ==
    \A g \in 1..(n - 1) : c[h[g] + 1] - c[Lo(h, keep, g) - 1] > max

\* Where a group begins
LEMMA LoIs ==
    ASSUME NEW f \in Nat \ {0}, NEW t, NEW h, NEW n, Cuts(h, n, f - 1, t),
           NEW keep \in {0, 1}, NEW g \in 1..n
    PROVE  /\ h[g] \in f..t /\ Lo(h, keep, g) \in f..h[g]
           /\ h[g - 1] \in Nat /\ Lo(h, keep, g) <= h[g - 1] + 1
           /\ h[g - 1] + 1 - keep <= Lo(h, keep, g)
<1>1. n \in Nat /\ h \in [0..n -> Nat] /\ h[0] = f - 1 /\ h[n] = t
  BY DEF Cuts
<1>2. g - 1 \in 0..n /\ g \in 0..n /\ 0 \in 0..n /\ 0 < g /\ g - 1 < g
  BY <1>1
<1>3. h[g - 1] \in (f - 1)..t /\ h[g] \in (f - 1)..t /\ h[g - 1] < h[g] /\ h[0] < h[g]
  BY <1>2, CutsGrow
<1>4. h[g - 1] \in Nat /\ h[g] \in Nat /\ t \in Nat
  <2>1. n \in 0..n
    BY <1>1
  <2> QED BY <1>1, <1>2, <2>1
<1>5. CASE g = 1
  <2>1. Lo(h, keep, g) = h[0] + 1 /\ h[g - 1] = h[0]
    BY <1>5 DEF Lo
  <2> QED BY <1>1, <1>3, <1>4, <2>1
<1>6. CASE g # 1
  <2>1. g - 1 \in 0..n /\ 0 < g - 1
    BY <1>2, <1>6
  <2>2. h[0] < h[g - 1]
    BY <1>2, <2>1, CutsGrow
  <2>3. Lo(h, keep, g) = h[g - 1] + 1 - keep
    BY <1>6 DEF Lo
  <2> QED BY <1>1, <1>3, <1>4, <2>2, <2>3
<1> QED BY <1>5, <1>6

\* What the next group takes along of a run: its last number, or none.
LEMMA TailOfRun ==
    ASSUME NEW a \in Nat, NEW b \in Nat, a <= b, NEW keep \in {0, 1}
    PROVE  Tail_(Run(a, b), keep) = Run(b + 1 - keep, b)
<1> DEFINE s == Run(a, b)
           n == b - a + 1
           k == n - keep + 1
<1>1. Len(s) = n /\ n \in Nat /\ n >= 1 /\ k \in Nat \ {0} /\ k - 1 <= n /\ a + k - 1 = b + 1 - keep
      /\ a + n - 1 = b
  <2>1. Len(s) = b - a + 1
    BY RunIs
  <2> HIDE DEF s
  <2> QED BY <2>1
<1>2. Max({1, k}) = k
  <2>1. 1 \in Int /\ k \in Int /\ 1 <= k
    BY <1>1
  <2> HIDE DEF k
  <2> QED BY <2>1, MaxOfTwo
<1>3. SubSeq(s, k, n) = Run(a + k - 1, a + n - 1)
  <2>1. a \in Nat /\ b \in Int /\ a - 1 <= b /\ n <= b - a + 1
    OBVIOUS
  <2> HIDE DEF k, n
  <2> QED BY <1>1, <2>1, RunPart
<1>4. Tail_(s, keep) = SubSeq(s, k, n)
  <2> HIDE DEF s
  <2> QED BY <1>1, <1>2 DEF Tail_
<1> HIDE DEF s, k
<1> QED BY <1>1, <1>3, <1>4 DEF s

\* The next sentence put into a group
LEMMA PackRun ==
    ASSUME NEW c, NEW m, NEW from, NEW to, Cuts(c, m, from, to),
           NEW max \in Int, NEW keep \in {0, 1}, NEW f \in 1..m, NEW x \in 1..m, f < x,
           NEW r \in GroupsOf(Nat), NEW h, NEW n,
           Grouped(Append(r.groups, r.current), h, n, keep, f, x - 1),
           Greedy(c, max, h, n, keep),
           NEW q, q = Pack(max, keep, Between(c, m), r, x)
    PROVE  \E h2, n2 : /\ Grouped(Append(q.groups, q.current), h2, n2, keep, f, x)
                       /\ Greedy(c, max, h2, n2, keep)
<1> DEFINE ss == Between(c, m)
           a == Lo(h, keep, n)
<1>1. m \in Nat /\ c \in [0..m -> Nat] /\ f \in Nat \ {0} /\ x \in Nat
  BY DEF Cuts
<1>2. /\ Cuts(h, n, f - 1, x - 1)
      /\ Append(r.groups, r.current) \in Seq(Seq(Nat)) /\ Len(Append(r.groups, r.current)) = n
      /\ \A g \in 1..n : Append(r.groups, r.current)[g] = Run(Lo(h, keep, g), h[g])
  BY DEF Grouped
<1>3. r.groups \in Seq(Seq(Nat)) /\ r.current \in Seq(Nat)
  BY DEF GroupsOf
<1>4. n \in Nat /\ n >= 1 /\ Len(r.groups) = n - 1 /\ n \in 1..n
  BY <1>2, <1>3
<1>5. h \in [0..n -> Nat] /\ h[0] = f - 1 /\ h[n] = x - 1 /\ \A k \in 1..n : h[k - 1] < h[k]
  BY <1>2 DEF Cuts
<1>6. a \in f..(x - 1) /\ a \in Nat /\ a \in 1..m /\ x - 1 \in 1..m /\ a - 1 \in 0..m
  <2>1. a \in f..h[n]
    BY <1>1, <1>2, <1>4, LoIs
  <2>2. a \in f..(x - 1)
    BY <1>5, <2>1
  <2> HIDE DEF a
  <2> QED BY <1>1, <2>2
<1>7. r.current = Run(a, x - 1) /\ \A g \in 1..(n - 1) : r.groups[g] = Run(Lo(h, keep, g), h[g])
  <2>1. Append(r.groups, r.current)[n] = r.current
    BY <1>3, <1>4
  <2>2. ASSUME NEW g \in 1..(n - 1)
        PROVE  g \in 1..n /\ Append(r.groups, r.current)[g] = r.groups[g]
    BY <1>3, <1>4
  <2> QED BY <1>2, <1>4, <1>5, <2>1, <2>2
<1> HIDE DEF a, ss
<1>8. /\ r.current # <<>>
      /\ (Tokens(ss, r.current) + Len(ss[x]) > max) <=> (c[x] - c[a - 1] > max)
  <2>1. r.current # <<>>
    <3>1. a \in Nat /\ x - 1 \in Int /\ a - 1 <= x - 1 /\ ~(x - 1 = a - 1)
      BY <1>1, <1>6
    <3> QED BY <1>7, <3>1, RunIs
  <2>2. Tokens(ss, r.current) = c[x - 1] - c[a - 1] /\ c[a - 1] \in Nat /\ c[x - 1] \in Nat
    <3>1. a <= x - 1
      BY <1>6
    <3> QED BY <1>6, <1>7, <3>1, JoinIs DEF ss
  <2>3. Len(ss[x]) = c[x] - c[x - 1] /\ c[x] \in Nat
    BY BetweenIs DEF ss
  <2>4. Tokens(ss, r.current) + Len(ss[x]) = c[x] - c[a - 1]
    BY <2>2, <2>3
  <2> QED BY <2>1, <2>4
<1>9. q = IF c[x] - c[a - 1] > max
          THEN [groups |-> Append(r.groups, r.current),
                current |-> Append(Tail_(r.current, keep), x)]
          ELSE [r EXCEPT !.current = Append(@, x)]
  BY <1>8 DEF Pack, ss
<1>10. CASE c[x] - c[a - 1] > max
  <2> DEFINE h2 == [k \in 0..(n + 1) |-> IF k = n + 1 THEN x ELSE h[k]]
             gs == Append(r.groups, r.current)
             new == Run(x - keep, x)
  <2>1. q.groups = gs /\ q.current = new
    <3>1. Tail_(r.current, keep) = Run((x - 1) + 1 - keep, x - 1)
      <4> DEFINE y == x - 1
      <4>1. y \in Nat /\ a <= y
        BY <1>6
      <4>2. r.current = Run(a, y)
        BY <1>7
      <4> HIDE DEF y
      <4>3. Tail_(r.current, keep) = Run(y + 1 - keep, y)
        BY <1>6, <4>1, <4>2, TailOfRun
      <4> QED BY <4>3 DEF y
    <3>2. (x - 1) + 1 - keep = x - keep /\ x - keep \in Nat /\ x - 1 \in Int
          /\ x - keep - 1 <= x - 1 /\ (x - 1) + 1 = x
      BY <1>1
    <3>3. Append(Run(x - keep, x - 1), (x - 1) + 1) = Run(x - keep, (x - 1) + 1)
      <4> DEFINE lo == x - keep
                 hi == x - 1
      <4>1. lo \in Nat /\ hi \in Int /\ lo - 1 <= hi
        BY <3>2
      <4> HIDE DEF lo, hi
      <4>2. Append(Run(lo, hi), hi + 1) = Run(lo, hi + 1)
        BY <4>1, RunGrows
      <4> QED BY <4>2 DEF lo, hi
    <3>4. q.current = Append(Tail_(r.current, keep), x) /\ q.groups = gs
      BY <1>9, <1>10
    <3> QED BY <3>1, <3>2, <3>3, <3>4
  <2>2. new \in Seq(Nat)
    <3>1. x - keep \in Nat /\ x \in Int /\ x - keep - 1 <= x
      BY <1>1
    <3> DEFINE lo == x - keep
    <3> HIDE DEF lo
    <3> QED BY <3>1, RunIs DEF lo
  <2>3. \A k \in 0..n : h2[k] = h[k] /\ k \in 0..(n + 1)
    BY <1>4
  <2>4. h2[n + 1] = x /\ h2 \in [0..(n + 1) -> Nat]
    <3>1. \A k \in 0..(n + 1) : k = n + 1 \/ k \in 0..n
      BY <1>4
    <3>2. n + 1 \in 0..(n + 1)
      BY <1>4
    <3>3. \A k \in 0..n : h[k] \in Nat
      BY <1>5
    <3>4. x \in Nat
      BY <1>1
    <3>5. \A k \in 0..(n + 1) : (IF k = n + 1 THEN x ELSE h[k]) \in Nat
      BY <3>1, <3>3, <3>4
    <3> QED BY <3>2, <3>5
  <2> HIDE DEF h2, new
  <2>5. Cuts(h2, n + 1, f - 1, x)
    <3>1. ASSUME NEW k \in 1..(n + 1) PROVE h2[k - 1] < h2[k]
      <4>1. CASE k = n + 1
        <5>1. k - 1 = n /\ n \in 0..n
          BY <1>4, <4>1
        <5> QED BY <1>1, <1>5, <2>3, <2>4, <4>1, <5>1
      <4>2. CASE k # n + 1
        <5>1. k \in 1..n /\ k - 1 \in 0..n /\ k \in 0..n
          BY <1>4, <4>2
        <5> QED BY <1>5, <2>3, <5>1
      <4> QED BY <4>1, <4>2
    <3>2. 0 \in 0..n /\ n + 1 \in Nat
      BY <1>4
    <3> QED BY <1>5, <2>3, <2>4, <3>1, <3>2 DEF Cuts
  <2>6. \A g \in 1..n : Lo(h2, keep, g) = Lo(h, keep, g) /\ h2[g] = h[g]
    <3>1. \A g \in 1..n : g - 1 \in 0..n /\ g \in 0..n /\ 0 \in 0..n
      BY <1>4
    <3> QED BY <2>3, <3>1 DEF Lo
  <2>7. Lo(h2, keep, n + 1) = x - keep
    <3>1. n + 1 # 1 /\ (n + 1) - 1 = n /\ n \in 0..n
      BY <1>4
    <3>2. h2[n] = x - 1
      BY <1>5, <2>3, <3>1
    <3> QED BY <1>1, <3>1, <3>2 DEF Lo
  <2>8. Grouped(Append(gs, new), h2, n + 1, keep, f, x)
    <3>1. Append(gs, new) \in Seq(Seq(Nat)) /\ Len(Append(gs, new)) = n + 1
      BY <1>2, <2>2
    <3>2. ASSUME NEW g \in 1..(n + 1)
          PROVE  Append(gs, new)[g] = Run(Lo(h2, keep, g), h2[g])
      <4>1. CASE g = n + 1
        <5>1. Append(gs, new)[g] = new
          <6>1. gs \in Seq(Seq(Nat)) /\ Len(gs) = n
            BY <1>2
          <6> HIDE DEF gs
          <6> QED BY <2>2, <4>1, <6>1
        <5> QED BY <2>4, <2>7, <4>1, <5>1 DEF new
      <4>2. CASE g # n + 1
        <5>1. g \in 1..n
          BY <1>4, <4>2
        <5>2. Append(gs, new)[g] = gs[g]
          <6>1. gs \in Seq(Seq(Nat)) /\ Len(gs) = n
            BY <1>2
          <6> HIDE DEF gs
          <6> QED BY <2>2, <5>1, <6>1
        <5> QED BY <1>2, <2>6, <5>1, <5>2
      <4> QED BY <4>1, <4>2
    <3> QED BY <2>5, <3>1, <3>2 DEF Grouped
  <2>9. Greedy(c, max, h2, n + 1, keep)
    <3>1. ASSUME NEW g \in 1..n PROVE c[h2[g] + 1] - c[Lo(h2, keep, g) - 1] > max
      <4>1. CASE g = n
        <5>1. h2[g] + 1 = x /\ Lo(h2, keep, g) = a
          BY <1>1, <1>5, <2>6, <4>1 DEF a
        <5> QED BY <1>10, <5>1
      <4>2. CASE g # n
        <5>1. g \in 1..(n - 1)
          BY <1>4, <4>2
        <5> QED BY <2>6, <5>1 DEF Greedy
      <4> QED BY <4>1, <4>2
    <3>2. (n + 1) - 1 = n
      BY <1>4
    <3> QED BY <3>1, <3>2 DEF Greedy
  <2> HIDE DEF gs
  <2> QED BY <2>1, <2>8, <2>9
<1>11. CASE ~(c[x] - c[a - 1] > max)
  <2> DEFINE h2 == [k \in 0..n |-> IF k = n THEN x ELSE h[k]]
             new == Run(a, x)
  <2>1. q.groups = r.groups /\ q.current = new
    <3>1. (x - 1) + 1 = x /\ a - 1 <= x - 1 /\ x - 1 \in Int
      BY <1>1, <1>6
    <3>2. Append(Run(a, x - 1), (x - 1) + 1) = Run(a, (x - 1) + 1)
      BY <1>6, <3>1, RunGrows
    <3>3. q.groups = r.groups /\ q.current = Append(r.current, x)
      BY <1>3, <1>9, <1>11 DEF GroupsOf
    <3> QED BY <1>7, <3>1, <3>2, <3>3
  <2>2. new \in Seq(Nat)
    <3>1. x \in Int /\ a - 1 <= x
      BY <1>1, <1>6
    <3> QED BY <1>6, <3>1, RunIs
  <2>3. \A k \in 0..(n - 1) : h2[k] = h[k] /\ k \in 0..n
    BY <1>4
  <2>4. h2[n] = x /\ h2 \in [0..n -> Nat]
    <3>1. n \in Nat /\ x \in Nat /\ \A k \in 0..n : h[k] \in Nat
      BY <1>1, <1>4, <1>5
    <3> HIDE DEF new
    <3> QED BY <3>1
  <2> HIDE DEF h2, new
  <2>5. Cuts(h2, n, f - 1, x)
    <3>1. ASSUME NEW k \in 1..n PROVE h2[k - 1] < h2[k]
      <4>1. k - 1 \in 0..(n - 1) /\ h2[k - 1] = h[k - 1] /\ h[k - 1] < h[k]
        BY <1>4, <1>5, <2>3
      <4>2. CASE k = n
        <5>1. h[k - 1] \in Nat
          BY <1>5, <2>3, <4>1
        <5> QED BY <1>1, <1>5, <2>4, <4>1, <4>2, <5>1
      <4>3. CASE k # n
        <5>1. k \in 0..(n - 1)
          BY <1>4, <4>3
        <5> QED BY <2>3, <4>1, <5>1
      <4> QED BY <4>2, <4>3
    <3>2. 0 \in 0..(n - 1)
      BY <1>4
    <3> QED BY <1>4, <1>5, <2>3, <2>4, <3>1, <3>2 DEF Cuts
  <2>6. \A g \in 1..n : Lo(h2, keep, g) = Lo(h, keep, g)
    <3>1. \A g \in 1..n : g - 1 \in 0..(n - 1) /\ 0 \in 0..(n - 1)
      BY <1>4
    <3> QED BY <2>3, <3>1 DEF Lo
  <2>7. \A g \in 1..(n - 1) : h2[g] = h[g] /\ g \in 1..n
    <3>1. \A g \in 1..(n - 1) : g \in 0..(n - 1) /\ g \in 1..n
      BY <1>4
    <3> QED BY <2>3, <3>1
  <2>8. Grouped(Append(r.groups, new), h2, n, keep, f, x)
    <3>1. Append(r.groups, new) \in Seq(Seq(Nat)) /\ Len(Append(r.groups, new)) = n
      BY <1>3, <1>4, <2>2
    <3>2. ASSUME NEW g \in 1..n
          PROVE  Append(r.groups, new)[g] = Run(Lo(h2, keep, g), h2[g])
      <4>1. CASE g = n
        <5>1. Append(r.groups, new)[g] = new
          BY <1>3, <1>4, <2>2, <4>1
        <5> QED BY <1>4, <2>4, <2>6, <4>1, <5>1 DEF new, a
      <4>2. CASE g # n
        <5>1. g \in 1..(n - 1)
          BY <1>4, <4>2
        <5>2. Append(r.groups, new)[g] = r.groups[g]
          BY <1>3, <1>4, <2>2, <5>1
        <5> QED BY <1>7, <2>6, <2>7, <5>1, <5>2
      <4> QED BY <4>1, <4>2
    <3> QED BY <2>5, <3>1, <3>2 DEF Grouped
  <2>9. Greedy(c, max, h2, n, keep)
    BY <2>6, <2>7 DEF Greedy
  <2> QED BY <2>1, <2>8, <2>9
<1> QED BY <1>10, <1>11

\* The groups packed of the sentences f to t
LEMMA PackedGroups ==
    ASSUME NEW c, NEW m, NEW from, NEW to, Cuts(c, m, from, to),
           NEW max \in Int, NEW keep \in {0, 1}, NEW f \in 1..m, NEW t \in f..m,
           NEW r, r = Packed(max, keep, Between(c, m), Run(f, t))
    PROVE  /\ r \in GroupsOf(Nat)
           /\ \E h, n : /\ Grouped(Append(r.groups, r.current), h, n, keep, f, t)
                        /\ Greedy(c, max, h, n, keep)
<1> DEFINE all == Run(f, t)
           N == t - f + 1
           ss == Between(c, m)
<1>1. m \in Nat /\ f \in Nat \ {0} /\ t \in Nat /\ f <= t /\ N \in Nat /\ N - 1 \in Nat /\ N >= 1
  BY DEF Cuts
<1>2. all \in Seq(Nat) /\ Len(all) = N /\ \A i \in 1..N : all[i] = f + i - 1
  BY <1>1, RunIs
<1> HIDE DEF all, ss, N
<1>3. PICK g \in [0..N -> GroupsOf(Nat)] :
              /\ g[0] = [groups |-> <<>>, current |-> <<>>]
              /\ \A i \in 1..N : g[i] = Pack(max, keep, ss, g[i - 1], all[i])
              /\ Packed(max, keep, ss, all) = g[N]
  <2>1. keep \in Nat /\ all \in Seq(Nat)
    BY <1>2
  <2>2. PICK g : PackedBy(Nat, max, keep, ss, all, g)
    BY <2>1, PackedIs
  <2> QED BY <1>2, <2>2 DEF PackedBy
<1> DEFINE Good(i) == \E h, n : /\ Grouped(Append(g[i].groups, g[i].current), h, n, keep, f, f + i - 1)
                                /\ Greedy(c, max, h, n, keep)
           T == {i \in 0..(N - 1) : Good(i + 1)}
<1>4. 0 \in T
  <2>1. 1 \in 1..N /\ 1 - 1 = 0 /\ 0 \in 0..(N - 1) /\ 0 + 1 = 1 /\ f + 1 - 1 = f
    BY <1>1
  <2>2. g[1] = Pack(max, keep, ss, g[0], f)
    BY <1>2, <1>3, <2>1
  <2>3. Append(<<>>, f) = <<f>>
    OBVIOUS
  <2>4. g[1].groups = <<>> /\ g[1].current = <<f>>
    BY <1>3, <2>2, <2>3 DEF Pack
  <2> DEFINE h == [k \in 0..1 |-> IF k = 0 THEN f - 1 ELSE f]
             gs == <<<<f>>>>
  <2>5. Append(g[1].groups, g[1].current) = gs
    BY <2>4
  <2>6. gs \in Seq(Seq(Nat)) /\ Len(gs) = 1 /\ gs[1] = <<f>>
    BY <1>1
  <2>7. h \in [0..1 -> Nat] /\ h[0] = f - 1 /\ h[1] = f
    BY <1>1
  <2> HIDE DEF h, gs
  <2>8. Cuts(h, 1, f - 1, f)
    <3>1. \A k \in 1..1 : k = 1
      OBVIOUS
    <3>2. f - 1 < f
      BY <1>1
    <3>3. \A k \in 1..1 : h[k - 1] < h[k]
      BY <2>1, <2>7, <3>1, <3>2
    <3> QED BY <2>7, <3>3 DEF Cuts
  <2>9. Lo(h, keep, 1) = f
    BY <1>1, <2>7 DEF Lo
  <2>10. <<f>> = Run(f, f)
    <3>1. Run(f, f) \in Seq(Nat) /\ Len(Run(f, f)) = 1 /\ Run(f, f)[1] = f
      <4>1. f - f + 1 = 1 /\ 1 \in 1..1 /\ f + 1 - 1 = f /\ f \in Nat /\ f \in Int /\ f - 1 <= f
        BY <1>1
      <4> DEFINE u == Run(f, f)
      <4>2. /\ u \in Seq(Nat) /\ Len(u) = f - f + 1
            /\ \A i \in 1..(f - f + 1) : u[i] = f + i - 1
        <5>1. /\ Run(f, f) \in Seq(Nat) /\ Len(Run(f, f)) = f - f + 1
              /\ \A i \in 1..(f - f + 1) : Run(f, f)[i] = f + i - 1
          BY <4>1, RunIs
        <5> QED BY <5>1
      <4> HIDE DEF u
      <4>3. u \in Seq(Nat) /\ Len(u) = 1 /\ u[1] = f
        BY <4>1, <4>2
      <4> QED BY <4>3 DEF u
    <3> QED BY <1>1, <3>1
  <2>11. Grouped(gs, h, 1, keep, f, f)
    <3>1. \A k \in 1..1 : k = 1
      OBVIOUS
    <3>2. \A k \in 1..1 : gs[k] = Run(Lo(h, keep, k), h[k])
      BY <2>6, <2>7, <2>9, <2>10, <3>1
    <3> QED BY <2>6, <2>8, <3>2 DEF Grouped
  <2>12. Greedy(c, max, h, 1, keep)
    BY DEF Greedy
  <2>13. Good(1)
    <3>1. Grouped(Append(g[1].groups, g[1].current), h, 1, keep, f, f + 1 - 1)
      BY <2>1, <2>5, <2>11
    <3> QED BY <2>12, <3>1
  <2> HIDE DEF Good
  <2> QED BY <2>1, <2>13
<1>5. ASSUME NEW i \in 0..((N - 1) - 1), i \in T PROVE i + 1 \in T
  <2> DEFINE x == f + i + 1
  <2>1. /\ i + 2 \in 1..N /\ (i + 2) - 1 = i + 1 /\ i + 1 \in 0..N /\ (i + 1) + 1 = i + 2
        /\ i + 1 \in 0..(N - 1) /\ f + (i + 1) - 1 = x - 1 /\ f + (i + 2) - 1 = x
    BY <1>1
  <2>2. x \in 1..m /\ f < x
    BY <1>1 DEF N
  <2> HIDE DEF x
  <2>3. g[i + 2] = Pack(max, keep, ss, g[i + 1], x) /\ g[i + 1] \in GroupsOf(Nat)
    BY <1>2, <1>3, <2>1
  <2>4. PICK h, n : /\ Grouped(Append(g[i + 1].groups, g[i + 1].current), h, n, keep, f, x - 1)
                    /\ Greedy(c, max, h, n, keep)
    BY <1>5, <2>1
  <2>5. \E h2, n2 : /\ Grouped(Append(g[i + 2].groups, g[i + 2].current), h2, n2, keep, f, x)
                    /\ Greedy(c, max, h2, n2, keep)
    BY <2>2, <2>3, <2>4, PackRun DEF ss
  <2>6. Good(i + 2)
    BY <2>1, <2>5
  <2> HIDE DEF Good
  <2> QED BY <2>1, <2>6
<1> HIDE DEF Good
<1>6. 0..(N - 1) \subseteq T
  <2> HIDE DEF T
  <2> QED BY <1>1, <1>4, <1>5, Climb
<1>7. N - 1 \in 0..(N - 1) /\ (N - 1) + 1 = N /\ N \in 0..N
  BY <1>1
<1>8. Good(N)
  <2>1. N - 1 \in T
    BY <1>6, <1>7
  <2> QED BY <1>7, <2>1
<1>9. f + N - 1 = t
  BY <1>1 DEF N
<1>10. r = g[N] /\ g[N] \in GroupsOf(Nat)
  BY <1>3, <1>7 DEF all, ss
<1> QED BY <1>8, <1>9, <1>10 DEF Good

\* SentenceChunker._group, of groups that share one sentence or none
LEMMA SentenceGroupsAre ==
    ASSUME NEW c, NEW m, NEW from, NEW to, Cuts(c, m, from, to), m # 0,
           NEW ch, ch.max \in Int, NEW keep \in {0, 1}, ch.overlap = keep
    PROVE  \E h, n : /\ Grouped(SentenceGroups(ch, Between(c, m)), h, n, keep, 1, m)
                     /\ Greedy(c, ch.max, h, n, keep)
<1> DEFINE ss == Between(c, m)
           r == Packed(ch.max, keep, ss, Run(1, m))
           gs == Append(r.groups, r.current)
<1>1. m \in Nat /\ 1 \in 1..m /\ m \in 1..m /\ Len(ss) = m
  <2>1. m \in Nat
    BY DEF Cuts
  <2> QED BY <2>1, BetweenIs
<1>2. PICK h, n : /\ Grouped(gs, h, n, keep, 1, m)
                  /\ Greedy(c, ch.max, h, n, keep)
  <2> HIDE DEF r
  <2>1. r = Packed(ch.max, keep, Between(c, m), Run(1, m))
    BY DEF r, ss
  <2> QED BY <1>1, <2>1, PackedGroups
<1>3. r.groups \in Seq(Seq(Nat)) /\ r.current \in Seq(Nat)
  <2> HIDE DEF r
  <2>1. r = Packed(ch.max, keep, Between(c, m), Run(1, m))
    BY DEF r, ss
  <2>2. r \in GroupsOf(Nat)
    BY <1>1, <2>1, PackedGroups
  <2> QED BY <2>2 DEF GroupsOf
<1>4. SentenceGroups(ch, ss) = IF r.groups # <<>> /\ Tokens(ss, r.current) < ch.min
                               THEN FoldScrap(r.groups, r.current, keep)
                               ELSE gs
  <2> HIDE DEF ss
  <2> QED BY <1>1 DEF SentenceGroups
<1> HIDE DEF r, ss
<1>5. CASE r.groups # <<>> /\ Tokens(ss, r.current) < ch.min
  <2> DEFINE last == r.groups[n - 1]
             scrap == SubSeq(r.current, keep + 1, Len(r.current))
             new == last \o scrap
             out == [r.groups EXCEPT ![n - 1] = new]
             h2 == [k \in 0..(n - 1) |-> IF k = n - 1 THEN m ELSE h[k]]
  <2>1. /\ Cuts(h, n, 0, m) /\ Len(gs) = n
        /\ \A g \in 1..n : gs[g] = Run(Lo(h, keep, g), h[g])
    <3>1. 1 - 1 = 0
      OBVIOUS
    <3> QED BY <1>2, <3>1 DEF Grouped
  <2>2. Len(r.groups) = n - 1 /\ n \in Nat /\ n - 1 \in Nat /\ n - 1 >= 1
    BY <1>3, <1>5, <2>1
  <2>3. SentenceGroups(ch, ss) = out
    <3> HIDE DEF gs
    <3> QED BY <1>4, <1>5, <2>2 DEF FoldScrap
  <2>4. h \in [0..n -> Nat] /\ h[0] = 0 /\ h[n] = m /\ \A k \in 1..n : h[k - 1] < h[k]
    BY <2>1 DEF Cuts
  <2>5. r.current = Run(Lo(h, keep, n), m)
    <3>1. gs[n] = r.current /\ n \in 1..n
      BY <1>3, <2>2
    <3> QED BY <2>1, <2>4, <3>1
  <2>6. \A g \in 1..(n - 1) : r.groups[g] = Run(Lo(h, keep, g), h[g])
    <3>1. \A g \in 1..(n - 1) : g \in 1..n /\ gs[g] = r.groups[g]
      BY <1>3, <2>2
    <3> QED BY <2>1, <3>1
  <2> DEFINE a == Lo(h, keep, n - 1)
             b == h[n - 1]
  <2>7. /\ n - 1 \in 1..(n - 1) /\ n \in 1..n /\ n - 1 \in 1..n /\ n # 1
        /\ n - 1 \in 0..n /\ (n - 1) - 1 \in 0..n
    BY <2>2
  <2>8. Lo(h, keep, n) = b + 1 - keep /\ b \in Nat /\ b < m /\ a \in 1..b
    <3>1. Lo(h, keep, n) = b + 1 - keep
      BY <2>7 DEF Lo
    <3>2. b \in Nat /\ b < m
      BY <2>4, <2>7
    <3>3. a \in 1..b
      <4>1. 1 \in Nat \ {0} /\ 1 - 1 = 0
        OBVIOUS
      <4>2. Cuts(h, n, 1 - 1, m)
        BY <2>1, <4>1
      <4> QED BY <2>7, <4>1, <4>2, LoIs
    <3> QED BY <3>1, <3>2, <3>3
  <2>9. last = Run(a, b)
    BY <2>6, <2>7
  <2> HIDE DEF a, b, last, gs
  <2>10. scrap = Run(b + 1, m)
    <3> DEFINE p == b + 1 - keep
               k == m - p + 1
    <3>1. /\ p \in Nat /\ m \in Int /\ p - 1 <= m /\ keep + 1 \in Nat \ {0} /\ k \in Nat
          /\ (keep + 1) - 1 <= k /\ p + (keep + 1) - 1 = b + 1 /\ p + k - 1 = m
      BY <1>1, <2>8
    <3>2. r.current = Run(p, m)
      BY <2>5, <2>8
    <3> HIDE DEF p
    <3>3. Len(r.current) = k
      BY <3>1, <3>2, RunIs
    <3>4. k <= m - p + 1
      BY <3>1
    <3> HIDE DEF k
    <3>5. SubSeq(Run(p, m), keep + 1, k) = Run(p + (keep + 1) - 1, p + k - 1)
      BY <3>1, <3>4, RunPart
    <3> QED BY <3>1, <3>2, <3>3, <3>5
  <2>11. new = Run(a, m) /\ new \in Seq(Nat)
    <3>1. a \in Nat /\ b \in Int /\ m \in Int /\ a - 1 <= b /\ b <= m /\ a - 1 <= m
      BY <1>1, <2>8
    <3>2. Run(a, b) \o Run(b + 1, m) = Run(a, m)
      BY <3>1, RunsJoin
    <3>3. Run(a, m) \in Seq(Nat)
      BY <3>1, RunIs
    <3> HIDE DEF scrap
    <3> QED BY <2>9, <2>10, <3>2, <3>3
  <2> HIDE DEF new, scrap
  <2>12. out \in Seq(Seq(Nat)) /\ Len(out) = n - 1 /\ out[n - 1] = new
         /\ \A g \in 1..(n - 1) : g # n - 1 => out[g] = r.groups[g]
    BY <1>3, <2>2, <2>7, <2>11
  <2>13. h2[n - 1] = m /\ h2 \in [0..(n - 1) -> Nat]
         /\ \A k \in 0..(n - 1) : k # n - 1 => h2[k] = h[k]
    <3>1. \A k \in 0..(n - 1) : k \in 0..n /\ h[k] \in Nat
      BY <2>2, <2>4
    <3> QED BY <1>1, <2>2, <3>1
  <2> HIDE DEF out, h2
  <2>14. \A g \in 1..(n - 1) : Lo(h2, keep, g) = Lo(h, keep, g)
    <3>1. \A g \in 1..(n - 1) : g - 1 \in 0..(n - 1) /\ g - 1 # n - 1
      BY <2>2
    <3>2. 0 \in 0..(n - 1) /\ 0 # n - 1
      BY <2>2
    <3> QED BY <2>13, <3>1, <3>2 DEF Lo
  <2>15. Cuts(h2, n - 1, 0, m)
    <3>1. ASSUME NEW k \in 1..(n - 1) PROVE h2[k - 1] < h2[k]
      <4>1. k - 1 \in 0..(n - 1) /\ k - 1 # n - 1 /\ k \in 0..(n - 1) /\ k \in 1..n /\ k - 1 \in 0..n
        BY <2>2
      <4>2. h2[k - 1] = h[k - 1] /\ h[k - 1] < h[k] /\ h[k - 1] \in Nat
        BY <2>4, <2>13, <4>1
      <4>3. CASE k = n - 1
        BY <1>1, <2>8, <2>13, <4>2, <4>3 DEF b
      <4>4. CASE k # n - 1
        BY <2>13, <4>1, <4>2, <4>4
      <4> QED BY <4>3, <4>4
    <3>2. 0 \in 0..(n - 1) /\ 0 # n - 1
      BY <2>2
    <3> QED BY <2>2, <2>4, <2>13, <3>1, <3>2 DEF Cuts
  <2>16. Grouped(out, h2, n - 1, keep, 1, m)
    <3>1. ASSUME NEW g \in 1..(n - 1) PROVE out[g] = Run(Lo(h2, keep, g), h2[g])
      <4>1. CASE g = n - 1
        BY <2>7, <2>11, <2>12, <2>13, <2>14, <4>1 DEF a
      <4>2. CASE g # n - 1
        <5>1. g \in 0..(n - 1)
          BY <2>2
        <5> QED BY <2>6, <2>12, <2>13, <2>14, <4>2, <5>1
      <4> QED BY <4>1, <4>2
    <3>2. 1 - 1 = 0
      OBVIOUS
    <3> QED BY <2>12, <2>15, <3>1, <3>2 DEF Grouped
  <2>17. Greedy(c, ch.max, h2, n - 1, keep)
    <3>1. ASSUME NEW g \in 1..((n - 1) - 1)
          PROVE  g \in 1..(n - 1) /\ h2[g] = h[g]
      <4>1. g \in 1..(n - 1) /\ g \in 0..(n - 1) /\ g # n - 1
        BY <2>2
      <4> QED BY <2>13, <4>1
    <3>2. \A g \in 1..(n - 1) : c[h[g] + 1] - c[Lo(h, keep, g) - 1] > ch.max
      BY <1>2 DEF Greedy
    <3>3. \A g \in 1..((n - 1) - 1) : c[h2[g] + 1] - c[Lo(h2, keep, g) - 1] > ch.max
      BY <2>14, <3>1, <3>2
    <3> QED BY <3>3 DEF Greedy
  <2> QED BY <2>3, <2>16, <2>17 DEF ss
<1>6. CASE ~(r.groups # <<>> /\ Tokens(ss, r.current) < ch.min)
  <2> HIDE DEF gs
  <2>1. SentenceGroups(ch, ss) = gs
    BY <1>4, <1>6
  <2> QED BY <1>2, <2>1 DEF ss
<1> QED BY <1>5, <1>6

\* Runs of the sentences f to t, that leave none out
GroupRuns(groups, f, t) ==
    /\ groups \in Seq(Seq(Nat))
    /\ \A x \in Range(groups) : \E lo \in f..t : \E hi \in lo..t : x = Run(lo, hi)
    /\ \A s \in f..t : \E lo \in f..s : \E hi \in s..t : Run(lo, hi) \in Range(groups)

\* Groups that repeat one sentence at most are runs one after the other.
LEMMA GroupedRuns ==
    ASSUME NEW f \in Nat \ {0}, NEW t \in Nat, NEW h, NEW n, NEW groups, NEW keep \in {0, 1},
           Grouped(groups, h, n, keep, f, t)
    PROVE  GroupRuns(groups, f, t)
<1>1. /\ Cuts(h, n, f - 1, t)
      /\ groups \in Seq(Seq(Nat)) /\ Len(groups) = n
      /\ \A g \in 1..n : groups[g] = Run(Lo(h, keep, g), h[g])
  BY DEF Grouped
<1>2. ASSUME NEW x \in Range(groups)
      PROVE  \E lo \in f..t : \E hi \in lo..t : x = Run(lo, hi)
  <2>1. PICK g \in 1..n : groups[g] = x
    BY <1>1, RangeIs
  <2>2. h[g] \in f..t /\ Lo(h, keep, g) \in f..h[g]
    BY <1>1, LoIs
  <2>3. Lo(h, keep, g) \in f..t /\ h[g] \in Lo(h, keep, g)..t
    BY <2>2
  <2> QED BY <1>1, <2>1, <2>3
<1>3. ASSUME NEW s \in f..t
      PROVE  \E lo \in f..s : \E hi \in s..t : Run(lo, hi) \in Range(groups)
  <2>1. PICK g \in 1..n : h[g - 1] < s /\ s <= h[g]
    <3>1. s \in Nat /\ f - 1 < s /\ s <= t
      OBVIOUS
    <3> QED BY <1>1, <3>1, CutsCover
  <2>2. h[g] \in f..t /\ Lo(h, keep, g) \in f..h[g] /\ h[g - 1] \in Nat
        /\ Lo(h, keep, g) <= h[g - 1] + 1
    BY <1>1, LoIs
  <2>3. Lo(h, keep, g) \in f..s /\ h[g] \in s..t
    BY <2>1, <2>2
  <2>4. groups[g] \in Range(groups)
    BY <1>1, RangeIs
  <2> QED BY <1>1, <2>3, <2>4
<1> QED BY <1>1, <1>2, <1>3 DEF GroupRuns

\* One run is a group of its own.
LEMMA OneRun ==
    ASSUME NEW t \in Nat \ {0}
    PROVE  GroupRuns(<<Run(1, t)>>, 1, t)
<1> DEFINE gs == <<Run(1, t)>>
<1>1. Run(1, t) \in Seq(Nat)
  BY RunIs
<1>2. gs \in Seq(Seq(Nat)) /\ Len(gs) = 1 /\ gs[1] = Run(1, t)
  BY <1>1
<1>3. \A i \in 1..1 : i = 1
  OBVIOUS
<1> HIDE DEF gs
<1>4. Range(gs) = {Run(1, t)}
  BY <1>2, <1>3, RangeIs
<1>5. \A s \in 1..t : 1 \in 1..s /\ t \in s..t
  OBVIOUS
<1>6. 1 \in 1..t /\ t \in 1..t
  OBVIOUS
<1> QED BY <1>2, <1>4, <1>5, <1>6 DEF GroupRuns, gs

\* SemanticChunker._group: the sentences are cut at breaks, and long groups again.
LEMMA SemanticGroupsAre ==
    ASSUME NEW c, NEW m, NEW from, NEW to, Cuts(c, m, from, to), m # 0,
           NEW ch, ch.max \in Int
    PROVE  GroupRuns(SemanticGroups(ch, Between(c, m)), 1, m)
<1> DEFINE ss == Between(c, m)
           d == SubSeq(ch.distances, 1, m - 1)
           ends == {m} \cup {i \in 1..(m - 1) : 100 * d[i] > Percentile(d, ch.percentile)}
           M == Cardinality(ends)
           e == CutAt(ends)
           groups == Pieces(Run(1, m), ends)
           Split(group) == LET r == Packed(ch.max, 0, ss, group)
                           IN Append(r.groups, r.current)
           out == [k \in DOMAIN groups |-> Split(groups[k])]
<1>1. m \in Nat \ {0} /\ Len(ss) = m
  <2>1. m \in Nat
    BY DEF Cuts
  <2> QED BY <2>1, BetweenIs
<1> HIDE DEF ss
<1>2. SemanticGroups(ch, ss) = IF m <= ch.sentences \/ m = 1 THEN <<Run(1, m)>>
                               ELSE FlattenSeq(out)
  BY <1>1 DEF SemanticGroups
<1>3. ends \subseteq 1..m /\ m \in ends
  BY <1>1
<1> HIDE DEF ends
<1>4. /\ Cuts(e, M, 0, m)
      /\ groups = [k \in 1..M |-> SubSeq(Run(1, m), e[k - 1] + 1, e[k])]
  <2> HIDE DEF e, groups, M
  <2>1. Cuts(CutAt(ends), Cardinality(ends), 0, m)
    BY <1>1, <1>3, CutsAre
  <2>2. Pieces(Run(1, m), ends) = [k \in 1..Cardinality(ends) |->
                                 SubSeq(Run(1, m), CutAt(ends)[k - 1] + 1, CutAt(ends)[k])]
    BY <1>1, <1>3, PiecesAre
  <2> QED BY <2>1, <2>2 DEF e, groups, M
<1> HIDE DEF e, groups, M
<1>5. M \in Nat /\ DOMAIN groups = 1..M /\ e \in [0..M -> Nat] /\ e[0] = 0
      /\ \A k \in 1..M : e[k - 1] < e[k]
  BY <1>4 DEF Cuts
<1>6. ASSUME NEW k \in 1..M
      PROVE  /\ e[k - 1] + 1 \in 1..m /\ e[k] \in (e[k - 1] + 1)..m
             /\ groups[k] = Run(e[k - 1] + 1, e[k])
  <2>1. k - 1 \in 0..M /\ k \in 0..M
    BY <1>5
  <2>2. e[k - 1] \in 0..m /\ e[k] \in 0..m /\ e[k - 1] < e[k]
    BY <1>4, <1>5, <2>1, CutsGrow
  <2> DEFINE lo == e[k - 1] + 1
             hi == e[k]
  <2>3. lo \in Nat \ {0} /\ hi \in Nat /\ lo - 1 <= hi /\ hi <= m - 1 + 1 /\ 1 + lo - 1 = lo
        /\ 1 + hi - 1 = hi /\ lo \in 1..m /\ hi \in lo..m
    BY <1>1, <2>2
  <2>4. groups[k] = SubSeq(Run(1, m), lo, hi)
    BY <1>4
  <2> HIDE DEF lo, hi
  <2>5. SubSeq(Run(1, m), lo, hi) = Run(1 + lo - 1, 1 + hi - 1)
    <3>1. 1 \in Nat /\ m \in Int /\ 1 - 1 <= m
      BY <1>1
    <3> QED BY <2>3, <3>1, RunPart
  <2>6. groups[k] = Run(lo, hi)
    BY <2>3, <2>4, <2>5
  <2> QED BY <2>3, <2>6 DEF lo, hi
<1>7. ASSUME NEW k \in 1..M
      PROVE  GroupRuns(out[k], e[k - 1] + 1, e[k])
  <2> DEFINE f == e[k - 1] + 1
             t == e[k]
             r == Packed(ch.max, 0, ss, Run(f, t))
  <2>1. f \in 1..m /\ t \in f..m /\ groups[k] = Run(f, t)
    BY <1>6
  <2>2. out[k] = Append(r.groups, r.current)
    <3> HIDE DEF f, t
    <3> QED BY <1>5, <2>1
  <2> HIDE DEF f, t, r, out
  <2>3. PICK h, n : Grouped(Append(r.groups, r.current), h, n, 0, f, t)
    <3>1. r = Packed(ch.max, 0, Between(c, m), Run(f, t)) /\ 0 \in {0, 1}
      BY DEF r, ss
    <3>2. \E h, n : /\ Grouped(Append(r.groups, r.current), h, n, 0, f, t)
                    /\ Greedy(c, ch.max, h, n, 0)
      BY <2>1, <3>1, PackedGroups
    <3> QED BY <3>2
  <2>4. f \in Nat \ {0} /\ t \in Nat /\ 0 \in {0, 1}
    BY <1>1, <2>1
  <2>5. GroupRuns(Append(r.groups, r.current), f, t)
    BY <2>3, <2>4, GroupedRuns
  <2> QED BY <2>2, <2>5 DEF f, t
<1>8. DOMAIN out = 1..M
  BY <1>5
<1> HIDE DEF out
<1>9. out \in Seq(Seq(Seq(Nat))) /\ Len(out) = M
  <2>1. \A k \in 1..M : out[k] \in Seq(Seq(Nat))
    BY <1>7 DEF GroupRuns
  <2>2. out = [k \in 1..M |-> out[k]]
    BY <1>8 DEF out
  <2> QED BY <1>5, <2>1, <2>2
<1>10. /\ FlattenSeq(out) \in Seq(Seq(Nat))
       /\ \A x : x \in Range(FlattenSeq(out)) <=> \E k \in 1..M : x \in Range(out[k])
  BY <1>9, FlattenRange
<1>11. GroupRuns(FlattenSeq(out), 1, m)
  <2>1. ASSUME NEW x \in Range(FlattenSeq(out))
        PROVE  \E lo \in 1..m : \E hi \in lo..m : x = Run(lo, hi)
    <3>1. PICK k \in 1..M : x \in Range(out[k])
      BY <1>10
    <3>2. PICK lo \in (e[k - 1] + 1)..e[k] : \E hi \in lo..e[k] : x = Run(lo, hi)
      BY <1>7, <3>1 DEF GroupRuns
    <3>3. PICK hi \in lo..e[k] : x = Run(lo, hi)
      BY <3>2
    <3>4. lo \in 1..m /\ hi \in lo..m
      BY <1>1, <1>6
    <3> QED BY <3>3, <3>4
  <2>2. ASSUME NEW s \in 1..m
        PROVE  \E lo \in 1..s : \E hi \in s..m : Run(lo, hi) \in Range(FlattenSeq(out))
    <3>1. PICK k \in 1..M : e[k - 1] < s /\ s <= e[k]
      <4>1. s \in Nat /\ 0 < s /\ s <= m
        BY <1>1
      <4> QED BY <1>4, <4>1, CutsCover
    <3>2. e[k - 1] + 1 \in 1..m /\ e[k] \in (e[k - 1] + 1)..m
      BY <1>6
    <3>3. s \in (e[k - 1] + 1)..e[k]
      <4>1. k - 1 \in 0..M /\ k \in 0..M
        BY <1>5
      <4>2. e[k - 1] \in Nat /\ e[k] \in Nat
        BY <1>5, <4>1
      <4> QED BY <1>1, <3>1, <4>2
    <3>4. PICK lo \in (e[k - 1] + 1)..s : \E hi \in s..e[k] : Run(lo, hi) \in Range(out[k])
      BY <1>7, <3>3 DEF GroupRuns
    <3>5. PICK hi \in s..e[k] : Run(lo, hi) \in Range(out[k])
      BY <3>4
    <3>6. lo \in 1..s /\ hi \in s..m
      BY <1>1, <3>2, <3>3
    <3> QED BY <1>10, <3>5, <3>6
  <2> QED BY <1>10, <2>1, <2>2 DEF GroupRuns
<1>12. GroupRuns(<<Run(1, m)>>, 1, m)
  BY <1>1, OneRun
<1> QED BY <1>2, <1>11, <1>12 DEF ss

-----------------------------------------------------------------------------
(* The chunks of a section.                                                *)

\* The kinds of chunkers that cut sections
Cutter(ch) ==
    \/ ch.name = "sentence" /\ ch.max \in Int /\ ch.overlap \in Nat
    \/ ch.name = "semantic" /\ ch.max \in Int

\* A sequence is one of its members.
LEMMA SequenceIs ==
    ASSUME NEW n \in Nat, NEW T, NEW t \in [1..n -> T]
    PROVE  t \in Seq(Range(t)) /\ Len(t) = n /\ DOMAIN t = 1..n /\ Range(t) = {t[i] : i \in 1..n}
<1>1. DOMAIN t = 1..n
  OBVIOUS
<1>2. Range(t) = {t[i] : i \in 1..n}
  BY <1>1 DEF Range
<1>3. t \in Seq({t[i] : i \in 1..n}) /\ Len(t) = n
  <2>1. t \in [1..n -> {t[i] : i \in 1..n}]
    OBVIOUS
  <2> QED BY <2>1
<1>4. t \in Seq(Range(t))
  BY <1>2, <1>3
<1>5. Len(t) = n
  BY <1>3
<1> QED
  <2>1. t \in Seq(Range(t)) /\ Len(t) = n
    BY <1>4, <1>5
  <2>2. DOMAIN t = 1..n /\ Range(t) = {t[i] : i \in 1..n}
    BY <1>1, <1>2
  <2> QED BY <2>1, <2>2

\* A sequence is one over its own members.
LEMMA SequenceOf ==
    ASSUME NEW S, NEW s \in Seq(S)
    PROVE  s \in Seq(Range(s))
<1>1. Len(s) \in Nat /\ s \in [1..Len(s) -> S]
  OBVIOUS
<1> QED BY <1>1, SequenceIs

\* What FlattenSeq does to lists of any kind.
LEMMA FlattenAny ==
    ASSUME NEW n \in Nat, NEW T, NEW ss \in [1..n -> T],
           \A k \in 1..n : ss[k] \in Seq(Range(ss[k]))
    PROVE  /\ FlattenSeq(ss) \in Seq(Range(FlattenSeq(ss)))
           /\ \A x : x \in Range(FlattenSeq(ss)) <=> \E k \in 1..n : x \in Range(ss[k])
<1> DEFINE S == UNION {Range(ss[k]) : k \in 1..n}
<1>1. \A k \in 1..n : ss[k] \in Seq(S)
  <2> SUFFICES ASSUME NEW k \in 1..n PROVE ss[k] \in Seq(S)
    OBVIOUS
  <2>1. Range(ss[k]) \subseteq S
    OBVIOUS
  <2> DEFINE R == Range(ss[k])
  <2>2. ss[k] \in Seq(R)
    OBVIOUS
  <2> HIDE DEF S, R
  <2>3. R \subseteq S
    BY <2>1 DEF R
  <2>4. DOMAIN ss[k] = 1..Len(ss[k]) /\ Len(ss[k]) \in Nat /\ \A i \in 1..Len(ss[k]) : ss[k][i] \in S
    BY <2>2, <2>3
  <2>5. ss[k] = [i \in 1..Len(ss[k]) |-> ss[k][i]]
    BY <2>2
  <2> QED BY <2>4, <2>5
<1> HIDE DEF S
<1>2. ss \in Seq(Seq(S)) /\ Len(ss) = n
  BY <1>1
<1>3. /\ FlattenSeq(ss) \in Seq(S)
      /\ \A x : x \in Range(FlattenSeq(ss)) <=> \E k \in 1..n : x \in Range(ss[k])
  BY <1>2, FlattenRange
<1>4. FlattenSeq(ss) \in Seq(Range(FlattenSeq(ss)))
  BY <1>3, SequenceOf
<1> QED BY <1>3, <1>4

\* SentenceChunker._group, however long the overlap: sentences of the section.
LEMMA SentenceGroupsType ==
    ASSUME NEW m \in Nat \ {0}, NEW ss, Len(ss) = m, NEW ch, ch.overlap \in Nat
    PROVE  SentenceGroups(ch, ss) \in Seq(Seq(1..m))
<1> DEFINE all == Run(1, m)
           r == Packed(ch.max, ch.overlap, ss, all)
           S == 1..m
           scrap == SubSeq(r.current, ch.overlap + 1, Len(r.current))
<1>1. all \in Seq(S)
  <2>1. all \in Seq(Nat) /\ Len(all) = m - 1 + 1 /\ \A i \in 1..(m - 1 + 1) : all[i] = 1 + i - 1
    <3>1. 1 \in Nat /\ m \in Int /\ 1 - 1 <= m
      OBVIOUS
    <3> HIDE DEF S
    <3> QED BY <3>1, RunIs
  <2>2. m - 1 + 1 = m /\ \A i \in 1..m : 1 + i - 1 = i
    OBVIOUS
  <2> HIDE DEF all
  <2>3. Len(all) = m /\ \A i \in 1..m : all[i] \in S
    BY <2>1, <2>2
  <2>4. all = [i \in 1..m |-> all[i]]
    BY <2>1, <2>3
  <2> QED BY <2>3, <2>4
<1>2. r \in GroupsOf(S)
  <2>1. PICK f : PackedBy(S, ch.max, ch.overlap, ss, all, f)
    <3> HIDE DEF all, S
    <3> QED BY <1>1, PackedIs
  <2>2. Len(all) \in Nat /\ Len(all) \in 0..Len(all)
    <3> HIDE DEF all, S
    <3> QED BY <1>1
  <2> HIDE DEF all, S
  <2> QED BY <2>1, <2>2 DEF PackedBy
<1> HIDE DEF S
<1>3. r.groups \in Seq(Seq(S)) /\ r.current \in Seq(S)
  <2> HIDE DEF r
  <2> QED BY <1>2 DEF GroupsOf
<1>4. SentenceGroups(ch, ss) = IF r.groups # <<>> /\ Tokens(ss, r.current) < ch.min
                               THEN [r.groups EXCEPT ![Len(r.groups)] = @ \o scrap]
                               ELSE Append(r.groups, r.current)
  BY DEF SentenceGroups, FoldScrap
<1>5. scrap \in Seq(S)
  <2> HIDE DEF r
  <2>1. Len(r.current) \in Nat /\ ch.overlap + 1 \in Nat /\ ch.overlap + 1 >= 1
    BY <1>3
  <2> QED BY <1>3, <2>1
<1> HIDE DEF r, scrap
<1>6. Append(r.groups, r.current) \in Seq(Seq(S))
  BY <1>3
<1>7. r.groups # <<>> => [r.groups EXCEPT ![Len(r.groups)] = @ \o scrap] \in Seq(Seq(S))
  <2> SUFFICES ASSUME r.groups # <<>>
               PROVE  [r.groups EXCEPT ![Len(r.groups)] = @ \o scrap] \in Seq(Seq(S))
    OBVIOUS
  <2>1. Len(r.groups) \in 1..Len(r.groups) /\ r.groups[Len(r.groups)] \in Seq(S)
    BY <1>3
  <2>2. r.groups[Len(r.groups)] \o scrap \in Seq(S)
    BY <1>5, <2>1
  <2> QED BY <1>3, <2>1, <2>2
<1> QED BY <1>4, <1>6, <1>7 DEF S

\* Groups of sentences are sequences of their numbers.
LEMMA RunsType ==
    ASSUME NEW m \in Nat, NEW groups, GroupRuns(groups, 1, m)
    PROVE  groups \in Seq(Seq(1..m))
<1>1. groups \in Seq(Seq(Nat))
      /\ \A x \in Range(groups) : \E lo \in 1..m : \E hi \in lo..m : x = Run(lo, hi)
  BY DEF GroupRuns
<1>2. ASSUME NEW k \in 1..Len(groups) PROVE groups[k] \in Seq(1..m)
  <2>1. groups[k] \in Range(groups)
    BY <1>1, RangeIs
  <2>2. PICK lo \in 1..m : \E hi \in lo..m : groups[k] = Run(lo, hi)
    BY <1>1, <2>1
  <2>3. PICK hi \in lo..m : groups[k] = Run(lo, hi)
    BY <2>2
  <2>4. lo \in Nat /\ hi \in Int /\ lo - 1 <= hi /\ hi - lo + 1 \in Nat
        /\ \A i \in 1..(hi - lo + 1) : lo + i - 1 \in 1..m
    OBVIOUS
  <2> DEFINE g == Run(lo, hi)
  <2>5. g \in Seq(Nat) /\ Len(g) = hi - lo + 1 /\ \A i \in 1..(hi - lo + 1) : g[i] = lo + i - 1
    BY <2>4, RunIs
  <2> HIDE DEF g
  <2>6. \A i \in 1..Len(g) : g[i] \in 1..m
    BY <2>4, <2>5
  <2>7. g = [i \in 1..Len(g) |-> g[i]] /\ Len(g) \in Nat
    BY <2>5
  <2>8. g \in Seq(1..m)
    BY <2>6, <2>7
  <2> QED BY <2>3, <2>8 DEF g
<1>3. groups = [k \in 1..Len(groups) |-> groups[k]] /\ Len(groups) \in Nat
  BY <1>1
<1> QED BY <1>2, <1>3

\* The chunk of the sentences lo to hi of a section
Placed(words, sec, c, lo, hi) ==
    ChunkOf(Respelled(words, sec.text), Run(c[lo - 1] + 1, c[hi]),
            sec.start + Find(Respelled(words, sec.text), Run(c[lo - 1] + 1, c[lo]), words, sec.text),
            sec.path, 0)

\* The chunks of groups of a section's sentences
Grouping(words, sec, c, m, groups, out) ==
    /\ out \in Seq(Range(out)) /\ Len(out) = Len(groups)
    /\ \A k \in 1..Len(groups) : /\ out[k].text = Join(Between(c, m), groups[k])
                                 /\ out[k].path = sec.path
    /\ \A k \in 1..Len(groups) : \A lo, hi \in 1..m :
          lo <= hi /\ groups[k] = Run(lo, hi) => out[k] = Placed(words, sec, c, lo, hi)

\* What a chunker makes of the groups of a section's sentences
LEMMA GroupChunks ==
    ASSUME NEW words, NEW sec, NEW ch, NEW c, NEW m, NEW from, NEW to, Cuts(c, m, from, to), m # 0,
           SplitSentences(words, sec.text) = Between(c, m),
           NEW groups, groups = IF ch.name = "sentence" THEN SentenceGroups(ch, Between(c, m))
                                ELSE SemanticGroups(ch, Between(c, m)),
           groups \in Seq(Seq(Nat))
    PROVE  Grouping(words, sec, c, m, groups, SectionChunks(ch, words, sec))
<1> DEFINE ss == Between(c, m)
           sp == Respelled(words, sec.text)
           E(k) == ChunkOf(sp, Join(ss, groups[k]),
                           sec.start + Find(sp, ss[groups[k][1]], words, sec.text), sec.path, 0)
           out == [k \in 1..Len(groups) |-> E(k)]
<1>1. m \in Nat /\ Len(ss) = m /\ ss # <<>> /\ \A k \in 1..m : ss[k] = Run(c[k - 1] + 1, c[k])
  <2>1. m \in Nat
    BY DEF Cuts
  <2>2. ss \in Seq(Seq(Nat)) /\ Len(ss) = m /\ \A k \in 1..m : ss[k] = Run(c[k - 1] + 1, c[k])
    BY BetweenIs
  <2> HIDE DEF ss
  <2>3. ss # <<>>
    BY <2>1, <2>2
  <2> QED BY <2>1, <2>2, <2>3
<1>2. DOMAIN groups = 1..Len(groups) /\ Len(groups) \in Nat
  OBVIOUS
<1>3. SectionChunks(ch, words, sec) = out
  <2>1. SplitSentences(words, sec.text) = ss
    OBVIOUS
  <2>2. groups = IF ch.name = "sentence" THEN SentenceGroups(ch, ss) ELSE SemanticGroups(ch, ss)
    OBVIOUS
  <2> HIDE DEF ss
  <2>3. out = [k \in DOMAIN groups |-> E(k)]
    BY <1>2
  <2> QED BY <1>1, <2>1, <2>2, <2>3 DEF SectionChunks
<1>4. out \in Seq(Range(out)) /\ Len(out) = Len(groups)
  <2>1. out \in [1..Len(groups) -> {E(k) : k \in 1..Len(groups)}]
    OBVIOUS
  <2> HIDE DEF out, E
  <2> QED BY <1>2, <2>1, SequenceIs
<1>5. \A k \in 1..Len(groups) : out[k] = E(k)
  OBVIOUS
<1>6. \A k \in 1..Len(groups) : out[k].text = Join(ss, groups[k]) /\ out[k].path = sec.path
  <2> SUFFICES ASSUME NEW k \in 1..Len(groups)
               PROVE  out[k].text = Join(ss, groups[k]) /\ out[k].path = sec.path
    OBVIOUS
  <2> DEFINE text == Join(ss, groups[k])
             start == sec.start + Find(sp, ss[groups[k][1]], words, sec.text)
  <2>1. out[k] = ChunkOf(sp, text, start, sec.path, 0)
    BY <1>5
  <2> HIDE DEF text, start, out, sp
  <2>2. out[k].text = text /\ out[k].path = sec.path
    BY <2>1 DEF ChunkOf
  <2> QED BY <2>2 DEF text
<1>7. ASSUME NEW k \in 1..Len(groups), NEW lo \in 1..m, NEW hi \in 1..m,
             lo <= hi, groups[k] = Run(lo, hi)
      PROVE  out[k] = Placed(words, sec, c, lo, hi)
  <2>1. groups[k][1] = lo
    <3> DEFINE g == Run(lo, hi)
    <3>1. lo \in Nat /\ hi \in Int /\ lo - 1 <= hi /\ 1 \in 1..(hi - lo + 1) /\ lo + 1 - 1 = lo
      BY <1>1, <1>7
    <3>2. \A i \in 1..(hi - lo + 1) : g[i] = lo + i - 1
      BY <3>1, RunIs
    <3> HIDE DEF g
    <3>3. g[1] = lo
      BY <3>1, <3>2
    <3> QED BY <1>7, <3>3 DEF g
  <2>2. ss[lo] = Run(c[lo - 1] + 1, c[lo])
    BY <1>1
  <2>3. Join(ss, groups[k]) = Run(c[lo - 1] + 1, c[hi])
    BY <1>7, JoinIs
  <2> HIDE DEF out, ss
  <2> QED BY <1>5, <2>1, <2>2, <2>3 DEF Placed
<1> HIDE DEF out
<1> QED BY <1>3, <1>4, <1>6, <1>7 DEF Grouping

\* The chunkers whose overlap loses no text
Short(ch) == Cutter(ch) /\ (ch.name = "sentence" => ch.overlap \in {0, 1})

\* The chunks of a section: runs of its sentences, that leave none out.
SectionCut(words, sec, c, m, out) ==
    /\ out \in Seq(Range(out))
    /\ \A x \in Range(out) :
          \E lo \in 1..m : \E hi \in lo..m : x = Placed(words, sec, c, lo, hi)
    /\ \A s \in 1..m :
          \E lo \in 1..s : \E hi \in s..m : Placed(words, sec, c, lo, hi) \in Range(out)

\* SentenceChunker and SemanticChunker make one chunk of each group of a section.
LEMMA SectionChunksAre ==
    ASSUME NEW words, NEW sec, NEW ch, Short(ch), NEW c, NEW m, NEW from, NEW to, Cuts(c, m, from, to),
           SplitSentences(words, sec.text) = Between(c, m)
    PROVE  SectionCut(words, sec, c, m, SectionChunks(ch, words, sec))
<1> DEFINE ss == Between(c, m)
           out == SectionChunks(ch, words, sec)
<1>1. m \in Nat /\ Len(ss) = m /\ ss \in Seq(Seq(Nat))
  <2>1. m \in Nat
    BY DEF Cuts
  <2> QED BY <2>1, BetweenIs
<1>2. CASE m = 0
  <2>1. ss = <<>>
    <3> HIDE DEF ss
    <3> QED BY <1>1, <1>2
  <2>2. out = <<>>
    BY <2>1 DEF SectionChunks
  <2>3. <<>> \in Seq({}) /\ Len(<<>>) = 0
    OBVIOUS
  <2>4. <<>> \in Seq(Range(<<>>)) /\ \A x : x \notin Range(<<>>)
    <3>1. \A x : x \in Range(<<>>) <=> \E i \in 1..Len(<<>>) : <<>>[i] = x
      BY <2>3, RangeIs
    <3>2. Range(<<>>) = {}
      BY <2>3, <3>1
    <3> QED BY <2>3, <3>2
  <2>5. 1..m = {}
    BY <1>2
  <2> HIDE DEF out
  <2> QED BY <2>2, <2>4, <2>5 DEF SectionCut, out
<1>3. CASE m # 0
  <2> DEFINE groups == IF ch.name = "sentence" THEN SentenceGroups(ch, Between(c, m))
                       ELSE SemanticGroups(ch, Between(c, m))
  <2>1. GroupRuns(groups, 1, m)
    <3>1. CASE ch.name = "sentence"
      <4>1. ch.max \in Int /\ ch.overlap \in {0, 1}
        BY <3>1 DEF Short, Cutter
      <4>2. \E h, n : Grouped(SentenceGroups(ch, Between(c, m)), h, n, ch.overlap, 1, m)
        <5> DEFINE keep == ch.overlap
        <5>1. keep \in {0, 1} /\ ch.overlap = keep
          BY <4>1
        <5> HIDE DEF keep
        <5>2. \E h, n : /\ Grouped(SentenceGroups(ch, Between(c, m)), h, n, keep, 1, m)
                        /\ Greedy(c, ch.max, h, n, keep)
          BY <1>3, <4>1, <5>1, SentenceGroupsAre
        <5> QED BY <5>1, <5>2
      <4>3. GroupRuns(SentenceGroups(ch, Between(c, m)), 1, m)
        BY <1>1, <4>1, <4>2, GroupedRuns
      <4> QED BY <3>1, <4>3
    <3>2. CASE ch.name # "sentence"
      <4>1. ch.max \in Int
        BY DEF Short, Cutter
      <4>2. GroupRuns(SemanticGroups(ch, Between(c, m)), 1, m)
        BY <1>3, <4>1, SemanticGroupsAre
      <4> QED BY <3>2, <4>2
    <3> QED BY <3>1, <3>2
  <2> HIDE DEF groups
  <2>2. groups \in Seq(Seq(Nat))
    BY <2>1 DEF GroupRuns
  <2>3. /\ out \in Seq(Range(out)) /\ Len(out) = Len(groups)
        /\ \A k \in 1..Len(groups) : \A lo, hi \in 1..m :
              lo <= hi /\ groups[k] = Run(lo, hi) => out[k] = Placed(words, sec, c, lo, hi)
    <3>1. groups = IF ch.name = "sentence" THEN SentenceGroups(ch, Between(c, m))
                   ELSE SemanticGroups(ch, Between(c, m))
      BY DEF groups
    <3>2. Grouping(words, sec, c, m, groups, SectionChunks(ch, words, sec))
      BY <1>3, <2>2, <3>1, GroupChunks
    <3> HIDE DEF groups
    <3> QED BY <3>2 DEF Grouping
  <2> HIDE DEF out
  <2>4. ASSUME NEW x \in Range(out)
        PROVE  \E lo \in 1..m : \E hi \in lo..m : x = Placed(words, sec, c, lo, hi)
    <3>1. PICK k \in 1..Len(groups) : out[k] = x
      BY <2>3, RangeIs
    <3>2. groups[k] \in Range(groups)
      BY <2>2, RangeIs
    <3>3. PICK lo \in 1..m : \E hi \in lo..m : groups[k] = Run(lo, hi)
      BY <2>1, <3>2 DEF GroupRuns
    <3>4. PICK hi \in lo..m : groups[k] = Run(lo, hi)
      BY <3>3
    <3>5. hi \in 1..m /\ lo <= hi
      OBVIOUS
    <3> QED BY <2>3, <3>1, <3>4, <3>5
  <2>5. ASSUME NEW s \in 1..m
        PROVE  \E lo \in 1..s : \E hi \in s..m : Placed(words, sec, c, lo, hi) \in Range(out)
    <3>1. PICK lo \in 1..s : \E hi \in s..m : Run(lo, hi) \in Range(groups)
      BY <2>1 DEF GroupRuns
    <3>2. PICK hi \in s..m : Run(lo, hi) \in Range(groups)
      BY <3>1
    <3>3. PICK k \in 1..Len(groups) : groups[k] = Run(lo, hi)
      BY <2>2, <3>2, RangeIs
    <3>4. lo \in 1..m /\ hi \in 1..m /\ lo <= hi
      BY <1>1
    <3>5. out[k] = Placed(words, sec, c, lo, hi)
      BY <2>3, <3>3, <3>4
    <3>6. out[k] \in Range(out)
      BY <2>3, RangeIs
    <3> QED BY <3>5, <3>6
  <2> QED BY <2>3, <2>4, <2>5 DEF SectionCut, out
<1> QED BY <1>2, <1>3

-----------------------------------------------------------------------------
(* Windows: where they begin (e), each a step behind the one before; all   *)
(* but the last are full.                                                  *)

WindowStarts(n, size, step, W, e) ==
    /\ W \in Nat /\ e \in [0..W -> Nat] /\ e[0] = 0
    /\ \A k \in 1..W : e[k] = e[k - 1] + step
    /\ \A k \in 0..(W - 1) : e[k] + size < n
    /\ e[W] + size >= n

\* Window k + 1 of a text that is the run of n words from a
Window(words, text, a, n, size, W, e, k) ==
    ChunkOf(Windowed(words), Run(a + e[k], a + (IF k = W THEN n ELSE e[k] + size) - 1),
            Offset(words, text, e[k]), <<>>, 0)

\* FixedSizeChunker's windows begin a step behind each other.
LEMMA WindowsAre ==
    ASSUME NEW n \in Nat \ {0}, NEW size \in Nat \ {0}, NEW overlap \in 0..(size - 1)
    PROVE  \E e : /\ WindowStarts(n, size, size - overlap, Windows(n, size, overlap), e)
                  /\ \A k \in 0..Windows(n, size, overlap) : e[k] = k * (size - overlap)
<1> DEFINE W == Windows(n, size, overlap)
<1>1. PICK step \in Nat \ {0} : step = size - overlap /\ step <= size
  OBVIOUS
<1> DEFINE S == {k \in 0..n : k * step + size >= n}
           e == [k \in 0..W |-> k * step]
<1>2. \A k \in Nat : k * step \in Nat /\ (k + 1) * step = k * step + step /\ k * step >= k
  <2>1. ASSUME NEW k \in Nat PROVE k * step \in Nat /\ (k + 1) * step = k * step + step
    BY <1>1
  <2>2. ASSUME NEW k \in Nat PROVE k * step >= k
    <3>1. step - 1 \in Nat /\ k * (step - 1) \in Nat
      BY <1>1
    <3>2. k * step = k * (step - 1) + k
      BY <1>1
    <3>3. k * step \in Nat
      BY <1>1
    <3> DEFINE x == k * step
               y == k * (step - 1)
    <3> HIDE DEF x, y
    <3>4. x = y + k /\ y \in Nat /\ x \in Nat
      BY <3>1, <3>2, <3>3 DEF x, y
    <3>5. x >= k
      BY <3>4
    <3> QED BY <3>5 DEF x
  <2> QED BY <2>1, <2>2
<1>3. 0 * step = 0
  BY <1>1
<1>4. n \in S /\ S \subseteq Nat
  <2>1. n * step \in Nat /\ n * step >= n
    BY <1>2
  <2> DEFINE x == n * step
  <2> HIDE DEF x
  <2>2. x + size >= n
    BY <2>1 DEF x
  <2>3. n * step + size >= n
    BY <2>2 DEF x
  <2> QED BY <2>3
<1>5. W = Min(S)
  BY <1>1 DEF Windows
<1>6. W \in S /\ \A k \in S : W <= k
  <2> HIDE DEF S, W
  <2> QED BY <1>4, <1>5, MinIs
<1>7. W \in 0..n /\ W * step + size >= n
  <2> HIDE DEF W
  <2> QED BY <1>6
<1>8. ASSUME NEW k \in 0..(W - 1) PROVE k * step + size < n
  <2>1. k \in 0..n /\ k \in Nat /\ ~(W <= k)
    BY <1>7
  <2>2. ~(k * step + size >= n)
    <3> HIDE DEF W
    <3> QED BY <1>6, <2>1
  <2>3. k * step \in Nat
    BY <1>2, <2>1
  <2> DEFINE x == k * step
  <2> HIDE DEF x, W
  <2>4. x + size < n
    BY <2>2, <2>3 DEF x
  <2> QED BY <2>4 DEF x
<1> HIDE DEF W, S
<1>9. W \in Nat
  BY <1>7
<1>10. e \in [0..W -> Nat] /\ \A k \in 0..W : e[k] = k * step
  BY <1>2, <1>9
<1> HIDE DEF e
<1>11. e[0] = 0 /\ W \in 0..W
  BY <1>3, <1>9, <1>10
<1>12. ASSUME NEW k \in 1..W PROVE e[k] = e[k - 1] + step
  <2>1. k \in 0..W /\ k - 1 \in 0..W /\ k - 1 \in Nat /\ (k - 1) + 1 = k
    BY <1>9
  <2>2. ((k - 1) + 1) * step = (k - 1) * step + step
    BY <1>2, <2>1
  <2>3. k * step = (k - 1) * step + step
    BY <2>1, <2>2
  <2> QED BY <1>10, <2>1, <2>3
<1>13. \A k \in 0..(W - 1) : k \in 0..W
  BY <1>9
<1>14. /\ \A k \in 0..(W - 1) : e[k] + size < n
       /\ e[W] + size >= n
  BY <1>7, <1>8, <1>10, <1>11, <1>13
<1>15. WindowStarts(n, size, step, W, e)
  BY <1>9, <1>10, <1>11, <1>12, <1>14 DEF WindowStarts
<1> QED BY <1>1, <1>10, <1>15 DEF W

\* Where windows begin and end
LEMMA WindowIn ==
    ASSUME NEW n \in Nat \ {0}, NEW size \in Nat \ {0}, NEW step \in 1..size, NEW W, NEW e,
           WindowStarts(n, size, step, W, e), NEW k \in 0..W
    PROVE  /\ e[k] \in 0..(n - 1)
           /\ (IF k = W THEN n ELSE e[k] + size) \in (e[k] + 1)..n
           /\ (IF k = W THEN n ELSE e[k] + size) <= e[k] + size
<1>1. /\ W \in Nat /\ e \in [0..W -> Nat] /\ e[0] = 0 /\ e[k] \in Nat
      /\ \A j \in 1..W : e[j] = e[j - 1] + step
      /\ \A j \in 0..(W - 1) : e[j] + size < n
      /\ e[W] + size >= n
  BY DEF WindowStarts
<1>2. e[k] < n
  <2>1. CASE k = 0
    BY <1>1, <2>1
  <2>2. CASE k # 0
    <3>1. k \in 1..W /\ k - 1 \in 0..(W - 1) /\ k - 1 \in 0..W
      BY <1>1, <2>2
    <3>2. e[k - 1] \in Nat /\ e[k] = e[k - 1] + step /\ e[k - 1] + size < n
      BY <1>1, <3>1
    <3> QED BY <3>2
  <2> QED BY <2>1, <2>2
<1>3. CASE k = W
  <2>1. e[k] + size >= n
    BY <1>1, <1>3
  <2>2. (IF k = W THEN n ELSE e[k] + size) = n
    BY <1>3
  <2> HIDE <1>3
  <2>3. e[k] \in Nat
    BY <1>1
  <2> QED BY <1>2, <2>1, <2>2, <2>3
<1>4. CASE k # W
  <2>1. k \in 0..(W - 1)
    BY <1>1, <1>4
  <2>2. e[k] + size < n
    BY <1>1, <2>1
  <2> QED BY <1>1, <1>2, <1>4, <2>2
<1> QED BY <1>3, <1>4

\* The windows of the words a to b
WindowsOf(ch, words, a, b, W, e) ==
    /\ WindowStarts(b - a + 1, ch.size, ch.size - ch.overlap, W, e)
    /\ FixedChunks(ch, words, Run(a, b)) =
         [k \in 1..(W + 1) |-> Window(words, Run(a, b), a, b - a + 1, ch.size, W, e, k - 1)]

\* FixedChunker.chunk of a run of words
LEMMA FixedChunksAre ==
    ASSUME NEW a \in Nat \ {0}, NEW b \in Nat, a <= b, NEW ch, NEW words,
           ch.size \in Nat \ {0}, ch.overlap \in 0..(ch.size - 1)
    PROVE  \E W, e : WindowsOf(ch, words, a, b, W, e)
<1> DEFINE n == b - a + 1
           size == ch.size
           overlap == ch.overlap
           step == size - overlap
           W == Windows(n, size, overlap)
           text == Run(a, b)
<1>1. n \in Nat \ {0} /\ size \in Nat \ {0} /\ overlap \in 0..(size - 1) /\ step \in 1..size
      /\ a + n - 1 = b
  <2> HIDE DEF size, overlap
  <2>1. size \in Nat \ {0} /\ overlap \in 0..(size - 1)
    BY DEF size, overlap
  <2> QED BY <2>1
<1> HIDE DEF n, size, overlap
<1>2. PICK e : /\ WindowStarts(n, size, size - overlap, Windows(n, size, overlap), e)
               /\ \A k \in 0..Windows(n, size, overlap) : e[k] = k * (size - overlap)
  BY <1>1, WindowsAre
<1> HIDE DEF W
<1>3. WindowStarts(n, size, step, W, e) /\ \A k \in 0..W : e[k] = k * (size - overlap)
  BY <1>2 DEF W
<1>4. /\ W \in Nat /\ e \in [0..W -> Nat]
      /\ \A j \in 0..(W - 1) : e[j] + size < n
      /\ e[W] + size >= n
  BY <1>3 DEF WindowStarts
<1>5. Len(text) = n /\ text # <<>>
  <2>1. b \in Int /\ a - 1 <= b /\ ~(b = a - 1)
    OBVIOUS
  <2>2. Len(text) = b - a + 1 /\ text # <<>>
    BY <2>1, RunIs
  <2> QED BY <2>2 DEF n
<1>6. ASSUME NEW k \in 1..(W + 1)
      PROVE  LET from == (k - 1) * (size - overlap)
             IN ChunkOf(Windowed(words), SubSeq(text, from + 1, Min({from + size, n})),
                        Offset(words, text, from), <<>>, 0)
                  = Window(words, text, a, n, size, W, e, k - 1)
  <2> DEFINE j == k - 1
             hi == IF j = W THEN n ELSE e[j] + size
  <2>1. j \in 0..W
    BY <1>4
  <2> HIDE DEF j
  <2>2. j * (size - overlap) = e[j]
    BY <1>3, <2>1
  <2>3. e[j] \in 0..(n - 1) /\ hi \in (e[j] + 1)..n
    <3> HIDE DEF hi
    <3> QED BY <1>1, <1>3, <2>1, WindowIn DEF hi
  <2>4. Min({e[j] + size, n}) = hi
    <3>1. e[j] + size \in Int /\ n \in Int
      BY <1>1, <2>3
    <3> DEFINE x == e[j] + size
    <3>2. Min({x, n}) = IF x <= n THEN x ELSE n
      <4> HIDE DEF x
      <4> QED BY <3>1, MinOfTwo DEF x
    <3>3. CASE j = W
      <4>1. e[j] + size >= n /\ hi = n
        BY <1>4, <3>3
      <4> HIDE DEF hi
      <4> QED BY <1>1, <3>1, <3>2, <4>1
    <3>4. CASE j # W
      <4>1. j \in 0..(W - 1)
        BY <1>4, <2>1, <3>4
      <4>2. x < n
        BY <1>4, <4>1
      <4> QED BY <1>1, <3>1, <3>2, <3>4, <4>2
    <3> QED BY <3>3, <3>4
  <2> DEFINE lo == e[j] + 1
  <2>5. lo \in Nat \ {0} /\ hi \in Nat /\ lo - 1 <= hi /\ hi <= b - a + 1
        /\ a + lo - 1 = a + e[j]
    <3> HIDE DEF hi
    <3> QED BY <1>1, <2>3 DEF n
  <2> HIDE DEF lo, hi
  <2>6. SubSeq(text, lo, hi) = Run(a + lo - 1, a + hi - 1)
    <3>1. a \in Nat /\ b \in Int /\ a - 1 <= b
      OBVIOUS
    <3> QED BY <2>5, <3>1, RunPart
  <2>7. SubSeq(text, e[j] + 1, Min({e[j] + size, n})) = Run(a + e[j], a + hi - 1)
    BY <2>4, <2>5, <2>6 DEF lo
  <2> HIDE DEF text
  <2>8. Window(words, text, a, n, size, W, e, j) = ChunkOf(Windowed(words), Run(a + e[j], a + hi - 1), Offset(words, text, e[j]), <<>>, 0)
    BY DEF Window, hi
  <2>9. j = k - 1
    BY DEF j
  <2> QED BY <2>2, <2>7, <2>8, <2>9
<1>7. FixedChunks(ch, words, text) = [k \in 1..(W + 1) |-> Window(words, text, a, n, size, W, e, k - 1)]
  <2>1. FixedChunks(ch, words, text) =
          [k \in 1..(W + 1) |->
             LET from == (k - 1) * (size - overlap)
             IN ChunkOf(Windowed(words), SubSeq(text, from + 1, Min({from + size, n})),
                        Offset(words, text, from), <<>>, 0)]
    <3> HIDE DEF text
    <3> QED BY <1>5 DEF FixedChunks, W, size, overlap
  <2> HIDE DEF text
  <2> QED BY <1>6, <2>1
<1> QED BY <1>3, <1>7 DEF n, size, overlap, WindowsOf

-----------------------------------------------------------------------------
(* No word is lost.                                                        *)

IsChunk(x) == {"words", "text", "start", "end", "path", "parent"} \subseteq DOMAIN x

\* Chunks that are runs of the words W, and leave none out
RunsOver(out, W) ==
    /\ out \in Seq(Range(out))
    /\ \A x \in Range(out) :
          /\ IsChunk(x)
          /\ \E p \in Nat \ {0} : \E q \in Nat : p <= q /\ x.text = Run(p, q) /\ p..q \subseteq W
    /\ \A w \in W : \E x \in Range(out) : w \in Range(x.text)

\* The fields of a chunk.
LEMMA ChunkIs ==
    ASSUME NEW words, NEW text, NEW start, NEW path, NEW parent,
           NEW x, x = ChunkOf(words, text, start, path, parent)
    PROVE  /\ IsChunk(x)
           /\ x.words = words /\ x.text = text
           /\ x.start = start /\ x.end = start + Chars(Spelled(words, text))
           /\ x.path = path /\ x.parent = parent
BY DEF ChunkOf, IsChunk

\* No chunks: no members.
LEMMA NoRuns == <<>> \in Seq(Range(<<>>)) /\ \A x : x \notin Range(<<>>)
<1>1. <<>> \in Seq({}) /\ Len(<<>>) = 0
  OBVIOUS
<1>2. \A x : x \in Range(<<>>) <=> \E i \in 1..Len(<<>>) : <<>>[i] = x
  BY <1>1, RangeIs
<1>3. Range(<<>>) = {}
  BY <1>1, <1>2
<1> QED BY <1>1, <1>3

\* FixedChunker.chunk of a run of words
LEMMA FixedRuns ==
    ASSUME NEW a \in Nat \ {0}, NEW b \in Nat, a - 1 <= b, NEW ch, NEW words,
           ch.size \in Nat \ {0}, ch.overlap \in 0..(ch.size - 1)
    PROVE  RunsOver(FixedChunks(ch, words, Run(a, b)), a..b)
<1>1. CASE b = a - 1
  <2>1. Run(a, b) = <<>>
    BY <1>1, RunIs
  <2>2. FixedChunks(ch, words, Run(a, b)) = <<>>
    BY <2>1 DEF FixedChunks
  <2>3. a..b = {}
    BY <1>1
  <2> QED BY <2>2, <2>3, NoRuns DEF RunsOver
<1>2. CASE b # a - 1
  <2> DEFINE n == b - a + 1
             size == ch.size
             step == size - ch.overlap
             text == Run(a, b)
             out == FixedChunks(ch, words, Run(a, b))
  <2>1. a <= b /\ n \in Nat \ {0} /\ size \in Nat \ {0} /\ step \in 1..size
    BY <1>2
  <2>2. PICK W, e : /\ WindowStarts(n, size, step, W, e)
                    /\ out = [k \in 1..(W + 1) |-> Window(words, text, a, n, size, W, e, k - 1)]
    <3> HIDE DEF out
    <3>1. PICK W, e : WindowsOf(ch, words, a, b, W, e)
      BY <2>1, FixedChunksAre
    <3> QED BY <3>1 DEF out, WindowsOf
  <2> HIDE DEF out, n, size, step, text
  <2>3. /\ W \in Nat /\ e \in [0..W -> Nat] /\ e[0] = 0 /\ W + 1 \in Nat
        /\ \A k \in 1..W : e[k] = e[k - 1] + step
        /\ e[W] + size >= n
    BY <2>2 DEF WindowStarts
  <2> DEFINE To(k) == IF k = W THEN n ELSE e[k] + size
  <2>4. ASSUME NEW k \in 0..W
        PROVE  /\ e[k] \in 0..(n - 1) /\ To(k) \in (e[k] + 1)..n
    BY <2>1, <2>2, WindowIn
  <2>5. out \in Seq(Range(out)) /\ Len(out) = W + 1
        /\ Range(out) = {out[k] : k \in 1..(W + 1)}
    <3> DEFINE N == W + 1
               T == {Window(words, text, a, n, size, W, e, k - 1) : k \in 1..N}
    <3>1. out \in [1..N -> T] /\ N \in Nat
      BY <2>2, <2>3
    <3> HIDE DEF N, T
    <3>2. out \in Seq(Range(out)) /\ Len(out) = N /\ Range(out) = {out[k] : k \in 1..N}
      BY <3>1, SequenceIs
    <3> QED BY <3>2 DEF N
  <2>6. ASSUME NEW k \in 0..W
        PROVE  /\ k + 1 \in 1..(W + 1) /\ (k + 1) - 1 = k
               /\ out[k + 1] = ChunkOf(Windowed(words), Run(a + e[k], a + To(k) - 1),
                                   Offset(words, text, e[k]), <<>>, 0)
    <3>1. k + 1 \in 1..(W + 1) /\ (k + 1) - 1 = k
      BY <2>3
    <3>2. out[k + 1] = Window(words, text, a, n, size, W, e, k)
      BY <2>2, <3>1
    <3> QED BY <3>1, <3>2 DEF Window
  <2>7. ASSUME NEW x \in Range(out)
        PROVE  /\ IsChunk(x)
               /\ \E p \in Nat \ {0} : \E q \in Nat :
                     p <= q /\ x.text = Run(p, q) /\ p..q \subseteq a..b
    <3>1. PICK i \in 1..(W + 1) : x = out[i]
      BY <2>5
    <3>2. PICK k \in 0..W : i = k + 1
      <4>1. i - 1 \in 0..W /\ i = (i - 1) + 1
        BY <2>3
      <4> QED BY <4>1
    <3>3. e[k] \in 0..(n - 1) /\ To(k) \in (e[k] + 1)..n
      BY <2>4
    <3> DEFINE p == a + e[k]
               q == a + To(k) - 1
    <3>4. p \in Nat \ {0} /\ q \in Nat /\ p <= q /\ p..q \subseteq a..b
      <4> HIDE DEF To
      <4> QED BY <2>1, <3>3 DEF n
    <3>5. x = ChunkOf(Windowed(words), Run(p, q), Offset(words, text, e[k]), <<>>, 0)
      BY <2>6, <3>1, <3>2
    <3> HIDE DEF p, q
    <3>6. IsChunk(x) /\ x.text = Run(p, q)
      BY <3>5, ChunkIs
    <3> QED BY <3>4, <3>6
  <2>8. ASSUME NEW w \in a..b PROVE \E x \in Range(out) : w \in Range(x.text)
    <3> DEFINE y == w - a + 1
               S == {k \in 0..W : y <= e[k] + size}
    <3>1. y \in 1..n /\ W \in S /\ S \subseteq Nat /\ w = a + y - 1
      <4>1. y \in 1..n /\ w = a + y - 1
        BY DEF n
      <4> HIDE DEF y
      <4>2. W \in 0..W /\ e[W] \in Nat
        BY <2>3
      <4>3. y <= e[W] + size
        BY <2>1, <2>3, <4>1, <4>2
      <4> QED BY <2>3, <4>1, <4>2, <4>3
    <3>2. PICK k \in S : \A j \in S : k <= j
      <4> HIDE DEF S
      <4> QED BY <3>1, Least
    <3> HIDE DEF y
    <3>3. k \in 0..W /\ y <= e[k] + size /\ e[k] \in Nat
      BY <2>3
    <3>4. e[k] < y
      <4>1. CASE k = 0
        BY <2>3, <3>1, <4>1
      <4>2. CASE k # 0
        <5>1. k \in 1..W /\ k - 1 \in 0..W /\ ~(k <= k - 1)
          BY <2>3, <3>3, <4>2
        <5>2. ~(y <= e[k - 1] + size) /\ e[k - 1] \in Nat /\ e[k] = e[k - 1] + step
          BY <2>3, <3>2, <5>1
        <5> QED BY <2>1, <3>1, <3>3, <5>2
      <4> QED BY <4>1, <4>2
    <3>5. y <= To(k)
      BY <3>1, <3>3
    <3>6. e[k] \in 0..(n - 1) /\ To(k) \in (e[k] + 1)..n
      BY <2>4, <3>3
    <3> DEFINE p == a + e[k]
               q == a + To(k) - 1
    <3>7. p \in Nat /\ q \in Int /\ p - 1 <= q /\ w \in p..q
      <4> HIDE DEF To
      <4> QED BY <3>1, <3>4, <3>5, <3>6
    <3>8. /\ out[k + 1] = ChunkOf(Windowed(words), Run(p, q), Offset(words, text, e[k]), <<>>, 0)
          /\ out[k + 1] \in Range(out)
      BY <2>5, <2>6, <3>3
    <3> HIDE DEF p, q
    <3>9. out[k + 1].text = Run(p, q) /\ Range(Run(p, q)) = p..q
      BY <3>7, <3>8, ChunkIs, RunRange
    <3> QED BY <3>7, <3>8, <3>9
  <2> QED BY <2>5, <2>7, <2>8 DEF RunsOver, out
<1> QED BY <1>1, <1>2

-----------------------------------------------------------------------------
(* Chunks of a text, whatever the text.                                    *)

\* Chunks of words of a set
Within(out, S) ==
    /\ out \in Seq(Range(out))
    /\ \A x \in Range(out) : IsChunk(x) /\ x.text \in Seq(S)

\* No chunks are within anything.
LEMMA NoneWithin ==
    ASSUME NEW S
    PROVE  Within(<<>>, S)
BY NoRuns DEF Within

\* A part of a text is of its words.
LEMMA PartIs ==
    ASSUME NEW S, NEW s \in Seq(S), NEW a \in Nat \ {0}, NEW b \in Int, b <= Len(s)
    PROVE  SubSeq(s, a, b) \in Seq(S)
OBVIOUS

\* FixedChunker.chunk of a text
LEMMA FixedWithin ==
    ASSUME NEW S, NEW text \in Seq(S), NEW ch, NEW words,
           ch.size \in Nat \ {0}, ch.overlap \in 0..(ch.size - 1)
    PROVE  Within(FixedChunks(ch, words, text), S)
<1> DEFINE n == Len(text)
           size == ch.size
           overlap == ch.overlap
           W == Windows(n, size, overlap)
           From(k) == (k - 1) * (size - overlap)
           T(k) == SubSeq(text, From(k) + 1, Min({From(k) + size, n}))
           E(k) == ChunkOf(Windowed(words), T(k), Offset(words, text, From(k)), <<>>, 0)
           out == [k \in 1..(W + 1) |-> E(k)]
<1>1. n \in Nat /\ (text = <<>> <=> n = 0)
  OBVIOUS
<1>2. size \in Nat \ {0} /\ overlap \in 0..(size - 1)
  OBVIOUS
<1> HIDE DEF n, size, overlap
<1>3. CASE text = <<>>
  <2>1. FixedChunks(ch, words, text) = <<>>
    BY <1>3 DEF FixedChunks
  <2> QED BY <2>1, NoneWithin
<1>4. CASE text # <<>>
  <2>1. n \in Nat \ {0}
    BY <1>1, <1>4
  <2>2. PICK e : /\ WindowStarts(n, size, size - overlap, W, e)
                 /\ \A k \in 0..W : e[k] = k * (size - overlap)
    BY <1>2, <2>1, WindowsAre
  <2> HIDE DEF W
  <2>3. W \in Nat /\ e \in [0..W -> Nat]
    BY <2>2 DEF WindowStarts
  <2>4. ASSUME NEW k \in 1..(W + 1) PROVE T(k) \in Seq(S)
    <3>1. k - 1 \in 0..W
      BY <2>3
    <3>2. From(k) = e[k - 1] /\ e[k - 1] \in Nat
      BY <2>2, <2>3, <3>1
    <3> DEFINE f == From(k)
    <3>3. f \in Nat
      BY <3>2
    <3> HIDE DEF f
    <3> DEFINE x == f + size
               to == Min({x, n})
    <3>4. x \in Int /\ n \in Int
      BY <1>2, <2>1, <3>3
    <3> HIDE DEF x
    <3>5. to = IF x <= n THEN x ELSE n
      BY <3>4, MinOfTwo
    <3> HIDE DEF to
    <3>6. to \in Int /\ to <= n /\ f + 1 \in Nat \ {0}
      BY <3>3, <3>4, <3>5
    <3>7. SubSeq(text, f + 1, to) \in Seq(S)
      BY <3>6, PartIs DEF n
    <3> QED BY <3>7 DEF f, to, x
  <2>5. \A k \in 1..(W + 1) : E(k).text = T(k) /\ IsChunk(E(k))
    <3> HIDE DEF T, From
    <3> QED BY ChunkIs
  <2>6. out \in [1..(W + 1) -> {E(k) : k \in 1..(W + 1)}]
    <3> HIDE DEF E
    <3> QED OBVIOUS
  <2>7. FixedChunks(ch, words, text) = out
    BY <1>4 DEF FixedChunks, W, n, size, overlap
  <2>8. \A k \in 1..(W + 1) : out[k] = E(k)
    <3> HIDE DEF E
    <3> QED OBVIOUS
  <2> HIDE DEF out, T, E
  <2>9. out \in Seq(Range(out)) /\ Range(out) = {out[k] : k \in 1..(W + 1)}
    <3> DEFINE N == W + 1
               U == {E(k) : k \in 1..N}
    <3>1. N \in Nat /\ out \in [1..N -> U]
      BY <2>3, <2>6
    <3> HIDE DEF N, U
    <3>2. out \in Seq(Range(out)) /\ Range(out) = {out[k] : k \in 1..N}
      BY <3>1, SequenceIs
    <3> QED BY <3>2 DEF N
  <2>10. \A x \in Range(out) : IsChunk(x) /\ x.text \in Seq(S)
    BY <2>4, <2>5, <2>8, <2>9
  <2>11. Within(out, S)
    BY <2>9, <2>10 DEF Within
  <2> QED BY <2>7, <2>11
<1> QED BY <1>3, <1>4

\* split_sentences of a text
LEMMA SentencesWithin ==
    ASSUME NEW S, NEW text \in Seq(S), NEW words
    PROVE  SplitSentences(words, text) \in Seq(Seq(S))
<1> DEFINE n == Len(text)
           ends == {i \in DOMAIN text : i = n \/ words[text[i]] \in Stops}
           m == Cardinality(ends)
           e == CutAt(ends)
<1>1. n \in Nat /\ DOMAIN text = 1..n
  OBVIOUS
<1>2. ends \subseteq 1..n /\ (n # 0 => n \in ends)
  BY <1>1
<1>3. SplitSentences(words, text) = Pieces(text, ends)
  BY DEF SplitSentences
<1> HIDE DEF ends
<1>4. Cuts(e, m, 0, n) /\ Pieces(text, ends) = [k \in 1..m |-> SubSeq(text, e[k - 1] + 1, e[k])]
  <2> HIDE DEF n
  <2>1. Cuts(CutAt(ends), Cardinality(ends), 0, n)
    BY <1>1, <1>2, CutsAre
  <2>2. Pieces(text, ends) = [k \in 1..Cardinality(ends) |->
                                 SubSeq(text, CutAt(ends)[k - 1] + 1, CutAt(ends)[k])]
    BY <1>1, <1>2, PiecesAre
  <2> QED BY <2>1, <2>2
<1> HIDE DEF m, e
<1>5. m \in Nat
  BY <1>4 DEF Cuts
<1>6. ASSUME NEW k \in 1..m PROVE SubSeq(text, e[k - 1] + 1, e[k]) \in Seq(S)
  <2>1. k - 1 \in 0..m /\ k \in 0..m
    BY <1>5
  <2>2. e[k - 1] \in 0..n /\ e[k] \in 0..n
    <3> HIDE DEF n
    <3> QED BY <1>4, <2>1, CutsGrow
  <2> DEFINE lo == e[k - 1] + 1
             hi == e[k]
  <2>3. lo \in Nat \ {0} /\ hi \in Int /\ hi <= Len(text)
    BY <1>1, <2>2
  <2> HIDE DEF lo, hi
  <2>4. SubSeq(text, lo, hi) \in Seq(S)
    BY <2>3, PartIs
  <2> QED BY <2>4 DEF lo, hi
<1>7. [k \in 1..m |-> SubSeq(text, e[k - 1] + 1, e[k])] \in Seq(Seq(S))
  BY <1>5, <1>6
<1> QED BY <1>3, <1>4, <1>7

\* SemanticChunker._group: groups of the sentences there are
LEMMA SemanticGroupsType ==
    ASSUME NEW m \in Nat \ {0}, NEW ss, Len(ss) = m, NEW ch
    PROVE  SemanticGroups(ch, ss) \in Seq(Seq(1..m))
<1> DEFINE d == SubSeq(ch.distances, 1, m - 1)
           ends == {m} \cup {i \in 1..(m - 1) : 100 * d[i] > Percentile(d, ch.percentile)}
           M == Cardinality(ends)
           e == CutAt(ends)
           all == Run(1, m)
           groups == Pieces(all, ends)
           S == 1..m
           Split(group) == LET r == Packed(ch.max, 0, ss, group)
                           IN Append(r.groups, r.current)
           out == [k \in DOMAIN groups |-> Split(groups[k])]
<1>1. SemanticGroups(ch, ss) = IF m <= ch.sentences \/ m = 1 THEN <<all>> ELSE FlattenSeq(out)
  BY DEF SemanticGroups
<1>2. ends \subseteq 1..m /\ m \in ends
  OBVIOUS
<1> HIDE DEF ends
<1>3. all \in Seq(S) /\ Len(all) = m
  <2>1. 1 \in Nat /\ m \in Int /\ 1 - 1 <= m /\ m - 1 + 1 = m /\ \A i \in 1..m : 1 + i - 1 = i
    OBVIOUS
  <2> HIDE DEF S, all
  <2>2. all \in Seq(Nat) /\ Len(all) = m - 1 + 1 /\ \A i \in 1..(m - 1 + 1) : all[i] = 1 + i - 1
    BY <2>1, RunIs DEF all
  <2>3. Len(all) = m /\ \A i \in 1..m : all[i] \in S
    BY <2>1, <2>2 DEF S
  <2>4. all = [i \in 1..m |-> all[i]]
    BY <2>2, <2>3
  <2> QED BY <2>3, <2>4
<1>4. /\ Cuts(e, M, 0, m)
      /\ groups = [k \in 1..M |-> SubSeq(all, e[k - 1] + 1, e[k])]
  <2> HIDE DEF e, groups, M, all
  <2>1. Cuts(CutAt(ends), Cardinality(ends), 0, m)
    BY <1>2, CutsAre
  <2>2. Pieces(all, ends) = [k \in 1..Cardinality(ends) |->
                                 SubSeq(all, CutAt(ends)[k - 1] + 1, CutAt(ends)[k])]
    BY <1>2, PiecesAre
  <2> QED BY <2>1, <2>2 DEF e, groups, M
<1> HIDE DEF e, groups, M, all
<1>5. M \in Nat /\ DOMAIN groups = 1..M
  BY <1>4 DEF Cuts
<1>6. ASSUME NEW k \in 1..M PROVE groups[k] \in Seq(S)
  <2>1. k - 1 \in 0..M /\ k \in 0..M
    BY <1>5
  <2>2. e[k - 1] \in 0..m /\ e[k] \in 0..m
    BY <1>4, <2>1, CutsGrow
  <2> DEFINE lo == e[k - 1] + 1
             hi == e[k]
  <2>3. lo \in Nat \ {0} /\ hi \in Int /\ hi <= Len(all)
    BY <1>3, <2>2
  <2>4. groups[k] = SubSeq(all, lo, hi)
    BY <1>4
  <2> HIDE DEF lo, hi, S
  <2>5. SubSeq(all, lo, hi) \in Seq(S)
    BY <1>3, <2>3, PartIs
  <2> QED BY <2>4, <2>5
<1> HIDE DEF S
<1>7. ASSUME NEW k \in 1..M PROVE Split(groups[k]) \in Seq(Seq(S))
  <2> DEFINE g == groups[k]
             r == Packed(ch.max, 0, ss, g)
  <2>1. g \in Seq(S) /\ 0 \in Nat
    BY <1>6
  <2> HIDE DEF g
  <2>2. PICK f : PackedBy(S, ch.max, 0, ss, g, f)
    BY <2>1, PackedIs
  <2>3. Len(g) \in Nat /\ Len(g) \in 0..Len(g)
    BY <2>1
  <2>4. r \in GroupsOf(S)
    BY <2>2, <2>3 DEF PackedBy
  <2> HIDE DEF r
  <2>5. r.groups \in Seq(Seq(S)) /\ r.current \in Seq(S)
    BY <2>4 DEF GroupsOf
  <2>6. Append(r.groups, r.current) \in Seq(Seq(S))
    BY <2>5
  <2> QED BY <2>6 DEF g, r
<1>8. out \in Seq(Seq(Seq(S))) /\ Len(out) = M
  <2> HIDE DEF Split
  <2> QED BY <1>5, <1>7
<1> HIDE DEF out
<1>9. FlattenSeq(out) \in Seq(Seq(S))
  BY <1>8, FlattenRange
<1>10. <<all>> \in Seq(Seq(S))
  BY <1>3
<1> QED BY <1>1, <1>9, <1>10 DEF S

\* The chunks of a section, whatever its text: of its words, under its path
LEMMA SectionWithin ==
    ASSUME NEW words, NEW sec, NEW S, sec.text \in Seq(S), NEW ch, Cutter(ch)
    PROVE  /\ Within(SectionChunks(ch, words, sec), S)
           /\ \A x \in Range(SectionChunks(ch, words, sec)) : x.path = sec.path
<1> DEFINE ss == SplitSentences(words, sec.text)
           m == Len(ss)
           groups == IF ch.name = "sentence" THEN SentenceGroups(ch, ss)
                     ELSE SemanticGroups(ch, ss)
           out == SectionChunks(ch, words, sec)
           n == Len(groups)
           sp == Respelled(words, sec.text)
           E(k) == ChunkOf(sp, Join(ss, groups[k]),
                           sec.start + Find(sp, ss[groups[k][1]], words, sec.text), sec.path, 0)
<1>1. ss \in Seq(Seq(S))
  BY SentencesWithin
<1>2. CASE ss = <<>>
  <2>1. out = <<>>
    BY <1>2 DEF SectionChunks
  <2>2. \A x : x \notin Range(<<>>)
    BY NoRuns
  <2> QED BY <2>1, <2>2, NoneWithin
<1>3. CASE ss # <<>>
  <2> HIDE DEF ss
  <2>1. m \in Nat \ {0}
    BY <1>1, <1>3
  <2>2. groups \in Seq(Seq(1..m))
    <3>1. ch.name = "sentence" => ch.overlap \in Nat
      BY DEF Cutter
    <3> HIDE DEF m
    <3> QED BY <2>1, <3>1, SentenceGroupsType, SemanticGroupsType DEF m
  <2>3. out = [k \in DOMAIN groups |-> E(k)]
    BY <1>3 DEF SectionChunks, ss
  <2> HIDE DEF groups, m
  <2>4. n \in Nat /\ DOMAIN groups = 1..n /\ \A k \in 1..n : groups[k] \in Seq(1..m)
    BY <2>2
  <2>5. ASSUME NEW k \in 1..n PROVE Join(ss, groups[k]) \in Seq(S)
    <3> DEFINE g == groups[k]
               lists == [i \in DOMAIN g |-> ss[g[i]]]
    <3>1. g \in Seq(1..m)
      BY <2>4
    <3> HIDE DEF g
    <3>2. DOMAIN g = 1..Len(g) /\ Len(g) \in Nat /\ \A i \in 1..Len(g) : g[i] \in 1..m
      BY <3>1, SeqFacts
    <3>3. \A i \in 1..Len(g) : ss[g[i]] \in Seq(S)
      BY <1>1, <3>2 DEF m
    <3>4. lists \in Seq(Seq(S))
      BY <3>2, <3>3
    <3> HIDE DEF lists
    <3>5. FlattenSeq(lists) \in Seq(S)
      BY <3>4, FlattenRange
    <3> QED BY <3>5 DEF Join, lists, g
  <2> HIDE DEF n
  <2>6. \A k \in 1..n : IsChunk(E(k)) /\ E(k).text = Join(ss, groups[k]) /\ E(k).path = sec.path
    BY ChunkIs
  <2> HIDE DEF E, out
  <2> DEFINE U == {E(k) : k \in 1..n}
  <2>7. out \in [1..n -> U] /\ \A k \in 1..n : out[k] = E(k)
    BY <2>3, <2>4
  <2> HIDE DEF U
  <2>8. out \in Seq(Range(out)) /\ Range(out) = {out[k] : k \in 1..n}
    BY <2>4, <2>7, SequenceIs
  <2>9. \A x \in Range(out) : IsChunk(x) /\ x.text \in Seq(S) /\ x.path = sec.path
    BY <2>5, <2>6, <2>7, <2>8
  <2> QED BY <2>8, <2>9 DEF Within, out
<1> QED BY <1>2, <1>3

\* The cuts of the words a to b at the ends of sentences, and how many sentences they make
Count(words, a, b) == Len(SplitSentences(words, Run(a, b)))
CutsOf(words, a, b) ==
    CHOOSE c : /\ SentenceCuts(words, a, b, c, Count(words, a, b))
               /\ SplitSentences(words, Run(a, b)) = Between(c, Count(words, a, b))

\* A sequence over a set is one over a wider set.
LEMMA SeqWider ==
    ASSUME NEW S, NEW T, S \subseteq T, NEW s \in Seq(S)
    PROVE  s \in Seq(T)
<1>1. Len(s) \in Nat /\ s = [i \in 1..Len(s) |-> s[i]] /\ \A i \in 1..Len(s) : s[i] \in T
  OBVIOUS
<1> QED BY <1>1

\* The cuts of a text, as operators of it.
LEMMA CutsOfIs ==
    ASSUME NEW words, NEW a \in Nat \ {0}, NEW b \in Nat, a - 1 <= b,
           NEW c, c = CutsOf(words, a, b), NEW m, m = Count(words, a, b)
    PROVE  /\ SentenceCuts(words, a, b, c, m) /\ Cuts(c, m, a - 1, b)
           /\ SplitSentences(words, Run(a, b)) = Between(c, m)
           /\ a <= b <=> m # 0
<1>1. PICK k, d : /\ SentenceCuts(words, a, b, d, k)
                  /\ SplitSentences(words, Run(a, b)) = Between(d, k)
  BY SentencesAre
<1>2. Len(Between(d, k)) = k
  <2>1. Cuts(d, k, a - 1, b)
    BY <1>1 DEF SentenceCuts
  <2> QED BY <2>1, BetweenIs
<1>3. k = m
  BY <1>1, <1>2 DEF Count
<1>4. /\ SentenceCuts(words, a, b, c, m)
      /\ SplitSentences(words, Run(a, b)) = Between(c, m)
  <2>1. \E e : /\ SentenceCuts(words, a, b, e, Count(words, a, b))
               /\ SplitSentences(words, Run(a, b)) = Between(e, Count(words, a, b))
    BY <1>1, <1>3
  <2> QED BY <2>1 DEF CutsOf
<1>5. Cuts(c, m, a - 1, b)
  BY <1>4 DEF SentenceCuts
<1>6. a <= b <=> m # 0
  <2>1. m \in Nat /\ c[0] = a - 1 /\ c[m] = b
    BY <1>5 DEF Cuts
  <2>2. m = 0 => b = a - 1
    BY <2>1
  <2>3. m # 0 => 0 \in 0..m /\ m \in 0..m /\ 0 < m
    BY <2>1
  <2>4. m # 0 => c[0] < c[m]
    BY <1>5, <2>3, CutsGrow
  <2> QED BY <2>1, <2>2, <2>4
<1> QED BY <1>4, <1>5, <1>6

\* A run is of its numbers.
LEMMA RunOf ==
    ASSUME NEW a \in Nat, NEW b \in Int, a - 1 <= b
    PROVE  Run(a, b) \in Seq(a..b)
<1>1. Run(a, b) \in Seq(Nat) /\ Range(Run(a, b)) = a..b
  BY RunIs, RunRange
<1>2. Run(a, b) \in Seq(Range(Run(a, b)))
  BY <1>1, SequenceOf
<1> QED BY <1>1, <1>2

\* The chunks of a section, however long the overlap: of its words, under its path.
LEMMA CutterChunks ==
    ASSUME NEW words, NEW sec, NEW a \in Nat \ {0}, NEW b \in Nat, a - 1 <= b,
           sec.text = Run(a, b), NEW ch, Cutter(ch),
           NEW out, out = SectionChunks(ch, words, sec)
    PROVE  /\ out \in Seq(Range(out))
           /\ \A x \in Range(out) : x.path = sec.path /\ Range(x.text) \subseteq a..b
<1> DEFINE S == a..b
<1>1. sec.text \in Seq(S)
  BY RunOf
<1> HIDE DEF S
<1>2. Within(out, S) /\ \A x \in Range(out) : x.path = sec.path
  BY <1>1, SectionWithin
<1>3. \A x \in Range(out) : Range(x.text) \subseteq S
  BY <1>2, RangeIs DEF Within
<1> QED BY <1>2, <1>3 DEF Within, S

\* A document of sections, which are the runs from F to L of its words
Sectioned(d, n, F, L) ==
    /\ n \in Nat /\ DOMAIN d.sections = 1..n
    /\ \A i \in 1..n : /\ F[i] \in Nat \ {0} /\ L[i] \in Nat /\ F[i] - 1 <= L[i]
                       /\ d.sections[i].text = Run(F[i], L[i])

\* The chunks of a document are those of its sections.
LEMMA PlainChunksAre ==
    ASSUME NEW d, NEW n, NEW F, NEW L, Sectioned(d, n, F, L), NEW ch, Cutter(ch),
           NEW out, out = PlainChunks(ch, d)
    PROVE  /\ out \in Seq(Range(out))
           /\ \A x : x \in Range(out) <=>
                 \E i \in 1..n : x \in Range(SectionChunks(ch, d.words, d.sections[i]))
<1> DEFINE lists == [i \in 1..n |-> SectionChunks(ch, d.words, d.sections[i])]
<1>1. out = FlattenSeq(lists)
  BY DEF PlainChunks, Cutter, Sectioned
<1>2. ASSUME NEW i \in 1..n PROVE lists[i] \in Seq(Range(lists[i]))
  <2> DEFINE a == F[i]
             b == L[i]
             sec == d.sections[i]
             l == lists[i]
             words == d.words
  <2>1. a \in Nat \ {0} /\ b \in Nat /\ a - 1 <= b /\ sec.text = Run(a, b)
    BY DEF Sectioned
  <2>2. l = SectionChunks(ch, words, sec)
    OBVIOUS
  <2> HIDE DEF a, b, sec, l, words
  <2>3. l \in Seq(Range(l))
    BY <2>1, <2>2, CutterChunks
  <2> QED BY <2>3 DEF l
<1>3. n \in Nat /\ lists \in [1..n -> {SectionChunks(ch, d.words, d.sections[i]) : i \in 1..n}]
      /\ \A i \in 1..n : lists[i] = SectionChunks(ch, d.words, d.sections[i])
  BY DEF Sectioned
<1> HIDE DEF lists
<1>4. /\ FlattenSeq(lists) \in Seq(Range(FlattenSeq(lists)))
      /\ \A x : x \in Range(FlattenSeq(lists)) <=> \E k \in 1..n : x \in Range(lists[k])
  BY <1>2, <1>3, FlattenAny
<1> QED BY <1>1, <1>3, <1>4

\* Where the chunk of some sentences is
LEMMA PlacedIs ==
    ASSUME NEW words, NEW sec, NEW a \in Nat \ {0}, NEW b \in Nat, NEW c, NEW m, Cuts(c, m, a - 1, b),
           NEW lo \in 1..m, NEW hi \in lo..m
    PROVE  /\ c[lo - 1] \in (a - 1)..b /\ c[lo] \in (a - 1)..b /\ c[hi] \in (a - 1)..b
           /\ c[lo - 1] < c[lo] /\ c[lo] <= c[hi]
           /\ IsChunk(Placed(words, sec, c, lo, hi))
           /\ Placed(words, sec, c, lo, hi).text = Run(c[lo - 1] + 1, c[hi])
           /\ Placed(words, sec, c, lo, hi).path = sec.path
           /\ Placed(words, sec, c, lo, hi).words = Respelled(words, sec.text)
<1>1. m \in Nat /\ lo - 1 \in 0..m /\ lo \in 0..m /\ hi \in 0..m /\ lo - 1 < lo /\ (lo < hi \/ lo = hi)
  BY DEF Cuts
<1>2. c[lo - 1] \in (a - 1)..b /\ c[lo] \in (a - 1)..b /\ c[hi] \in (a - 1)..b
  BY <1>1, CutsGrow
<1>3. c[lo - 1] < c[lo] /\ c[lo] <= c[hi]
  <2>1. c[lo - 1] < c[lo] /\ (lo < hi => c[lo] < c[hi])
    BY <1>1, CutsGrow
  <2> QED BY <1>1, <1>2, <2>1
<1>4. /\ IsChunk(Placed(words, sec, c, lo, hi))
      /\ Placed(words, sec, c, lo, hi).text = Run(c[lo - 1] + 1, c[hi])
      /\ Placed(words, sec, c, lo, hi).path = sec.path
      /\ Placed(words, sec, c, lo, hi).words = Respelled(words, sec.text)
  BY ChunkIs DEF Placed
<1> QED BY <1>2, <1>3, <1>4

\* The chunks of a section leave none of its words out.
LEMMA SectionRuns ==
    ASSUME NEW words, NEW sec, NEW a \in Nat \ {0}, NEW b \in Nat, a - 1 <= b,
           sec.text = Run(a, b), NEW ch, Short(ch)
    PROVE  RunsOver(SectionChunks(ch, words, sec), a..b)
<1> DEFINE c == CutsOf(words, a, b)
           m == Count(words, a, b)
           out == SectionChunks(ch, words, sec)
           P(lo, hi) == Placed(words, sec, c, lo, hi)
<1>1. Cuts(c, m, a - 1, b) /\ SplitSentences(words, sec.text) = Between(c, m)
  <2> HIDE DEF c, m
  <2>1. c = CutsOf(words, a, b) /\ m = Count(words, a, b)
    BY DEF c, m
  <2> QED BY <2>1, CutsOfIs
<1> HIDE DEF c, m
<1>2. SectionCut(words, sec, c, m, out)
  BY <1>1, SectionChunksAre
<1>3. /\ out \in Seq(Range(out))
      /\ \A x \in Range(out) : \E lo \in 1..m : \E hi \in lo..m : x = P(lo, hi)
      /\ \A s \in 1..m : \E lo \in 1..s : \E hi \in s..m : P(lo, hi) \in Range(out)
  <2> HIDE DEF out
  <2> QED BY <1>2 DEF SectionCut
<1>4. ASSUME NEW lo \in 1..m, NEW hi \in lo..m
      PROVE  /\ c[lo - 1] \in (a - 1)..b /\ c[hi] \in (a - 1)..b /\ c[lo - 1] < c[hi]
             /\ IsChunk(P(lo, hi)) /\ P(lo, hi).text = Run(c[lo - 1] + 1, c[hi])
  <2>1. /\ c[lo - 1] \in (a - 1)..b /\ c[lo] \in (a - 1)..b /\ c[hi] \in (a - 1)..b
        /\ c[lo - 1] < c[lo] /\ c[lo] <= c[hi]
        /\ IsChunk(P(lo, hi)) /\ P(lo, hi).text = Run(c[lo - 1] + 1, c[hi])
    BY <1>1, PlacedIs
  <2> HIDE DEF P
  <2> QED BY <2>1
<1> HIDE DEF out, P
<1>5. ASSUME NEW x \in Range(out)
      PROVE  /\ IsChunk(x)
             /\ \E p \in Nat \ {0} : \E q \in Nat :
                   p <= q /\ x.text = Run(p, q) /\ p..q \subseteq a..b
  <2>1. PICK lo \in 1..m : \E hi \in lo..m : x = P(lo, hi)
    BY <1>3
  <2>2. PICK hi \in lo..m : x = P(lo, hi)
    BY <2>1
  <2> DEFINE p == c[lo - 1] + 1
             q == c[hi]
  <2>3. p \in Nat \ {0} /\ q \in Nat /\ p <= q /\ p..q \subseteq a..b
    BY <1>4
  <2>4. IsChunk(x) /\ x.text = Run(p, q)
    BY <1>4, <2>2
  <2> HIDE DEF p, q
  <2> QED BY <2>3, <2>4
<1>6. ASSUME NEW w \in a..b PROVE \E x \in Range(out) : w \in Range(x.text)
  <2>1. PICK s \in 1..m : c[s - 1] < w /\ w <= c[s]
    <3>1. w \in Nat /\ a - 1 < w /\ w <= b
      OBVIOUS
    <3> QED BY <1>1, <3>1, CutsCover
  <2>2. PICK lo \in 1..s : \E hi \in s..m : P(lo, hi) \in Range(out)
    BY <1>3
  <2>3. PICK hi \in s..m : P(lo, hi) \in Range(out)
    BY <2>2
  <2>4. m \in Nat /\ c \in [0..m -> Nat]
    BY <1>1 DEF Cuts
  <2>5. /\ lo \in 1..m /\ hi \in lo..m /\ lo - 1 \in 0..m /\ s - 1 \in 0..m /\ s \in 0..m /\ hi \in 0..m
        /\ (lo - 1 = s - 1 \/ lo - 1 < s - 1) /\ (s = hi \/ s < hi)
    BY <2>4
  <2>6. /\ lo - 1 < s - 1 => c[lo - 1] < c[s - 1]
        /\ s < hi => c[s] < c[hi]
    BY <1>1, <2>5, CutsGrow
  <2> DEFINE p == c[lo - 1] + 1
             q == c[hi]
  <2>7. c[lo - 1] \in Nat /\ c[s - 1] \in Nat /\ c[s] \in Nat /\ c[hi] \in Nat
    BY <2>4, <2>5
  <2>8. p \in Nat /\ q \in Int /\ p - 1 <= q /\ w \in p..q
    <3>1. c[lo - 1] <= c[s - 1] /\ c[s] <= c[hi]
      BY <2>5, <2>6, <2>7
    <3> QED BY <2>1, <2>7, <3>1
  <2>9. P(lo, hi).text = Run(p, q)
    BY <1>4, <2>5
  <2> HIDE DEF p, q
  <2>10. Range(Run(p, q)) = p..q
    BY <2>8, RunRange
  <2> QED BY <2>3, <2>8, <2>9, <2>10
<1> QED BY <1>3, <1>5, <1>6 DEF RunsOver, out

Held(n, F, L) == UNION {F[i]..L[i] : i \in 1..n}

\* The chunks of a document leave none of the words of its sections out.
LEMMA CutterRuns ==
    ASSUME NEW d, NEW n, NEW F, NEW L, Sectioned(d, n, F, L), NEW ch, Short(ch)
    PROVE  RunsOver(PlainChunks(ch, d), Held(n, F, L))
<1> DEFINE out == PlainChunks(ch, d)
           lists(i) == SectionChunks(ch, d.words, d.sections[i])
<1>1. Cutter(ch)
  BY DEF Short
<1>2. /\ out \in Seq(Range(out))
      /\ \A x : x \in Range(out) <=> \E i \in 1..n : x \in Range(lists(i))
  BY <1>1, PlainChunksAre
<1>3. ASSUME NEW i \in 1..n PROVE RunsOver(lists(i), F[i]..L[i])
  <2> DEFINE a == F[i]
             b == L[i]
             sec == d.sections[i]
             words == d.words
  <2>1. a \in Nat \ {0} /\ b \in Nat /\ a - 1 <= b /\ sec.text = Run(a, b)
    BY DEF Sectioned
  <2> HIDE DEF a, b, sec, words
  <2>2. RunsOver(SectionChunks(ch, words, sec), a..b)
    BY <2>1, SectionRuns
  <2> QED BY <2>2 DEF a, b, sec, words
<1> HIDE DEF out, lists
<1>4. ASSUME NEW x \in Range(out)
      PROVE  /\ IsChunk(x)
             /\ \E p \in Nat \ {0} : \E q \in Nat :
                   p <= q /\ x.text = Run(p, q) /\ p..q \subseteq Held(n, F, L)
  <2>1. PICK i \in 1..n : x \in Range(lists(i))
    BY <1>2
  <2>2. F[i]..L[i] \subseteq Held(n, F, L)
    BY DEF Held
  <2>3. /\ IsChunk(x)
        /\ \E p \in Nat \ {0} : \E q \in Nat :
              p <= q /\ x.text = Run(p, q) /\ p..q \subseteq F[i]..L[i]
    BY <1>3, <2>1 DEF RunsOver
  <2>4. PICK p \in Nat \ {0} : \E q \in Nat :
              p <= q /\ x.text = Run(p, q) /\ p..q \subseteq F[i]..L[i]
    BY <2>3
  <2>5. PICK q \in Nat : p <= q /\ x.text = Run(p, q) /\ p..q \subseteq F[i]..L[i]
    BY <2>4
  <2>6. p..q \subseteq Held(n, F, L)
    BY <2>2, <2>5
  <2> QED BY <2>3, <2>5, <2>6
<1>5. ASSUME NEW w \in Held(n, F, L) PROVE \E x \in Range(out) : w \in Range(x.text)
  <2>1. PICK i \in 1..n : w \in F[i]..L[i]
    BY DEF Held
  <2>2. PICK x \in Range(lists(i)) : w \in Range(x.text)
    BY <1>3, <2>1 DEF RunsOver
  <2> QED BY <1>2, <2>2
<1> QED BY <1>2, <1>4, <1>5 DEF RunsOver, out

\* The same of any chunker that is no parent_child; fixed windows cover the whole text.
Brief(ch) == Plain(ch) /\ (ch.name = "sentence" => ch.overlap <= 1)

\* A chunker that is no parent_child cuts runs over the whole of the text.
LEMMA PlainRuns ==
    ASSUME NEW d, NEW n, NEW F, NEW L, Sectioned(d, n, F, L),
           NEW a \in Nat \ {0}, NEW b \in Nat, a - 1 <= b, d.text = Run(a, b),
           NEW ch, Brief(ch)
    PROVE  RunsOver(PlainChunks(ch, d), IF ch.name = "fixed" THEN a..b ELSE Held(n, F, L))
<1>1. CASE ch.name = "fixed"
  <2>1. ch.size \in Nat \ {0} /\ ch.overlap \in 0..(ch.size - 1)
    BY <1>1 DEF Brief, Plain
  <2>2. PlainChunks(ch, d) = FixedChunks(ch, d.words, Run(a, b))
    BY <1>1 DEF PlainChunks
  <2>3. RunsOver(FixedChunks(ch, d.words, Run(a, b)), a..b)
    BY <2>1, FixedRuns
  <2> QED BY <1>1, <2>2, <2>3
<1>2. CASE ch.name # "fixed"
  <2>1. Short(ch)
    <3>1. CASE ch.name = "sentence"
      <4>1. ch.max \in Int /\ ch.overlap \in Nat /\ ch.overlap <= 1
        BY <3>1 DEF Brief, Plain
      <4>2. ch.overlap \in {0, 1}
        BY <4>1
      <4> QED BY <3>1, <4>1, <4>2 DEF Short, Cutter
    <3>2. CASE ch.name # "sentence"
      BY <1>2, <3>2 DEF Brief, Plain, Short, Cutter
    <3> QED BY <3>1, <3>2
  <2>2. RunsOver(PlainChunks(ch, d), Held(n, F, L))
    BY <2>1, CutterRuns
  <2> QED BY <1>2, <2>2
<1> QED BY <1>1, <1>2

\* ParentChildChunker.chunk: what the parents hold, their children hold.
Whole(p) == [text |-> p.text, path |-> p.path, start |-> p.start]
SubDoc(d, p) == [d EXCEPT !.words = p.words, !.text = p.text, !.sections = <<Whole(p)>>]
Relabel(x, path, k) == [x EXCEPT !.path = path, !.parent = k]

IsDocument(d) == d = [words |-> d.words, text |-> d.text, sections |-> d.sections]

Single(x) == [i \in 1..1 |-> x]

TextIs(x, a, b) == x.text = Run(a, b)

\* A parent as a document of one section (ParentChildChunker.chunk).
LEMMA SubDocIs ==
    ASSUME NEW d, IsDocument(d),
           NEW p, NEW a \in Nat \ {0}, NEW b \in Nat, a - 1 <= b, TextIs(p, a, b)
    PROVE  /\ SubDoc(d, p).text = Run(a, b) /\ SubDoc(d, p).words = p.words
           /\ SubDoc(d, p).sections = <<Whole(p)>>
           /\ Sectioned(SubDoc(d, p), 1, Single(a), Single(b))
           /\ Held(1, Single(a), Single(b)) = a..b
<1> DEFINE sec == Whole(p)
           s == SubDoc(d, p)
           F == Single(a)
           L == Single(b)
<1>7. p.text = Run(a, b)
  BY DEF TextIs
<1>1. s.text = p.text /\ s.words = p.words /\ s.sections = <<sec>>
  BY DEF SubDoc, IsDocument
<1>2. sec.text = Run(a, b)
  BY <1>7 DEF Whole
<1>3. \A i \in 1..1 : i = 1 /\ F[i] = a /\ L[i] = b
  BY DEF Single
<1> HIDE DEF s, sec, F, L
<1>4. DOMAIN <<sec>> = 1..1 /\ <<sec>>[1] = sec
  OBVIOUS
<1>5. Sectioned(s, 1, F, L)
  BY <1>1, <1>2, <1>3, <1>4 DEF Sectioned
<1>6. Held(1, F, L) = a..b
  <2>1. 1 \in 1..1
    OBVIOUS
  <2> QED BY <1>3, <2>1 DEF Held
<1> QED BY <1>1, <1>5, <1>6, <1>7 DEF s, sec, F, L

\* A child keeps its text and its offsets.
LEMMA RelabelIs ==
    ASSUME NEW x, IsChunk(x), NEW path, NEW k
    PROVE  /\ IsChunk(Relabel(x, path, k))
           /\ Relabel(x, path, k).text = x.text /\ Relabel(x, path, k).words = x.words
           /\ Relabel(x, path, k).start = x.start
           /\ Relabel(x, path, k).end = x.end /\ Relabel(x, path, k).path = path
BY DEF IsChunk, Relabel

\* The children of the k-th parent, and all of them
Cut(c, d, k) == PlainChunks(c.child, SubDoc(d, PlainChunks(c.parent, d)[k]))
Labelled(c, d, k) ==
    [j \in DOMAIN Cut(c, d, k) |-> Relabel(Cut(c, d, k)[j], PlainChunks(c.parent, d)[k].path, k)]

\* Children, one parent after the other.
LEMMA ChildrenAre ==
    ASSUME NEW c, NEW d
    PROVE  Children(c, d) = FlattenSeq([k \in DOMAIN PlainChunks(c.parent, d) |-> Labelled(c, d, k)])
BY DEF Children, Labelled, Cut, SubDoc, Whole, Relabel

\* Children are what their parents were cut into.
LEMMA ChildrenIn ==
    ASSUME NEW c, NEW d, PlainChunks(c.parent, d) \in Seq(Range(PlainChunks(c.parent, d))),
           \A k \in 1..Len(PlainChunks(c.parent, d)) : Cut(c, d, k) \in Seq(Range(Cut(c, d, k)))
    PROVE  /\ Children(c, d) \in Seq(Range(Children(c, d)))
           /\ \A x : x \in Range(Children(c, d)) <=>
                 \E k \in 1..Len(PlainChunks(c.parent, d)) : \E y \in Range(Cut(c, d, k)) :
                    x = Relabel(y, PlainChunks(c.parent, d)[k].path, k)
<1> DEFINE parents == PlainChunks(c.parent, d)
           n == Len(parents)
           lists == [k \in DOMAIN parents |-> Labelled(c, d, k)]
           cut(k) == Cut(c, d, k)
<1>1. n \in Nat /\ DOMAIN parents = 1..n
  BY SeqFacts
<1>2. \A k \in 1..n : lists[k] = Labelled(c, d, k)
  <2> HIDE DEF n, parents
  <2> QED BY <1>1
<1>3. lists \in [1..n -> {Labelled(c, d, k) : k \in 1..n}]
  <2> HIDE DEF n, parents
  <2> QED BY <1>1
<1>4. Children(c, d) = FlattenSeq(lists)
  BY ChildrenAre
<1>5. \A k \in 1..n : cut(k) \in Seq(Range(cut(k)))
  OBVIOUS
<1> HIDE DEF lists, n, parents, cut
<1>6. ASSUME NEW k \in 1..n
      PROVE  /\ lists[k] \in Seq(Range(lists[k]))
             /\ \A x : x \in Range(lists[k]) <=>
                   \E y \in Range(cut(k)) : x = Relabel(y, parents[k].path, k)
  <2> DEFINE l == lists[k]
             t == cut(k)
             N == Len(t)
             E(j) == Relabel(t[j], parents[k].path, k)
  <2>1. t \in Seq(Range(t)) /\ N \in Nat /\ DOMAIN t = 1..N
    <3>1. t \in Seq(Range(t))
      BY <1>5
    <3> HIDE DEF t
    <3> QED BY <3>1, SeqFacts
  <2>2. l = [j \in DOMAIN t |-> E(j)]
    BY <1>2 DEF Labelled, cut, parents
  <2> HIDE DEF l, t, N, E
  <2>3. l \in [1..N -> {E(j) : j \in 1..N}] /\ \A j \in 1..N : l[j] = E(j)
    BY <2>1, <2>2
  <2>4. l \in Seq(Range(l)) /\ Len(l) = N
    BY <2>1, <2>3, SequenceIs
  <2>5. \A x : x \in Range(l) <=> \E j \in 1..N : l[j] = x
    BY <2>4, RangeIs
  <2>6. \A y : y \in Range(t) <=> \E j \in 1..N : t[j] = y
    BY <2>1, RangeIs DEF N
  <2>7. \A x : x \in Range(l) <=> \E y \in Range(t) : x = Relabel(y, parents[k].path, k)
    <3>1. ASSUME NEW x \in Range(l) PROVE \E y \in Range(t) : x = Relabel(y, parents[k].path, k)
      <4>1. PICK j \in 1..N : l[j] = x
        BY <2>5
      <4>2. x = Relabel(t[j], parents[k].path, k)
        BY <2>3, <4>1 DEF E
      <4> QED BY <2>6, <4>2
    <3>2. ASSUME NEW y \in Range(t) PROVE Relabel(y, parents[k].path, k) \in Range(l)
      <4>1. PICK j \in 1..N : t[j] = y
        BY <2>6
      <4>2. l[j] = Relabel(y, parents[k].path, k)
        BY <2>3, <4>1 DEF E
      <4> QED BY <2>5, <4>2
    <3> QED BY <3>1, <3>2
  <2> QED BY <2>4, <2>7 DEF l, t
<1>7. /\ FlattenSeq(lists) \in Seq(Range(FlattenSeq(lists)))
      /\ \A x : x \in Range(FlattenSeq(lists)) <=> \E k \in 1..n : x \in Range(lists[k])
  BY <1>1, <1>3, <1>6, FlattenAny
<1>8. \A x : x \in Range(Children(c, d)) <=>
         \E k \in 1..n : \E y \in Range(cut(k)) : x = Relabel(y, parents[k].path, k)
  <2>1. \A k \in 1..n : \A x : x \in Range(lists[k]) <=>
                   \E y \in Range(cut(k)) : x = Relabel(y, parents[k].path, k)
    BY <1>6
  <2>2. \A x : x \in Range(Children(c, d)) <=> \E k \in 1..n : x \in Range(lists[k])
    BY <1>4, <1>7
  <2>3. ASSUME NEW x, x \in Range(Children(c, d))
        PROVE  \E k \in 1..n : \E y \in Range(cut(k)) : x = Relabel(y, parents[k].path, k)
    <3>1. PICK k \in 1..n : x \in Range(lists[k])
      BY <2>2, <2>3
    <3>2. \E y \in Range(cut(k)) : x = Relabel(y, parents[k].path, k)
      BY <2>1, <3>1
    <3> QED BY <3>2
  <2>4. ASSUME NEW k \in 1..n, NEW y \in Range(cut(k))
        PROVE  Relabel(y, parents[k].path, k) \in Range(Children(c, d))
    <3>1. Relabel(y, parents[k].path, k) \in Range(lists[k])
      BY <2>1
    <3> QED BY <2>2, <3>1
  <2> QED BY <2>3, <2>4
<1> QED BY <1>4, <1>7, <1>8 DEF n, parents, cut

\* What is cut from a chunk holds its words.
LEMMA CutRuns ==
    ASSUME NEW d, IsDocument(d), NEW y, NEW p \in Nat \ {0}, NEW q \in Nat, p <= q,
           TextIs(y, p, q), NEW ch, Brief(ch)
    PROVE  RunsOver(PlainChunks(ch, SubDoc(d, y)), p..q)
<1> DEFINE s == SubDoc(d, y)
           f == Single(p)
           l == Single(q)
<1>1. p - 1 <= q
  OBVIOUS
<1>2. s.text = Run(p, q) /\ Sectioned(s, 1, f, l) /\ Held(1, f, l) = p..q
  BY <1>1, SubDocIs
<1> HIDE DEF s, f, l
<1>3. RunsOver(PlainChunks(ch, s), IF ch.name = "fixed" THEN p..q ELSE Held(1, f, l))
  BY <1>1, <1>2, PlainRuns
<1> QED BY <1>2, <1>3 DEF s

\* The children of all parents are runs over the whole of the text.
LEMMA ChildRuns ==
    ASSUME NEW d, IsDocument(d),
           NEW n, NEW F, NEW L, Sectioned(d, n, F, L),
           NEW a \in Nat \ {0}, NEW b \in Nat, a - 1 <= b, d.text = Run(a, b),
           NEW c, Brief(c.parent), Brief(c.child)
    PROVE  RunsOver(Children(c, d), IF c.parent.name = "fixed" THEN a..b ELSE Held(n, F, L))
<1> DEFINE W == IF c.parent.name = "fixed" THEN a..b ELSE Held(n, F, L)
           parents == PlainChunks(c.parent, d)
           N == Len(parents)
           cut(k) == Cut(c, d, k)
           out == Children(c, d)
<1>1. RunsOver(parents, W)
  <2> DEFINE p == c.parent
  <2>1. Brief(p)
    OBVIOUS
  <2> HIDE DEF p
  <2>2. RunsOver(PlainChunks(p, d), IF p.name = "fixed" THEN a..b ELSE Held(n, F, L))
    BY <2>1, PlainRuns
  <2> QED BY <2>2 DEF p
<1>2. parents \in Seq(Range(parents)) /\ \A k \in 1..N : parents[k] \in Range(parents)
  <2>1. parents \in Seq(Range(parents))
    BY <1>1 DEF RunsOver
  <2> HIDE DEF parents
  <2> QED BY <2>1, RangeIs
<1> HIDE DEF W, parents
<1>3. ASSUME NEW k \in 1..N
      PROVE  \E p \in Nat \ {0} : \E q \in Nat :
                /\ p <= q /\ parents[k].text = Run(p, q) /\ p..q \subseteq W
                /\ RunsOver(cut(k), p..q)
  <2> DEFINE y == parents[k]
  <2>1. y \in Range(parents)
    BY <1>2
  <2> HIDE DEF y
  <2>2. PICK p \in Nat \ {0} : \E q \in Nat : p <= q /\ y.text = Run(p, q) /\ p..q \subseteq W
    BY <1>1, <2>1 DEF RunsOver
  <2>3. PICK q \in Nat : p <= q /\ y.text = Run(p, q) /\ p..q \subseteq W
    BY <2>2
  <2> DEFINE s == SubDoc(d, y)
             ch == c.child
  <2>8. RunsOver(PlainChunks(ch, s), p..q)
    <3>1. TextIs(y, p, q) /\ Brief(ch)
      BY <2>3 DEF TextIs
    <3> HIDE DEF ch
    <3> QED BY <2>3, <3>1, CutRuns
  <2> HIDE DEF s, ch
  <2>9. cut(k) = PlainChunks(ch, s)
    BY DEF Cut, s, y, parents, ch
  <2> HIDE DEF cut
  <2>10. RunsOver(cut(k), p..q)
    BY <2>8, <2>9
  <2> QED BY <2>3, <2>10 DEF y
<1> HIDE DEF cut, N
<1>4. \A k \in 1..N : cut(k) \in Seq(Range(cut(k)))
  BY <1>3 DEF RunsOver
<1>5. /\ out \in Seq(Range(out))
      /\ \A x : x \in Range(out) <=>
            \E k \in 1..N : \E y \in Range(cut(k)) : x = Relabel(y, parents[k].path, k)
  BY <1>2, <1>4, ChildrenIn DEF cut, N, parents
<1> HIDE DEF out
<1>6. ASSUME NEW x \in Range(out)
      PROVE  /\ IsChunk(x)
             /\ \E p \in Nat \ {0} : \E q \in Nat :
                   p <= q /\ x.text = Run(p, q) /\ p..q \subseteq W
  <2>1. PICK k \in 1..N : \E y \in Range(cut(k)) : x = Relabel(y, parents[k].path, k)
    BY <1>5
  <2>2. PICK y \in Range(cut(k)) : x = Relabel(y, parents[k].path, k)
    BY <2>1
  <2>3. PICK V : V \subseteq W /\ RunsOver(cut(k), V)
    BY <1>3
  <2>4. /\ IsChunk(y)
        /\ \E p \in Nat \ {0} : \E q \in Nat : p <= q /\ y.text = Run(p, q) /\ p..q \subseteq V
    BY <2>3 DEF RunsOver
  <2>5. IsChunk(x) /\ x.text = y.text
    BY <2>2, <2>4, RelabelIs
  <2> QED BY <2>3, <2>4, <2>5
<1>7. ASSUME NEW w \in W PROVE \E x \in Range(out) : w \in Range(x.text)
  <2>1. PICK z \in Range(parents) : w \in Range(z.text)
    BY <1>1 DEF RunsOver
  <2>2. PICK k \in 1..N : parents[k] = z
    BY <1>2, <2>1, RangeIs DEF N
  <2>3. PICK p \in Nat \ {0} : \E q \in Nat :
                /\ p <= q /\ parents[k].text = Run(p, q) /\ p..q \subseteq W
                /\ RunsOver(cut(k), p..q)
    BY <1>3
  <2>4. PICK q \in Nat : p <= q /\ z.text = Run(p, q) /\ RunsOver(cut(k), p..q)
    BY <2>2, <2>3
  <2>5. w \in p..q
    <3>1. p \in Nat /\ q \in Int /\ p - 1 <= q
      BY <2>4
    <3>2. Range(Run(p, q)) = p..q
      BY <3>1, RunRange
    <3> QED BY <2>1, <2>4, <3>2
  <2>6. PICK y \in Range(cut(k)) : w \in Range(y.text)
    BY <2>4, <2>5 DEF RunsOver
  <2>7. IsChunk(y)
    BY <2>4 DEF RunsOver
  <2> DEFINE x == Relabel(y, parents[k].path, k)
  <2>8. x.text = y.text
    BY <2>7, RelabelIs
  <2>9. x \in Range(out)
    BY <1>5
  <2> HIDE DEF x
  <2> QED BY <2>6, <2>8, <2>9
<1> QED BY <1>5, <1>6, <1>7 DEF RunsOver, out, W

-----------------------------------------------------------------------------
(* Pages.                                                                  *)

\* What a page is, block by block; P words come before the blocks.
PageOf(p, P, N, v, H, B) ==
    /\ P = Len(p.article) + Len(p.preamble) /\ Len(p.article) \in Nat /\ Len(p.preamble) \in Nat
    /\ P \in Nat /\ N \in Nat /\ N = Len(p.blocks) /\ DOMAIN p.blocks = 1..N
    /\ p.blocks = <<>> <=> N = 0
    /\ v \in [1..N -> 1..6] /\ H \in [1..N -> Nat] /\ B \in [1..N -> Nat]
    /\ \A k \in 1..N : /\ p.blocks[k].level = v[k]
                       /\ Len(p.blocks[k].heading) = H[k] /\ Len(p.blocks[k].body) = B[k]
                       /\ p.blocks[k].heading = <<>> <=> H[k] = 0

\* What a page is: an article, and a preamble and blocks of a heading and a body.
LEMMA PageIs ==
    ASSUME NEW p \in Pages
    PROVE  \E P, N, v, H, B : PageOf(p, P, N, v, H, B)
<1> DEFINE P == Len(p.article) + Len(p.preamble)
           N == Len(p.blocks)
           v == [k \in 1..N |-> p.blocks[k].level]
           H == [k \in 1..N |-> Len(p.blocks[k].heading)]
           B == [k \in 1..N |-> Len(p.blocks[k].body)]
           T == [level : 1..6, heading : Seq(Words), body : Seq(Words)]
<1>1. p.article \in Seq(Words) /\ p.preamble \in Seq(Words) /\ p.blocks \in Seq(T)
  BY PagesAssumption
<1> HIDE DEF T
<1>2. Len(p.article) \in Nat /\ Len(p.preamble) \in Nat /\ P \in Nat /\ N \in Nat /\ DOMAIN p.blocks = 1..N /\ (p.blocks = <<>> <=> N = 0)
      /\ \A k \in 1..N : p.blocks[k] \in T
  <2>1. Len(p.article) \in Nat /\ Len(p.preamble) \in Nat
    BY <1>1
  <2>2. N \in Nat /\ DOMAIN p.blocks = 1..N /\ (p.blocks = <<>> <=> N = 0)
        /\ \A k \in 1..N : p.blocks[k] \in T
    BY <1>1
  <2> DEFINE x == Len(p.article)
             y == Len(p.preamble)
  <2>3. x \in Nat /\ y \in Nat
    BY <2>1
  <2> HIDE DEF x, y
  <2>4. x + y \in Nat
    BY <2>3
  <2> QED BY <2>1, <2>2, <2>4 DEF x, y
<1>3. ASSUME NEW k \in 1..N
      PROVE  /\ p.blocks[k].level \in 1..6 /\ Len(p.blocks[k].heading) \in Nat
             /\ Len(p.blocks[k].body) \in Nat
             /\ p.blocks[k].heading = <<>> <=> Len(p.blocks[k].heading) = 0
  <2> DEFINE b == p.blocks[k]
  <2>1. b \in T
    BY <1>2
  <2> HIDE DEF b
  <2>2. b.level \in 1..6 /\ b.heading \in Seq(Words) /\ b.body \in Seq(Words)
    BY <2>1 DEF T
  <2>3. Len(b.heading) \in Nat /\ Len(b.body) \in Nat /\ (b.heading = <<>> <=> Len(b.heading) = 0)
    BY <2>2
  <2> QED BY <2>2, <2>3 DEF b
<1> HIDE DEF P, N
<1>4. v \in [1..N -> 1..6] /\ H \in [1..N -> Nat] /\ B \in [1..N -> Nat]
  BY <1>3
<1>5. \A k \in 1..N : /\ p.blocks[k].level = v[k]
                      /\ Len(p.blocks[k].heading) = H[k] /\ Len(p.blocks[k].body) = B[k]
                      /\ p.blocks[k].heading = <<>> <=> H[k] = 0
  BY <1>3
<1> HIDE DEF v, H, B
<1>6. PageOf(p, P, N, v, H, B)
  BY <1>2, <1>4, <1>5 DEF PageOf, P, N
<1> QED BY <1>6

\* Where each block starts: behind the one before.
Starts(P, N, H, B, start) ==
    /\ start \in [1..(N + 1) -> Nat \ {0}] /\ start[1] = 1 + P
    /\ \A k \in 1..N : start[k + 1] = start[k] + H[k] + B[k]

\* BlockStart counts the words before a block.
LEMMA BlockStartIs ==
    ASSUME NEW P, NEW N, NEW v, NEW H, NEW B, PageOf(page, P, N, v, H, B)
    PROVE  \E start : /\ Starts(P, N, H, B, start)
                      /\ \A k \in 1..(N + 1) : BlockStart(k) = start[k]
<1> DEFINE blocks == page.blocks
           V == Nat \ {0}
           base == 1 + Len(page.article) + Len(page.preamble)
           step == [i \in 1..N |-> [x \in V |-> x + Len(blocks[i].heading) + Len(blocks[i].body)]]
           Fixed(g) == g = [i \in 1..(N + 1) |->
                              IF i = 1 THEN base
                              ELSE g[i - 1] + Len(blocks[i - 1].heading) + Len(blocks[i - 1].body)]
           g == CHOOSE g : Fixed(g)
<1>1. /\ P = Len(page.article) + Len(page.preamble)
      /\ Len(page.article) \in Nat /\ Len(page.preamble) \in Nat
      /\ P \in Nat /\ N \in Nat /\ N = Len(page.blocks)
      /\ H \in [1..N -> Nat] /\ B \in [1..N -> Nat]
      /\ \A k \in 1..N : Len(blocks[k].heading) = H[k] /\ Len(blocks[k].body) = B[k]
  BY DEF PageOf
<1>2. base \in V /\ base = 1 + P
  <2> DEFINE x == Len(page.article)
             y == Len(page.preamble)
  <2>1. x \in Nat /\ y \in Nat /\ P = x + y
    BY <1>1
  <2> HIDE DEF x, y
  <2>2. 1 + x + y \in V /\ 1 + x + y = 1 + P
    BY <2>1
  <2> QED BY <2>2 DEF x, y
<1>3. step \in [1..N -> [V -> V]]
  <2>1. ASSUME NEW i \in 1..N, NEW x \in V
        PROVE  x + Len(blocks[i].heading) + Len(blocks[i].body) \in V
    <3>1. Len(blocks[i].heading) = H[i] /\ Len(blocks[i].body) = B[i] /\ H[i] \in Nat /\ B[i] \in Nat
      BY <1>1
    <3>2. x \in Nat /\ x # 0
      OBVIOUS
    <3>3. x + H[i] + B[i] \in Nat /\ x + H[i] + B[i] # 0
      BY <3>1, <3>2
    <3> HIDE DEF blocks
    <3>4. x + Len(blocks[i].heading) + Len(blocks[i].body) = x + H[i] + B[i]
      BY <3>1
    <3> QED BY <3>3, <3>4
  <2> QED BY <2>1
<1> HIDE DEF base, V
<1>4. PICK f : Recursive(f, N, V, base, step)
  <2> HIDE DEF step
  <2> QED BY <1>1, <1>2, <1>3, RecursionExists
<1>5. f \in [0..N -> V] /\ f[0] = base /\ \A i \in 1..N : f[i] = step[i][f[i - 1]]
  <2> HIDE DEF step
  <2> QED BY <1>4 DEF Recursive
<1>6. ASSUME NEW i \in 1..N
      PROVE  f[i] = f[i - 1] + Len(blocks[i].heading) + Len(blocks[i].body)
  <2>1. i - 1 \in 0..N
    BY <1>1
  <2>2. f[i - 1] \in V /\ f[i] = step[i][f[i - 1]]
    BY <1>5, <2>1
  <2> QED BY <2>2
<1> HIDE DEF step
<1> DEFINE h == [i \in 1..(N + 1) |-> f[i - 1]]
<1>7. Fixed(h)
  <2>1. ASSUME NEW i \in 1..(N + 1)
        PROVE  h[i] = IF i = 1 THEN base
                      ELSE h[i - 1] + Len(blocks[i - 1].heading) + Len(blocks[i - 1].body)
    <3>1. CASE i = 1
      BY <1>5, <3>1
    <3>2. CASE i # 1
      <4>1. i - 1 \in 1..N /\ i - 1 \in 1..(N + 1)
        BY <1>1, <3>2
      <4>2. h[i - 1] = f[(i - 1) - 1] /\ h[i] = f[i - 1]
        BY <4>1
      <4>3. f[i - 1] = f[(i - 1) - 1] + Len(blocks[i - 1].heading) + Len(blocks[i - 1].body)
        BY <1>6, <4>1
      <4> HIDE DEF h
      <4> QED BY <3>2, <4>2, <4>3
    <3> QED BY <3>1, <3>2
  <2>2. h = [i \in 1..(N + 1) |-> h[i]]
    OBVIOUS
  <2> HIDE DEF h, blocks
  <2> QED BY <2>1, <2>2
<1>8. Fixed(g)
  <2> HIDE DEF h
  <2> QED BY <1>7
<1>9. \A k \in 1..(N + 1) : BlockStart(k) = g[k]
  BY <1>1 DEF BlockStart, base
<1> HIDE DEF g, h
<1>10. /\ g[1] = 1 + P
       /\ \A k \in 1..N : g[k + 1] = g[k] + H[k] + B[k]
  <2>1. \A i \in 1..(N + 1) : g[i] = IF i = 1 THEN base
                      ELSE g[i - 1] + Len(blocks[i - 1].heading) + Len(blocks[i - 1].body)
    BY <1>8
  <2>2. 1 \in 1..(N + 1)
    BY <1>1
  <2>3. ASSUME NEW k \in 1..N PROVE g[k + 1] = g[k] + H[k] + B[k]
    <3>1. k + 1 \in 1..(N + 1) /\ k + 1 # 1 /\ (k + 1) - 1 = k
      BY <1>1
    <3>2. g[k + 1] = g[k] + Len(blocks[k].heading) + Len(blocks[k].body)
      BY <2>1, <3>1
    <3> QED BY <1>1, <3>2
  <2> QED BY <1>2, <2>1, <2>2, <2>3
<1>11. g \in [1..(N + 1) -> Nat \ {0}]
  <2> DEFINE T == {i \in 0..N : g[i + 1] \in Nat \ {0}}
  <2>1. 0 \in T
    <3>1. g[1] = 1 + P /\ P \in Nat /\ N \in Nat
      BY <1>1, <1>10
    <3> QED BY <3>1
  <2>2. ASSUME NEW i \in 0..(N - 1), i \in T PROVE i + 1 \in T
    <3>1. i + 1 \in 1..N /\ i + 1 \in 0..N
      BY <1>1
    <3>2. g[(i + 1) + 1] = g[i + 1] + H[i + 1] + B[i + 1] /\ H[i + 1] \in Nat /\ B[i + 1] \in Nat
      BY <1>1, <1>10, <3>1
    <3> QED BY <2>2, <3>1, <3>2
  <2> HIDE DEF T
  <2>3. 0..N \subseteq T
    BY <1>1, <2>1, <2>2, Climb
  <2>4. ASSUME NEW i \in 1..(N + 1) PROVE g[i] \in Nat \ {0}
    <3>1. i - 1 \in 0..N /\ (i - 1) + 1 = i
      BY <1>1
    <3>2. g[(i - 1) + 1] \in Nat \ {0}
      BY <2>3, <3>1 DEF T
    <3> QED BY <3>1, <3>2
  <2>5. g = [i \in 1..(N + 1) |-> g[i]]
    BY <1>8
  <2> QED BY <2>4, <2>5
<1>12. Starts(P, N, H, B, g)
  BY <1>10, <1>11 DEF Starts
<1> QED BY <1>9, <1>12

\* Blocks follow each other.
LEMMA StartsGrow ==
    ASSUME NEW P, NEW N, NEW v, NEW H, NEW B, NEW p, PageOf(p, P, N, v, H, B),
           NEW start, Starts(P, N, H, B, start)
    PROVE  \A i, j \in 1..(N + 1) : i <= j => start[i] <= start[j]
<1>1. N \in Nat /\ H \in [1..N -> Nat] /\ B \in [1..N -> Nat]
  BY DEF PageOf
<1>2. start \in [1..(N + 1) -> Nat \ {0}] /\ \A k \in 1..N : start[k + 1] = start[k] + H[k] + B[k]
  BY DEF Starts
<1>3. ASSUME NEW i \in 1..(N + 1) PROVE \A j \in 1..(N + 1) : i <= j => start[i] <= start[j]
  <2> DEFINE T == {k \in 0..N : i <= k + 1 => start[i] <= start[k + 1]}
  <2>1. 0 \in T
    <3>1. i <= 0 + 1 => i = 1
      OBVIOUS
    <3>2. start[1] \in Nat /\ 0 \in 0..N
      <4>1. 1 \in 1..(N + 1)
        BY <1>1
      <4> QED BY <1>1, <1>2, <4>1
    <3> QED BY <3>1, <3>2
  <2>2. ASSUME NEW k \in 0..(N - 1), k \in T PROVE k + 1 \in T
    <3>1. k + 1 \in 1..N /\ k + 1 \in 0..N /\ k + 1 \in 1..(N + 1) /\ (k + 1) + 1 \in 1..(N + 1)
      BY <1>1
    <3>2. start[(k + 1) + 1] = start[k + 1] + H[k + 1] + B[k + 1]
          /\ H[k + 1] \in Nat /\ B[k + 1] \in Nat /\ start[k + 1] \in Nat
          /\ start[(k + 1) + 1] \in Nat /\ start[i] \in Nat
      BY <1>1, <1>2, <3>1
    <3>3. i <= (k + 1) + 1 => i <= k + 1 \/ i = (k + 1) + 1
      BY <1>1
    <3> QED BY <2>2, <3>1, <3>2, <3>3
  <2> HIDE DEF T
  <2>3. 0..N \subseteq T
    BY <1>1, <2>1, <2>2, Climb
  <2>4. ASSUME NEW j \in 1..(N + 1), i <= j PROVE start[i] <= start[j]
    <3>1. j - 1 \in 0..N /\ (j - 1) + 1 = j
      BY <1>1
    <3>2. j - 1 \in T
      BY <2>3, <3>1
    <3> QED BY <2>4, <3>1, <3>2 DEF T
  <2> QED BY <2>4
<1> QED BY <1>3

-----------------------------------------------------------------------------
(* Headings.                                                               *)

Entry      == [level : 1..6, at : Nat]
SectionSet == [text : Seq(Nat), path : Seq(Nat), start : Nat]
Readers    == [at : Nat, stack : Seq(Entry), cursor : Nat, sections : Seq(SectionSet)]
BlockSet   == [level : 1..6, heading : Seq(Words), body : Seq(Words)]

\* What is on a stack
LEMMA EntryIs ==
    ASSUME NEW stack \in Seq(Entry)
    PROVE  /\ DOMAIN stack = 1..Len(stack) /\ Len(stack) \in Nat
           /\ \A i \in 1..Len(stack) :
                 stack[i] \in Entry /\ stack[i].level \in 1..6 /\ stack[i].at \in Nat
<1>1. DOMAIN stack = 1..Len(stack) /\ Len(stack) \in Nat /\ \A i \in 1..Len(stack) : stack[i] \in Entry
  BY SeqFacts
<1>2. \A x \in Entry : x.level \in 1..6 /\ x.at \in Nat
  BY DEF Entry
<1> QED BY <1>1, <1>2

\* The characters of a text were none of its words closed: a word is one, and so is the
\* space between two.
Width(text) == IF text = <<>> THEN 0 ELSE 2 * Len(text) - 1

\* The width of a run.
LEMMA WidthIs ==
    ASSUME NEW a \in Nat, NEW b \in Int, a - 1 <= b
    PROVE  /\ Width(Run(a, b)) \in Nat
           /\ b = a - 1 => Width(Run(a, b)) = 0
           /\ a <= b => Width(Run(a, b)) = 2 * (b - a) + 1
<1>1. Len(Run(a, b)) = b - a + 1 /\ (Run(a, b) = <<>> <=> b = a - 1)
  BY RunIs
<1>2. b - a + 1 \in Nat /\ (b # a - 1 => a <= b /\ b - a \in Nat)
  OBVIOUS
<1>3. Width(Run(a, b)) = IF b = a - 1 THEN 0 ELSE 2 * (b - a + 1) - 1
  BY <1>1 DEF Width
<1> QED BY <1>2, <1>3

\* Words have their width in characters, and one more for each that is closed.
LEMMA CharsIs ==
    ASSUME NEW S, NEW s \in Seq(S)
    PROVE  /\ Chars(s) \in Nat /\ Width(s) \in Nat /\ Width(s) <= Chars(s)
           /\ (\A i \in 1..Len(s) : s[i] \notin Closed) => Chars(s) = Width(s)
<1> DEFINE D == {i \in DOMAIN s : s[i] \in Closed}
<1>1. Len(s) \in Nat /\ DOMAIN s = 1..Len(s) /\ (s = <<>> <=> Len(s) = 0)
  OBVIOUS
<1>2. D \subseteq 1..Len(s) /\ ((\A i \in 1..Len(s) : s[i] \notin Closed) => D = {})
  BY <1>1
<1>3. Chars(s) = IF s = <<>> THEN 0 ELSE 2 * Len(s) - 1 + Cardinality(D)
  BY DEF Chars
<1> HIDE DEF D
<1>4. IsFiniteSet(D)
  BY <1>1, <1>2, Positions, FS_Subset
<1>5. Cardinality(D) \in Nat /\ (D = {} => Cardinality(D) = 0)
  BY <1>4, FS_CardinalityType, FS_EmptySet
<1> QED BY <1>1, <1>2, <1>3, <1>5 DEF Width

\* The headings that stay when one of a level comes: all before the last of a lower level.
LEMMA UnderIs ==
    ASSUME NEW stack \in Seq(Entry), NEW level \in 1..6
    PROVE  \E n \in 0..Len(stack) :
              /\ Under(stack, level) \in Seq(Entry) /\ Len(Under(stack, level)) = n
              /\ \A i \in 1..n : Under(stack, level)[i] = stack[i]
              /\ n # 0 => stack[n].level < level
              /\ \A i \in (n + 1)..Len(stack) : level <= stack[i].level
<1> DEFINE N == Len(stack)
           S == {n \in 0..N : n = 0 \/ stack[n].level < level}
           n == Max(S)
<1>1. N \in Nat /\ \A i \in 1..N : stack[i] \in Entry /\ stack[i].level \in 1..6
  BY EntryIs
<1> HIDE DEF N
<1>2. S \subseteq 0..N /\ 0 \in S
  BY <1>1
<1>3. n \in S /\ \A i \in S : n >= i
  <2> HIDE DEF S
  <2> QED BY <1>1, <1>2, MaxIs
<1> HIDE DEF n
<1>4. n \in 0..N /\ (n # 0 => stack[n].level < level)
  BY <1>3
<1>5. \A i \in (n + 1)..N : level <= stack[i].level
  <2> SUFFICES ASSUME NEW i \in (n + 1)..N PROVE level <= stack[i].level
    OBVIOUS
  <2>1. i \in 1..N /\ i \in 0..N /\ i > n /\ i # 0
    BY <1>1, <1>4
  <2>2. i \notin S
    BY <1>3, <1>4, <2>1
  <2>3. ~(stack[i].level < level) /\ stack[i].level \in 1..6
    BY <1>1, <2>1, <2>2
  <2> QED BY <2>3
<1>6. SubSeq(stack, 1, n) \in Seq(Entry) /\ Len(SubSeq(stack, 1, n)) = n
      /\ \A i \in 1..n : SubSeq(stack, 1, n)[i] = stack[i]
  BY <1>1, <1>4 DEF N
<1>7. Under(stack, level) = SubSeq(stack, 1, n)
  BY DEF Under, n, N
<1> QED BY <1>4, <1>5, <1>6, <1>7 DEF N

\* What a heading leaves on the stack
Pushed(r, block) ==
    IF block.heading = <<>> THEN Under(r.stack, block.level)
    ELSE Append(Under(r.stack, block.level), [level |-> block.level, at |-> r.at + 1])

Names(stack) == [i \in DOMAIN stack |-> stack[i].at]
Body(r, block) ==
    Run(r.at + Len(block.heading) + 1, r.at + Len(block.heading) + Len(block.body))

\* The run of b words behind so many others
Behind(t, at, h, b) == t = Run(at + h + 1, at + h + b)

\* The text of a body.
LEMMA BodyIs ==
    ASSUME NEW at \in Nat, NEW h \in Nat, NEW b \in Nat,
           NEW t, Behind(t, at, h, b)
    PROVE  t \in Seq(Nat) /\ Len(t) = b /\ (t = <<>> <=> b = 0) /\ Width(t) \in Nat
<1> DEFINE x == at + h + 1
           y == at + h + b
<1>1. x \in Nat /\ y \in Int /\ x - 1 <= y /\ y - x + 1 = b /\ (y = x - 1 <=> b = 0)
  OBVIOUS
<1>2. t = Run(x, y)
  BY DEF Behind
<1> HIDE DEF x, y
<1>3. t \in Seq(Nat) /\ Len(t) = b /\ (t = <<>> <=> b = 0)
  BY <1>1, <1>2, RunIs
<1>4. Width(t) \in Nat
  BY <1>1, <1>2, WidthIs
<1> QED BY <1>3, <1>4

Sized(block, h, b) ==
    h \in Nat /\ b \in Nat /\ h = Len(block.heading) /\ b = Len(block.body)

\* What one heading does to what was read (extract_sections).
LEMMA HeadingIs ==
    ASSUME NEW r \in Readers, NEW block \in BlockSet,
           NEW q, q = Heading(r, block),
           NEW h, NEW b, Sized(block, h, b)
    PROVE  /\ q \in Readers
           /\ q.at = r.at + h + b /\ q.stack = Pushed(r, block)
           /\ b = 0 => q.cursor = r.cursor /\ q.sections = r.sections
           /\ Chars(block.body) \in Nat /\ Width(Body(r, block)) <= Chars(block.body)
           /\ b # 0 => /\ q.cursor = r.cursor + Chars(block.body) + 1
                       /\ q.sections = Append(r.sections, [text  |-> Body(r, block),
                                                           path  |-> Names(Pushed(r, block)),
                                                           start |-> r.cursor])
<1> DEFINE run == Body(r, block)
           stack == Pushed(r, block)
           at == r.at
<1>1. /\ at \in Nat /\ r.cursor \in Nat /\ r.sections \in Seq(SectionSet) /\ r.stack \in Seq(Entry)
      /\ block.level \in 1..6 /\ block.heading \in Seq(Words) /\ block.body \in Seq(Words)
  BY DEF Readers, BlockSet
<1> HIDE DEF at
<1>11. at \in Nat /\ h \in Nat /\ b \in Nat
  BY <1>1 DEF Sized
<1>2. run \in Seq(Nat) /\ Len(run) = b /\ (run = <<>> <=> b = 0) /\ Width(run) \in Nat
  <2>1. Behind(run, at, h, b)
    BY DEF Body, at, Sized, Behind
  <2> HIDE DEF run
  <2> QED BY <1>11, <2>1, BodyIs
<1>3. stack \in Seq(Entry)
  <2>1. Under(r.stack, block.level) \in Seq(Entry)
    BY <1>1, UnderIs
  <2>2. [level |-> block.level, at |-> r.at + 1] \in Entry
    BY <1>1 DEF Entry, at
  <2> QED BY <2>1, <2>2 DEF Pushed
<1>4. Names(stack) \in Seq(Nat)
  <2> HIDE DEF stack
  <2>1. DOMAIN stack = 1..Len(stack) /\ Len(stack) \in Nat /\ \A i \in 1..Len(stack) : stack[i].at \in Nat
    BY <1>3, EntryIs
  <2>2. Names(stack) \in [1..Len(stack) -> Nat]
    BY <2>1 DEF Names
  <2> QED BY <2>1, <2>2
<1> HIDE DEF run, stack
<1>12. Chars(block.body) \in Nat /\ Width(run) <= Chars(block.body)
  <2>1. Chars(block.body) \in Nat /\ Width(block.body) <= Chars(block.body)
    BY <1>1, CharsIs
  <2>2. Width(run) = Width(block.body)
    <3>1. Len(run) = Len(block.body) /\ (run = <<>> <=> block.body = <<>>)
      BY <1>1, <1>2 DEF Sized
    <3> QED BY <3>1 DEF Width
  <2> QED BY <2>1, <2>2
<1> DEFINE next == [text |-> run, path |-> Names(stack), start |-> r.cursor]
           cursor == IF run = <<>> THEN r.cursor ELSE r.cursor + Chars(block.body) + 1
           sections == IF run = <<>> THEN r.sections ELSE Append(r.sections, next)
<1>5. next \in SectionSet
  BY <1>1, <1>2, <1>4 DEF SectionSet
<1>6. cursor \in Nat /\ sections \in Seq(SectionSet)
  <2> HIDE DEF next
  <2> QED BY <1>1, <1>2, <1>5, <1>12
<1>7. q = [at |-> at + h + Len(run), stack |-> stack, cursor |-> cursor, sections |-> sections]
  BY DEF Heading, Pushed, Body, Names, at, run, stack, Sized
<1>8. at + h + Len(run) = at + h + b /\ at + h + b \in Nat
  <2>1. Len(run) = b
    BY <1>2
  <2> QED BY <1>11, <2>1
<1>9. /\ q.at = at + h + b /\ q.stack = stack
      /\ q.cursor = cursor /\ q.sections = sections
  <2> HIDE DEF cursor, sections
  <2> QED BY <1>7, <1>8
<1>10. q \in Readers
  <2> HIDE DEF cursor, sections
  <2> QED BY <1>3, <1>6, <1>7, <1>8 DEF Readers
<1> QED BY <1>1, <1>2, <1>9, <1>10, <1>12 DEF at, run, stack

\* So many blocks, of these levels and lengths of headings
Outlined(N, v, H) == N \in Nat /\ v \in [1..N -> 1..6] /\ H \in [1..N -> Nat]

\* The blocks whose headings stand over what comes behind the k-th
Open(v, H, k) == {j \in 1..k : H[j] # 0 /\ \A l \in (j + 1)..k : v[j] < v[l]}

\* One more block: it closes those of its level and below.
LEMMA OpenNext ==
    ASSUME NEW N, NEW v, NEW H, Outlined(N, v, H), NEW k \in 1..N
    PROVE  \A j : j \in Open(v, H, k) <=>
              \/ j \in Open(v, H, k - 1) /\ v[j] < v[k]
              \/ j = k /\ H[k] # 0
<1>0. N \in Nat /\ v \in [1..N -> 1..6] /\ H \in [1..N -> Nat]
  BY DEF Outlined
<1>1. ASSUME NEW j, j \in Open(v, H, k)
      PROVE  \/ j \in Open(v, H, k - 1) /\ v[j] < v[k]
             \/ j = k /\ H[k] # 0
  <2>1. j \in 1..k /\ H[j] # 0 /\ \A l \in (j + 1)..k : v[j] < v[l]
    BY <1>1 DEF Open
  <2>2. CASE j = k
    BY <2>1, <2>2
  <2>3. CASE j # k
    <3>1. j \in 1..(k - 1) /\ k \in (j + 1)..k /\ \A l \in (j + 1)..(k - 1) : l \in (j + 1)..k
      BY <1>0, <2>1, <2>3
    <3> QED BY <2>1, <3>1 DEF Open
  <2> QED BY <2>2, <2>3
<1>2. ASSUME NEW j, j \in Open(v, H, k - 1), v[j] < v[k]
      PROVE  j \in Open(v, H, k)
  <2>1. j \in 1..(k - 1) /\ H[j] # 0 /\ \A l \in (j + 1)..(k - 1) : v[j] < v[l]
    BY <1>2 DEF Open
  <2>2. j \in 1..k /\ \A l \in (j + 1)..k : l \in (j + 1)..(k - 1) \/ l = k
    BY <1>0, <2>1
  <2> QED BY <1>2, <2>1, <2>2 DEF Open
<1>3. ASSUME H[k] # 0 PROVE k \in Open(v, H, k)
  <2>1. k \in 1..k /\ \A l \in (k + 1)..k : FALSE
    BY <1>0
  <2> QED BY <1>3, <2>1 DEF Open
<1> QED BY <1>1, <1>2, <1>3

\* The stack holds the open headings, in the order of their levels.
Ordered(stack) == \A i, j \in 1..Len(stack) : i < j => stack[i].level < stack[j].level
Stacked(stack, v, H, start, k) ==
    /\ stack \in Seq(Entry) /\ Ordered(stack)
    /\ \A i \in 1..Len(stack) :
          \E j \in Open(v, H, k) : stack[i].level = v[j] /\ stack[i].at = start[j]
    /\ \A j \in Open(v, H, k) :
          \E i \in 1..Len(stack) : stack[i].level = v[j] /\ stack[i].at = start[j]

\* What is left of the stack are the open headings above the new one.
LEMMA UnderStacked ==
    ASSUME NEW N, NEW v, NEW H, Outlined(N, v, H), NEW k \in 1..N,
           NEW start, NEW stack, Stacked(stack, v, H, start, k - 1),
           NEW u, u = Under(stack, v[k])
    PROVE  /\ u \in Seq(Entry) /\ Ordered(u)
           /\ \A i \in 1..Len(u) : u[i].level < v[k]
           /\ \A i \in 1..Len(u) :
                 \E j \in Open(v, H, k - 1) : u[i].level = v[j] /\ u[i].at = start[j]
           /\ \A j \in Open(v, H, k - 1) :
                 v[j] < v[k] => \E i \in 1..Len(u) : u[i].level = v[j] /\ u[i].at = start[j]
<1> DEFINE level == v[k]
<1>1. level \in 1..6
  BY DEF Outlined
<1>2. stack \in Seq(Entry) /\ Ordered(stack)
  BY DEF Stacked
<1> HIDE DEF level
<1> DEFINE m == Len(stack)
<1>3. PICK n \in 0..m :
              /\ u \in Seq(Entry) /\ Len(u) = n
              /\ \A i \in 1..n : u[i] = stack[i]
              /\ n # 0 => stack[n].level < level
              /\ \A i \in (n + 1)..m : level <= stack[i].level
  BY <1>1, <1>2, UnderIs DEF level
<1>4. m \in Nat /\ \A i \in 1..m : stack[i].level \in 1..6
  BY <1>2, EntryIs
<1> HIDE DEF m
<1>5. \A i \in 1..n : i \in 1..m /\ n \in 1..m /\ n # 0 /\ (i = n \/ i < n)
  BY <1>3, <1>4
<1>6. \A i \in 1..n : stack[i].level < level
  <2> SUFFICES ASSUME NEW i \in 1..n PROVE stack[i].level < level
    OBVIOUS
  <2>1. stack[i].level \in Int /\ stack[n].level \in Int /\ stack[n].level < level /\ (i = n \/ i < n)
    <3>1. i \in 1..m /\ n \in 1..m /\ n # 0 /\ (i = n \/ i < n)
      BY <1>5
    <3> QED BY <1>3, <1>4, <3>1
  <2>2. i < n => stack[i].level < stack[n].level
    BY <1>2, <1>5 DEF Ordered, m
  <2> QED BY <1>1, <2>1, <2>2
<1>7. Ordered(u)
  BY <1>2, <1>3, <1>5 DEF Ordered, m
<1>8. \A i \in 1..Len(u) :
         \E j \in Open(v, H, k - 1) : u[i].level = v[j] /\ u[i].at = start[j]
  <2>1. ASSUME NEW i \in 1..Len(u)
        PROVE  \E j \in Open(v, H, k - 1) : u[i].level = v[j] /\ u[i].at = start[j]
    <3>1. u[i] = stack[i] /\ i \in 1..Len(stack)
      BY <1>3, <1>5 DEF m
    <3>2. \E j \in Open(v, H, k - 1) : stack[i].level = v[j] /\ stack[i].at = start[j]
      BY <3>1 DEF Stacked
    <3> QED BY <3>1, <3>2
  <2> QED BY <2>1
<1>9. ASSUME NEW j \in Open(v, H, k - 1), v[j] < level
      PROVE  \E i \in 1..Len(u) : u[i].level = v[j] /\ u[i].at = start[j]
  <2>1. PICK i \in 1..Len(stack) : stack[i].level = v[j] /\ stack[i].at = start[j]
    BY DEF Stacked
  <2>2. i \in 1..m /\ stack[i].level \in 1..6 /\ stack[i].level = v[j] /\ v[j] < level
    BY <1>4, <1>9, <2>1 DEF m
  <2>3. ~(level <= stack[i].level)
    BY <1>1, <2>2
  <2>4. i \notin (n + 1)..m
    BY <1>3, <2>3
  <2>5. i \in 1..n
    BY <1>3, <1>4, <2>2, <2>4
  <2> QED BY <1>3, <2>1, <2>5
<1> QED BY <1>3, <1>6, <1>7, <1>8, <1>9 DEF level

\* The stack holds the open headings after one more heading.
LEMMA StackStep ==
    ASSUME NEW N, NEW v, NEW H, Outlined(N, v, H), NEW k \in 1..N,
           NEW start, NEW r \in Readers, Stacked(r.stack, v, H, start, k - 1), r.at + 1 = start[k],
           NEW block, block.level = v[k], block.heading = <<>> <=> H[k] = 0
    PROVE  Stacked(Pushed(r, block), v, H, start, k)
<1> DEFINE u == Under(r.stack, v[k])
           e == [level |-> v[k], at |-> start[k]]
           O == Open(v, H, k)
           O1 == Open(v, H, k - 1)
           As(x, j) == x.level = v[j] /\ x.at = start[j]
           s == Pushed(r, block)
<1>0. N \in Nat /\ v[k] \in 1..6
  BY DEF Outlined
<1>1. /\ u \in Seq(Entry) /\ Ordered(u)
      /\ \A i \in 1..Len(u) : u[i].level < v[k]
      /\ \A i \in 1..Len(u) : \E j \in O1 : As(u[i], j)
      /\ \A j \in O1 : v[j] < v[k] => \E i \in 1..Len(u) : As(u[i], j)
  <2> DEFINE stack == r.stack
  <2>1. Stacked(stack, v, H, start, k - 1) /\ u = Under(stack, v[k])
    OBVIOUS
  <2> HIDE DEF stack, u, O1
  <2>2. u \in Seq(Entry) /\ Ordered(u) /\ \A i \in 1..Len(u) : u[i].level < v[k]
    BY <2>1, UnderStacked
  <2>3. \A i \in 1..Len(u) : \E j \in O1 : As(u[i], j)
    BY <2>1, UnderStacked DEF O1
  <2>4. \A j \in O1 : v[j] < v[k] => \E i \in 1..Len(u) : As(u[i], j)
    BY <2>1, UnderStacked DEF O1
  <2> QED BY <2>2, <2>3, <2>4
<1>2. \A j : j \in O <=> (j \in O1 /\ v[j] < v[k]) \/ (j = k /\ H[k] # 0)
  BY OpenNext
<1>3. e \in Entry /\ As(e, k)
  <2>1. r.at + 1 \in Nat
    BY DEF Readers
  <2> QED BY <1>0, <2>1 DEF Entry
<1>4. s = IF H[k] = 0 THEN u ELSE Append(u, e)
  BY DEF Pushed
<1> DEFINE m == Len(u)
<1>5. m \in Nat /\ \A i \in 1..m : u[i].level \in Int
  <2> HIDE DEF u
  <2> QED BY <1>1, EntryIs
<1>6. \A i \in 1..m : \E j \in O : As(u[i], j)
  <2> SUFFICES ASSUME NEW i \in 1..m PROVE \E j \in O : As(u[i], j)
    OBVIOUS
  <2>1. PICK j \in O1 : As(u[i], j)
    BY <1>1
  <2>2. v[j] < v[k]
    BY <1>1, <2>1
  <2> QED BY <1>2, <2>1, <2>2
<1> HIDE DEF u, e, O, O1
<1>7. CASE H[k] = 0
  <2>1. s = u
    BY <1>4, <1>7
  <2>2. \A j \in O : \E i \in 1..m : As(u[i], j)
    BY <1>1, <1>2, <1>7
  <2> HIDE DEF s
  <2> QED BY <1>1, <1>6, <2>1, <2>2 DEF Stacked, O, s
<1>8. CASE H[k] # 0
  <2>1. s = Append(u, e)
    BY <1>4, <1>8
  <2> HIDE DEF s
  <2>2. s \in Seq(Entry) /\ Len(s) = m + 1 /\ s[m + 1] = e /\ \A i \in 1..m : s[i] = u[i]
    BY <1>1, <1>3, <2>1
  <2>3. \A i \in 1..(m + 1) : i \in 1..m \/ i = m + 1
    BY <1>5
  <2>4. Ordered(s)
    <3> SUFFICES ASSUME NEW i \in 1..(m + 1), NEW j \in 1..(m + 1), i < j
                 PROVE  s[i].level < s[j].level
      BY <2>2 DEF Ordered
    <3>1. i \in 1..m
      BY <1>5
    <3>2. CASE j \in 1..m
      BY <1>1, <2>2, <3>1, <3>2 DEF Ordered
    <3>3. CASE j = m + 1
      <4>1. e.level = v[k]
        BY DEF e
      <4> QED BY <1>1, <2>2, <3>1, <3>3, <4>1
    <3> QED BY <2>3, <3>2, <3>3
  <2>5. k \in O
    BY <1>2, <1>8
  <2>6. \A i \in 1..(m + 1) : \E j \in O : As(s[i], j)
    BY <1>3, <1>6, <2>2, <2>3, <2>5
  <2>7. \A i \in 1..m : i \in 1..(m + 1)
    BY <1>5
  <2>8. m + 1 \in 1..(m + 1)
    BY <1>5
  <2>9. ASSUME NEW j \in O PROVE \E i \in 1..(m + 1) : As(s[i], j)
    <3>1. CASE j = k
      BY <1>3, <2>2, <2>8, <3>1
    <3>2. CASE j # k
      <4>1. PICK i \in 1..m : As(u[i], j)
        BY <1>1, <1>2, <3>2
      <4> QED BY <2>2, <2>7, <4>1
    <3> QED BY <3>1, <3>2
  <2> QED BY <2>2, <2>4, <2>6, <2>9 DEF Stacked, O, s
<1> QED BY <1>7, <1>8

\* The headings that word w stands under
Over(N, v, H, start, w) ==
    {start[j] : j \in {k \in 1..N : /\ start[k] <= w /\ H[k] # 0
                                    /\ \A l \in 1..N : start[l] <= w /\ k < l => v[k] < v[l]}}

\* A page and where its blocks start
Laid(p, P, N, v, H, B, start) == PageOf(p, P, N, v, H, B) /\ Starts(P, N, H, B, start)

\* What a page laid out is.
LEMMA LaidIs ==
    ASSUME NEW p, NEW P, NEW N, NEW v, NEW H, NEW B, NEW start, Laid(p, P, N, v, H, B, start)
    PROVE  /\ N \in Nat /\ P \in Nat /\ Outlined(N, v, H) /\ start[1] = P + 1
           /\ \A k \in 1..N : /\ start[k] \in Nat \ {0} /\ H[k] \in Nat /\ B[k] \in Nat
                              /\ v[k] \in 1..6 /\ start[k + 1] = start[k] + H[k] + B[k]
           /\ \A k \in 1..(N + 1) : start[k] \in Nat \ {0}
           /\ \A i, j \in 1..(N + 1) : i <= j => start[i] <= start[j]
<1>1. PageOf(p, P, N, v, H, B) /\ Starts(P, N, H, B, start)
  BY DEF Laid
<1>2. N \in Nat /\ P \in Nat /\ v \in [1..N -> 1..6] /\ H \in [1..N -> Nat] /\ B \in [1..N -> Nat]
  BY <1>1 DEF PageOf
<1>3. /\ start \in [1..(N + 1) -> Nat \ {0}] /\ start[1] = 1 + P
      /\ \A k \in 1..N : start[k + 1] = start[k] + H[k] + B[k]
  BY <1>1 DEF Starts
<1>4. \A i, j \in 1..(N + 1) : i <= j => start[i] <= start[j]
  BY <1>1, StartsGrow
<1>5. \A k \in 1..N : k \in 1..(N + 1)
  BY <1>2
<1>6. start[1] = P + 1
  BY <1>2, <1>3
<1>7. Outlined(N, v, H)
  BY <1>2 DEF Outlined
<1>8. \A k \in 1..(N + 1) : start[k] \in Nat \ {0}
  BY <1>3
<1>9. \A k \in 1..N : H[k] \in Nat /\ B[k] \in Nat /\ v[k] \in 1..6
  BY <1>2
<1> QED BY <1>2, <1>3, <1>4, <1>5, <1>6, <1>7, <1>8, <1>9

\* The words of a block stand under the headings open behind it.
LEMMA OverBlock ==
    ASSUME NEW p, NEW P, NEW N, NEW v, NEW H, NEW B, NEW start, Laid(p, P, N, v, H, B, start),
           NEW k \in 1..N, NEW w \in Nat, start[k] <= w, w < start[k + 1]
    PROVE  Over(N, v, H, start, w) = {start[j] : j \in Open(v, H, k)}
<1>1. /\ N \in Nat /\ \A j \in 1..(N + 1) : start[j] \in Nat \ {0}
      /\ \A i, j \in 1..(N + 1) : i <= j => start[i] <= start[j]
  BY LaidIs
<1>2. \A j \in 1..N : start[j] <= w <=> j <= k
  <2> SUFFICES ASSUME NEW j \in 1..N PROVE start[j] <= w <=> j <= k
    OBVIOUS
  <2>1. k \in 1..(N + 1) /\ k + 1 \in 1..(N + 1) /\ j \in 1..(N + 1) /\ (~(j <= k) => k + 1 <= j)
    BY <1>1
  <2>2. j <= k => start[j] <= start[k]
    BY <1>1, <2>1
  <2>3. ~(j <= k) => start[k + 1] <= start[j]
    BY <1>1, <2>1
  <2>4. start[j] \in Nat /\ start[k] \in Nat /\ start[k + 1] \in Nat
    BY <1>1, <2>1
  <2> QED BY <2>2, <2>3, <2>4
<1> DEFINE S == {j \in 1..N : /\ start[j] <= w /\ H[j] # 0
                              /\ \A l \in 1..N : start[l] <= w /\ j < l => v[j] < v[l]}
<1>3. \A j : j \in S <=> j \in Open(v, H, k)
  <2>1. ASSUME NEW j, j \in S PROVE j \in Open(v, H, k)
    <3>1. j \in 1..N /\ j <= k /\ H[j] # 0
      BY <1>2, <2>1
    <3>2. \A l \in (j + 1)..k : l \in 1..N /\ l <= k /\ j < l
      BY <1>1, <3>1
    <3>3. \A l \in (j + 1)..k : v[j] < v[l]
      BY <1>2, <2>1, <3>2
    <3>4. j \in 1..k
      BY <3>1
    <3> QED BY <3>1, <3>3, <3>4 DEF Open
  <2>2. ASSUME NEW j, j \in Open(v, H, k) PROVE j \in S
    <3>1. j \in 1..k /\ H[j] # 0 /\ \A l \in (j + 1)..k : v[j] < v[l]
      BY <2>2 DEF Open
    <3>2. j \in 1..N /\ j <= k
      BY <1>1, <3>1
    <3>3. \A l \in 1..N : start[l] <= w /\ j < l => l \in (j + 1)..k
      BY <1>1, <1>2, <3>1
    <3> QED BY <1>2, <3>1, <3>2, <3>3
  <2> QED BY <2>1, <2>2
<1>4. Over(N, v, H, start, w) = {start[j] : j \in S}
  BY DEF Over
<1> HIDE DEF S
<1> QED BY <1>3, <1>4

\* The words of the preamble stand under none.
LEMMA OverPreamble ==
    ASSUME NEW p, NEW P, NEW N, NEW v, NEW H, NEW B, NEW start, Laid(p, P, N, v, H, B, start),
           NEW w \in Nat, w <= P
    PROVE  Over(N, v, H, start, w) = {}
<1>1. /\ N \in Nat /\ P \in Nat /\ start[1] = P + 1 /\ \A j \in 1..(N + 1) : start[j] \in Nat \ {0}
      /\ \A i, j \in 1..(N + 1) : i <= j => start[i] <= start[j]
  BY LaidIs
<1>2. ASSUME NEW j \in 1..N PROVE ~(start[j] <= w)
  <2>1. 1 \in 1..(N + 1) /\ j \in 1..(N + 1) /\ 1 <= j
    BY <1>1
  <2>2. start[1] <= start[j] /\ start[j] \in Nat
    BY <1>1, <2>1
  <2> QED BY <1>1, <2>2
<1> QED BY <1>2 DEF Over

\* The page's own definitions say the same.
LEMMA AncestorsAre ==
    ASSUME NEW P, NEW N, NEW v, NEW H, NEW B, NEW start, Laid(page, P, N, v, H, B, start),
           \A k \in 1..(N + 1) : BlockStart(k) = start[k], NEW w \in Nat
    PROVE  Ancestors(w) = Over(N, v, H, start, w)
<1>1. /\ DOMAIN page.blocks = 1..N
      /\ \A k \in 1..N : page.blocks[k].level = v[k] /\ (page.blocks[k].heading = <<>> <=> H[k] = 0)
  BY DEF Laid, PageOf
<1>2. N \in Nat /\ \A k \in 1..N : v[k] \in 1..6
  BY LaidIs
<1>3. \A k \in 1..N : BlockStart(k) = start[k]
  BY <1>2
<1> DEFINE S == {j \in 1..N : /\ start[j] <= w /\ H[j] # 0
                              /\ \A l \in 1..N : start[l] <= w /\ j < l => v[j] < v[l]}
           T == {k \in BlocksBefore(w) :
                   /\ page.blocks[k].heading # <<>>
                   /\ \A l \in BlocksBefore(w) : l > k => page.blocks[l].level > page.blocks[k].level}
<1>4. \A k : k \in BlocksBefore(w) <=> k \in 1..N /\ start[k] <= w
  BY <1>1, <1>3 DEF BlocksBefore
<1>5. \A k \in 1..N : \A l \in 1..N : /\ l > k <=> k < l
                                      /\ page.blocks[l].level > page.blocks[k].level <=> v[k] < v[l]
  BY <1>1, <1>2
<1>6. ASSUME NEW j, j \in S PROVE j \in T
  <2>1. j \in 1..N /\ start[j] <= w /\ H[j] # 0 /\ \A l \in 1..N : start[l] <= w /\ j < l => v[j] < v[l]
    BY <1>6
  <2>2. j \in BlocksBefore(w) /\ page.blocks[j].heading # <<>>
    BY <1>1, <1>4, <2>1
  <2>3. ASSUME NEW l \in BlocksBefore(w), l > j PROVE page.blocks[l].level > page.blocks[j].level
    <3>1. l \in 1..N /\ start[l] <= w
      BY <1>4
    <3> QED BY <1>5, <2>1, <2>3, <3>1
  <2> QED BY <2>2, <2>3
<1>7. ASSUME NEW j, j \in T PROVE j \in S
  <2>1. j \in BlocksBefore(w) /\ page.blocks[j].heading # <<>>
        /\ \A l \in BlocksBefore(w) : l > j => page.blocks[l].level > page.blocks[j].level
    BY <1>7
  <2>2. j \in 1..N /\ start[j] <= w /\ H[j] # 0
    BY <1>1, <1>4, <2>1
  <2>3. ASSUME NEW l \in 1..N, start[l] <= w, j < l PROVE v[j] < v[l]
    <3>1. l \in BlocksBefore(w) /\ l > j
      BY <1>4, <1>5, <2>2, <2>3
    <3> QED BY <1>5, <2>1, <2>2, <3>1
  <2> QED BY <2>2, <2>3
<1>8. \A j : j \in S => j \in 1..N
  OBVIOUS
<1>9. Over(N, v, H, start, w) = {start[j] : j \in S} /\ Ancestors(w) = {BlockStart(j) : j \in T}
  BY DEF Over, Ancestors
<1> HIDE DEF S, T
<1>10. S = T
  BY <1>6, <1>7
<1> QED BY <1>3, <1>8, <1>9, <1>10

\* The places of what is on the stack
LEMMA NamesAre ==
    ASSUME NEW stack, NEW v, NEW H, NEW start, NEW k, Stacked(stack, v, H, start, k)
    PROVE  Range(Names(stack)) = {start[j] : j \in Open(v, H, k)}
<1>1. /\ stack \in Seq(Entry)
      /\ \A i \in 1..Len(stack) :
            \E j \in Open(v, H, k) : stack[i].level = v[j] /\ stack[i].at = start[j]
      /\ \A j \in Open(v, H, k) :
            \E i \in 1..Len(stack) : stack[i].level = v[j] /\ stack[i].at = start[j]
  BY DEF Stacked
<1>2. DOMAIN stack = 1..Len(stack)
  BY <1>1
<1>3. \A x : x \in Range(Names(stack)) <=> \E i \in 1..Len(stack) : x = stack[i].at
  BY <1>2 DEF Range, Names
<1>4. ASSUME NEW x, x \in Range(Names(stack)) PROVE x \in {start[j] : j \in Open(v, H, k)}
  BY <1>1, <1>3, <1>4
<1>5. ASSUME NEW j \in Open(v, H, k) PROVE start[j] \in Range(Names(stack))
  BY <1>1, <1>3
<1> QED BY <1>4, <1>5

\* A section of the words before a place, each of which stands under its path
SectionAt(sec, top, N, v, H, start) ==
    \E a \in Nat \ {0} : \E b \in Nat :
        /\ a <= b /\ b < top /\ sec.text = Run(a, b)
        /\ \A w \in a..b : Range(sec.path) = Over(N, v, H, start, w)

\* Sections one behind the other, that end at the cursor or before
InOrder(sections, cursor) ==
    /\ \A i \in 1..Len(sections) : sections[i].start + Width(sections[i].text) <= cursor
    /\ \A i, j \in 1..Len(sections) :
          i < j => /\ sections[i].start + Width(sections[i].text) <= sections[j].start
                   /\ \A u \in Range(sections[i].text), w \in Range(sections[j].text) : u < w

\* What has been read of a page after so many blocks
Reading(r, k, N, v, H, start) ==
    /\ r \in Readers /\ r.at + 1 = start[k + 1]
    /\ Stacked(r.stack, v, H, start, k)
    /\ \A i \in 1..Len(r.sections) : SectionAt(r.sections[i], start[k + 1], N, v, H, start)
    /\ InOrder(r.sections, r.cursor)

\* Before the first heading: the preamble, with no heading open.
LEMMA ReadBegins ==
    ASSUME NEW p \in Pages, NEW P, NEW N, NEW v, NEW H, NEW B, NEW start,
           Laid(p, P, N, v, H, B, start)
    PROVE  Reading(Preamble(p), 0, N, v, H, start)
<1> DEFINE r == Preamble(p)
           A == Len(p.article)
           M == Len(p.preamble)
           text == Run(A + 1, P)
           none == <<>>
           first == [text |-> text, path |-> none, start |-> 0]
           sections == IF text = <<>> THEN <<>> ELSE <<first>>
<1>1. A \in Nat /\ M \in Nat /\ P = A + M
  BY DEF Laid, PageOf
<1>20. Chars(p.preamble) \in Nat /\ Width(p.preamble) <= Chars(p.preamble)
       /\ (p.preamble = <<>> <=> M = 0)
  <2>1. p.preamble \in Seq(Words)
    BY PagesAssumption
  <2>2. p.preamble = <<>> <=> M = 0
    BY <2>1
  <2> QED BY <2>1, <2>2, CharsIs
<1>21. r = [at |-> A + Len(text), stack |-> none, cursor |-> Chars(p.preamble),
            sections |-> sections]
  BY <1>1 DEF Preamble
<1> HIDE DEF A, M
<1>2. N \in Nat /\ P \in Nat /\ start[1] = P + 1
  BY LaidIs
<1>3. text \in Seq(Nat) /\ Len(text) = M /\ (text = <<>> <=> M = 0)
      /\ Width(text) <= Chars(p.preamble) /\ Width(text) \in Nat
  <2>1. A + 1 \in Nat /\ (A + 1) - 1 <= P /\ P - (A + 1) + 1 = M /\ P \in Int
        /\ (P = (A + 1) - 1 <=> M = 0)
    BY <1>1
  <2>2. text \in Seq(Nat) /\ Len(text) = M /\ (text = <<>> <=> M = 0)
    BY <2>1, RunIs
  <2>3. Width(text) \in Nat
    BY <2>1, WidthIs
  <2>4. Width(text) = Width(p.preamble)
    <3> HIDE DEF text
    <3> QED BY <1>20, <2>2 DEF Width, M
  <2> QED BY <1>20, <2>2, <2>3, <2>4
<1>4. r.at = P /\ r = [at |-> P, stack |-> none, cursor |-> Chars(p.preamble), sections |-> sections]
  <2>1. A + Len(text) = P
    BY <1>1, <1>3
  <2> HIDE DEF r, text, sections, none
  <2> QED BY <1>21, <2>1
<1>5. first \in SectionSet
  BY <1>3 DEF SectionSet
<1>6. Range(none) = {}
  BY DEF Range
<1>7. SectionAt(first, P + 1, N, v, H, start) \/ M = 0
  <2>1. \A w \in (A + 1)..P : Range(none) = Over(N, v, H, start, w)
    <3> SUFFICES ASSUME NEW w \in (A + 1)..P PROVE Over(N, v, H, start, w) = {}
      BY <1>6
    <3>1. w \in Nat /\ w <= P
      BY <1>1, <1>2
    <3> QED BY <3>1, OverPreamble
  <2>2. M # 0 => A + 1 \in Nat \ {0} /\ A + 1 <= P /\ P < P + 1
    BY <1>1, <1>2
  <2>3. first.text = Run(A + 1, P) /\ first.path = none
    OBVIOUS
  <2> HIDE DEF first, none
  <2>4. M # 0 => \E a \in Nat \ {0} : \E b \in Nat :
           /\ a <= b /\ b < P + 1 /\ first.text = Run(a, b)
           /\ \A w \in a..b : Range(first.path) = Over(N, v, H, start, w)
    BY <1>2, <2>1, <2>2, <2>3
  <2> QED BY <2>4 DEF SectionAt
<1>8. none \in Seq(Entry) /\ Len(none) = 0
  OBVIOUS
<1>9. Stacked(none, v, H, start, 0)
  <2>1. \A j : j \notin Open(v, H, 0)
    BY DEF Open
  <2>2. Ordered(none)
    BY <1>8 DEF Ordered
  <2> QED BY <1>8, <2>1, <2>2 DEF Stacked
<1>10. sections \in Seq(SectionSet)
  <2> HIDE DEF first
  <2> QED BY <1>5
<1>11. /\ Len(sections) \in {0, 1}
       /\ \A i \in 1..Len(sections) : i = 1 /\ sections[i] = first /\ M # 0
  <2> HIDE DEF first
  <2>1. CASE text = <<>>
    BY <2>1
  <2>2. CASE text # <<>>
    <3>1. sections = <<first>>
      BY <2>2
    <3> QED BY <1>3, <2>2, <3>1
  <2> QED BY <2>1, <2>2
<1>12. first.start + Width(first.text) <= Chars(p.preamble)
  BY <1>3
<1> HIDE DEF r, text, none, first, sections
<1>13. /\ r.at = P /\ r.stack = none /\ r.cursor = Chars(p.preamble) /\ r.sections = sections
  BY <1>4
<1>14. r \in Readers
  BY <1>2, <1>4, <1>8, <1>10, <1>20 DEF Readers
<1>15. InOrder(sections, Chars(p.preamble))
  BY <1>11, <1>12 DEF InOrder
<1>16. \A i \in 1..Len(sections) : SectionAt(sections[i], P + 1, N, v, H, start)
  BY <1>7, <1>11
<1>17. start[0 + 1] = P + 1
  BY <1>2
<1>18. Reading(r, 0, N, v, H, start)
  BY <1>9, <1>13, <1>14, <1>15, <1>16, <1>17 DEF Reading
<1> QED BY <1>18 DEF r

\* One more block: its body is a section under the headings it leaves open.
LEMMA ReadOn ==
    ASSUME NEW p \in Pages, NEW P, NEW N, NEW v, NEW H, NEW B, NEW start,
           Laid(p, P, N, v, H, B, start),
           NEW k \in 1..N, NEW r, Reading(r, k - 1, N, v, H, start)
    PROVE  Reading(Heading(r, p.blocks[k]), k, N, v, H, start)
<1> DEFINE block == p.blocks[k]
           h == H[k]
           b == B[k]
           q == Heading(r, block)
           s == Pushed(r, block)
           body == Body(r, block)
           new == [text |-> body, path |-> Names(s), start |-> r.cursor]
           n == Len(r.sections)
<1>1. /\ N \in Nat /\ Outlined(N, v, H) /\ h \in Nat /\ b \in Nat
      /\ start[k] \in Nat \ {0} /\ start[k + 1] = start[k] + h + b /\ start[k + 1] \in Nat
  BY LaidIs
<1>2. block \in BlockSet
  <2>1. p.blocks \in Seq(BlockSet) /\ DOMAIN p.blocks = 1..N
    BY PagesAssumption DEF BlockSet, Laid, PageOf
  <2> QED BY <2>1, SeqFacts
<1>3. block.level = v[k] /\ (block.heading = <<>> <=> h = 0) /\ Sized(block, h, b)
  BY <1>1 DEF Laid, PageOf, Sized
<1>4. k - 1 + 1 = k
  BY <1>1
<1>5. /\ r \in Readers /\ r.at + 1 = start[k] /\ Stacked(r.stack, v, H, start, k - 1)
      /\ \A i \in 1..n : SectionAt(r.sections[i], start[k], N, v, H, start)
      /\ InOrder(r.sections, r.cursor)
  BY <1>4 DEF Reading
<1> HIDE DEF block, h, b, q
<1>6. /\ q \in Readers
      /\ q.at = r.at + h + b /\ q.stack = s
      /\ b = 0 => q.cursor = r.cursor /\ q.sections = r.sections
      /\ Chars(block.body) \in Nat /\ Width(body) <= Chars(block.body)
      /\ b # 0 => /\ q.cursor = r.cursor + Chars(block.body) + 1
                  /\ q.sections = Append(r.sections, new)
  BY <1>2, <1>3, <1>5, HeadingIs DEF q
<1>7. Stacked(s, v, H, start, k)
  BY <1>1, <1>3, <1>5, StackStep DEF h
<1>8. r.at \in Nat /\ r.cursor \in Nat /\ r.sections \in Seq(SectionSet) /\ n \in Nat
      /\ \A i \in 1..n : r.sections[i] \in SectionSet
  <2>1. r.at \in Nat /\ r.cursor \in Nat /\ r.sections \in Seq(SectionSet)
    BY <1>5 DEF Readers
  <2> QED BY <2>1
<1>9. q.at + 1 = start[k + 1]
  <2> DEFINE at == r.at
             x == start[k]
  <2>1. at \in Nat /\ h \in Nat /\ b \in Nat /\ at + 1 = x
    BY <1>1, <1>5, <1>8
  <2>2. q.at = at + h + b /\ start[k + 1] = x + h + b
    BY <1>1, <1>6
  <2> HIDE DEF at, x
  <2> QED BY <2>1, <2>2
<1> HIDE DEF s
<1>10. \A i \in 1..n : SectionAt(r.sections[i], start[k + 1], N, v, H, start)
  <2> SUFFICES ASSUME NEW i \in 1..n PROVE SectionAt(r.sections[i], start[k + 1], N, v, H, start)
    OBVIOUS
  <2> DEFINE sec == r.sections[i]
  <2>1. SectionAt(sec, start[k], N, v, H, start)
    BY <1>5
  <2> HIDE DEF sec
  <2>2. PICK x \in Nat \ {0} : \E y \in Nat :
           /\ x <= y /\ y < start[k] /\ sec.text = Run(x, y)
           /\ \A w \in x..y : Range(sec.path) = Over(N, v, H, start, w)
    BY <2>1 DEF SectionAt
  <2>3. PICK y \in Nat :
           /\ x <= y /\ y < start[k] /\ sec.text = Run(x, y)
           /\ \A w \in x..y : Range(sec.path) = Over(N, v, H, start, w)
    BY <2>2
  <2>4. y < start[k + 1]
    BY <1>1, <2>3
  <2>5. SectionAt(sec, start[k + 1], N, v, H, start)
    BY <2>3, <2>4 DEF SectionAt
  <2> QED BY <2>5 DEF sec
<1>11. ASSUME b = 0 PROVE Reading(q, k, N, v, H, start)
  BY <1>5, <1>6, <1>7, <1>9, <1>10, <1>11 DEF Reading
<1>12. ASSUME b # 0 PROVE Reading(q, k, N, v, H, start)
  <2>1. SectionAt(new, start[k + 1], N, v, H, start)
    <3> DEFINE x == start[k] + h
               y == start[k + 1] - 1
    <3> DEFINE z == start[k]
               u == start[k + 1]
    <3>0. z \in Nat \ {0} /\ h \in Nat /\ b \in Nat /\ b # 0 /\ u = z + h + b
      BY <1>1, <1>12
    <3> HIDE DEF z, u
    <3>1. x \in Nat \ {0} /\ y \in Nat /\ x <= y /\ y < start[k + 1] /\ start[k] <= x
      <4>1. z + h \in Nat \ {0} /\ u - 1 \in Nat /\ z + h <= u - 1 /\ u - 1 < u /\ z <= z + h
        BY <3>0
      <4> QED BY <4>1 DEF z, u
    <3>2. body = Run(x, y)
      <4>1. body = Run(r.at + h + 1, r.at + h + b)
        BY <1>3 DEF Body, Sized
      <4>2. r.at + h + 1 = x /\ r.at + h + b = y
        <5>1. r.at + h + 1 = z + h /\ r.at + h + b = u - 1
          <6>1. r.at + 1 = z /\ r.at \in Nat
            BY <1>5, <1>8 DEF z
          <6> QED BY <3>0, <6>1
        <5> QED BY <5>1 DEF z, u
      <4> QED BY <4>1, <4>2
    <3> HIDE DEF x, y, body
    <3>3. \A w \in x..y : w \in Nat /\ start[k] <= w /\ w < start[k + 1]
      BY <1>1, <3>1
    <3>4. \A w \in x..y : Range(Names(s)) = Over(N, v, H, start, w)
      <4> SUFFICES ASSUME NEW w \in x..y PROVE Range(Names(s)) = Over(N, v, H, start, w)
        OBVIOUS
      <4>1. w \in Nat /\ start[k] <= w /\ w < start[k + 1]
        BY <3>3
      <4>2. Over(N, v, H, start, w) = {start[j] : j \in Open(v, H, k)}
        BY <4>1, OverBlock
      <4>3. Range(Names(s)) = {start[j] : j \in Open(v, H, k)}
        BY <1>7, NamesAre
      <4> QED BY <4>2, <4>3
    <3>5. new.text = Run(x, y) /\ new.path = Names(s)
      BY <3>2
    <3> HIDE DEF new
    <3> QED BY <3>1, <3>4, <3>5 DEF SectionAt
  <2>2. new.start = r.cursor /\ new.text = body
    OBVIOUS
  <2>3. Width(body) \in Nat
    <3>1. Behind(body, r.at, h, b)
      BY <1>3 DEF Behind, Body, Sized
    <3> HIDE DEF body
    <3> QED BY <1>1, <1>8, <3>1, BodyIs
  <2> HIDE DEF new, body
  <2> DEFINE t == q.sections
             end(sec) == sec.start + Width(sec.text)
  <2>4. /\ Len(t) = n + 1 /\ t[n + 1] = new /\ \A i \in 1..n : t[i] = r.sections[i]
        /\ q.cursor = r.cursor + Chars(block.body) + 1
    <3>1. q.sections = Append(r.sections, new) /\ q.cursor = r.cursor + Chars(block.body) + 1
      BY <1>6, <1>12
    <3> HIDE DEF q
    <3> QED BY <1>8, <3>1
  <2>5. \A i \in 1..(n + 1) : i \in 1..n \/ i = n + 1
    BY <1>8
  <2>6. \A i \in 1..Len(t) : SectionAt(t[i], start[k + 1], N, v, H, start)
    BY <1>10, <2>1, <2>4, <2>5
  <2>7. /\ \A i \in 1..n : end(r.sections[i]) <= r.cursor
        /\ \A i, j \in 1..n :
              i < j => /\ end(r.sections[i]) <= r.sections[j].start
                       /\ \A u \in Range(r.sections[i].text), w \in Range(r.sections[j].text) : u < w
    BY <1>5 DEF InOrder
  <2>12. \A i \in 1..n : \A u \in Range(r.sections[i].text) : u \in Nat /\ u < start[k]
    <3> SUFFICES ASSUME NEW i \in 1..n, NEW u \in Range(r.sections[i].text)
                 PROVE  u \in Nat /\ u < start[k]
      OBVIOUS
    <3> DEFINE sec == r.sections[i]
    <3>1. SectionAt(sec, start[k], N, v, H, start) /\ u \in Range(sec.text)
      BY <1>5
    <3> HIDE DEF sec
    <3>2. PICK x \in Nat \ {0}, y \in Nat : x <= y /\ y < start[k] /\ sec.text = Run(x, y)
      BY <3>1 DEF SectionAt
    <3>3. Range(Run(x, y)) = x..y
      <4>1. x \in Nat /\ y \in Int /\ x - 1 <= y
        BY <3>2
      <4> QED BY <4>1, RunRange
    <3>4. u \in x..y
      BY <3>1, <3>2, <3>3
    <3> QED BY <1>1, <3>2, <3>4
  <2>13. \A w \in Range(body) : w \in Nat /\ start[k] <= w
    <3> DEFINE x == r.at + h + 1
               y == r.at + h + b
    <3>1. body = Run(x, y)
      BY <1>3 DEF Body, Sized, body
    <3>2. r.at \in Nat /\ h \in Nat /\ b \in Nat /\ r.at + 1 = start[k]
      BY <1>1, <1>5, <1>8
    <3> DEFINE at == r.at
    <3>3. at + h + 1 \in Nat /\ at + h + b \in Int /\ (at + h + 1) - 1 <= at + h + b
          /\ \A w \in (at + h + 1)..(at + h + b) : w \in Nat /\ at + 1 <= w
      <4>1. at \in Nat
        BY <3>2
      <4> HIDE DEF at
      <4> QED BY <3>2, <4>1
    <3>4. x \in Nat /\ y \in Int /\ x - 1 <= y /\ \A w \in x..y : w \in Nat /\ start[k] <= w
      BY <3>2, <3>3
    <3> HIDE DEF x, y
    <3>5. Range(body) = x..y
      BY <3>1, <3>4, RunRange
    <3> QED BY <3>4, <3>5
  <2>8. \A i \in 1..n : end(r.sections[i]) \in Int
    <3> SUFFICES ASSUME NEW i \in 1..n PROVE end(r.sections[i]) \in Int
      OBVIOUS
    <3> DEFINE sec == r.sections[i]
    <3>1. sec.start \in Nat
      BY <1>8 DEF SectionSet
    <3>2. SectionAt(sec, start[k], N, v, H, start)
      BY <1>5
    <3> HIDE DEF sec
    <3>3. \E x \in Nat \ {0} : \E y \in Nat : x <= y /\ sec.text = Run(x, y)
      BY <3>2 DEF SectionAt
    <3>4. Width(sec.text) \in Nat
      <4>1. PICK x \in Nat \ {0}, y \in Nat : x <= y /\ sec.text = Run(x, y)
        BY <3>3
      <4>2. x \in Nat /\ y \in Int /\ x - 1 <= y
        BY <4>1
      <4> QED BY <4>1, <4>2, WidthIs
    <3>5. end(sec) \in Int
      BY <3>1, <3>4
    <3> QED BY <3>5 DEF sec
  <2>9. \A i \in 1..Len(t) : end(t[i]) <= q.cursor
    <3> SUFFICES ASSUME NEW i \in 1..(n + 1) PROVE end(t[i]) <= q.cursor
      BY <2>4
    <3>1. CASE i \in 1..n
      <4>1. end(t[i]) = end(r.sections[i]) /\ end(r.sections[i]) <= r.cursor
            /\ end(r.sections[i]) \in Int
        BY <2>4, <2>7, <2>8, <3>1
      <4> HIDE DEF end
      <4> QED BY <1>6, <1>8, <2>3, <2>4, <4>1
    <3>2. CASE i = n + 1
      <4>1. end(t[i]) = r.cursor + Width(body)
        BY <2>2, <2>4, <3>2
      <4> HIDE DEF end
      <4> QED BY <1>6, <1>8, <2>3, <2>4, <4>1
    <3> QED BY <2>5, <3>1, <3>2
  <2>10. ASSUME NEW i \in 1..Len(t), NEW j \in 1..Len(t), i < j
         PROVE  /\ end(t[i]) <= t[j].start
                /\ \A u \in Range(t[i].text), w \in Range(t[j].text) : u < w
    <3>1. i \in 1..(n + 1) /\ j \in 1..(n + 1) /\ i \in 1..n
      BY <1>8, <2>4, <2>10
    <3>2. CASE j \in 1..n
      BY <2>4, <2>7, <2>10, <3>1, <3>2
    <3>3. CASE j = n + 1
      <4>1. end(t[i]) <= t[j].start
        BY <2>2, <2>4, <2>7, <3>1, <3>3
      <4>2. t[i] = r.sections[i] /\ t[j].text = body
        BY <2>2, <2>4, <3>1, <3>3
      <4>3. ASSUME NEW u \in Range(t[i].text), NEW w \in Range(t[j].text) PROVE u < w
        <5> DEFINE x == start[k]
        <5>1. u \in Nat /\ u < x /\ w \in Nat /\ x <= w /\ x \in Nat
          BY <1>1, <2>12, <2>13, <3>1, <4>2
        <5> HIDE DEF x
        <5> QED BY <5>1
      <4> QED BY <4>1, <4>3
    <3> QED BY <2>5, <3>1, <3>2, <3>3
  <2>11. InOrder(t, q.cursor)
    BY <2>9, <2>10 DEF InOrder
  <2> QED BY <1>6, <1>7, <1>9, <2>6, <2>11 DEF Reading
<1>13. Reading(q, k, N, v, H, start)
  BY <1>11, <1>12
<1> QED BY <1>13 DEF q, block

\* What was read stays of its type.
LEMMA HeadingType ==
    ASSUME NEW r \in Readers, NEW block \in BlockSet
    PROVE  Heading(r, block) \in Readers
<1> DEFINE h == Len(block.heading)
           b == Len(block.body)
<1>1. Sized(block, h, b)
  BY DEF Sized, BlockSet
<1> HIDE DEF h, b
<1> QED BY <1>1, HeadingIs

\* The blocks of a page.
LEMMA BlocksAre ==
    ASSUME NEW p \in Pages, NEW P, NEW N, NEW v, NEW H, NEW B, PageOf(p, P, N, v, H, B)
    PROVE  N = Len(p.blocks) /\ N \in Nat /\ \A k \in 1..N : p.blocks[k] \in BlockSet
<1>1. p.blocks \in Seq(BlockSet)
  BY PagesAssumption DEF BlockSet
<1>2. N = Len(p.blocks) /\ N \in Nat
  BY DEF PageOf
<1> QED BY <1>1, <1>2, SeqFacts

\* extract_sections, block by block
LEMMA SectionsRead ==
    ASSUME NEW p \in Pages, NEW P, NEW N, NEW v, NEW H, NEW B, NEW start,
           Laid(p, P, N, v, H, B, start), p.blocks # <<>>
    PROVE  \E r : Reading(r, N, N, v, H, start) /\ ExtractSections(p) = r.sections
<1> DEFINE V == Readers
           base == Preamble(p)
           blocks == p.blocks
           step == [i \in 1..N |-> [x \in V |-> Heading(x, blocks[i])]]
           Fixed(g) == g = [i \in 0..N |-> IF i = 0 THEN base ELSE Heading(g[i - 1], blocks[i])]
           g == CHOOSE g : Fixed(g)
<1>1. N = Len(p.blocks) /\ N \in Nat /\ \A k \in 1..N : blocks[k] \in BlockSet
  BY BlocksAre DEF Laid
<1>2. Reading(base, 0, N, v, H, start)
  BY ReadBegins
<1>3. base \in V
  BY <1>2 DEF Reading
<1>4. \A x \in V : \A i \in 1..N : Heading(x, blocks[i]) \in V
  BY <1>1, HeadingType
<1>5. step \in [1..N -> [V -> V]]
  BY <1>4
<1> HIDE DEF V, base
<1>6. PICK f : Recursive(f, N, V, base, step)
  <2> HIDE DEF step
  <2> QED BY <1>1, <1>3, <1>5, RecursionExists
<1>7. f \in [0..N -> V] /\ f[0] = base /\ \A i \in 1..N : f[i] = step[i][f[i - 1]]
  <2> HIDE DEF step
  <2> QED BY <1>6 DEF Recursive
<1>8. \A i \in 0..N : i = 0 \/ (i \in 1..N /\ i - 1 \in 0..N)
  BY <1>1
<1>9. \A i \in 1..N : f[i] = Heading(f[i - 1], blocks[i])
  <2> SUFFICES ASSUME NEW i \in 1..N PROVE f[i] = Heading(f[i - 1], blocks[i])
    OBVIOUS
  <2>1. i - 1 \in 0..N
    BY <1>1
  <2>2. f[i - 1] \in V /\ f[i] = step[i][f[i - 1]]
    BY <1>7, <2>1
  <2> QED BY <2>2
<1> HIDE DEF step, blocks
<1>10. Fixed(f)
  <2>1. \A i \in 0..N : f[i] = IF i = 0 THEN base ELSE Heading(f[i - 1], blocks[i])
    BY <1>1, <1>7, <1>8, <1>9
  <2> QED BY <1>7, <2>1
<1>11. Fixed(g)
  BY <1>10
<1>12. ExtractSections(p) = g[N].sections
  BY <1>1 DEF ExtractSections, base, blocks
<1> HIDE DEF g
<1>13. g[0] = base /\ \A i \in 1..N : g[i] = Heading(g[i - 1], blocks[i])
  <2>1. \A i \in 0..N : g[i] = IF i = 0 THEN base ELSE Heading(g[i - 1], blocks[i])
    BY <1>11
  <2>2. 0 \in 0..N /\ \A i \in 1..N : i \in 0..N /\ i # 0
    BY <1>1
  <2> QED BY <2>1, <2>2
<1> DEFINE T == {i \in 0..N : Reading(g[i], i, N, v, H, start)}
<1>14. 0 \in T
  BY <1>1, <1>2, <1>13
<1>15. ASSUME NEW i \in 0..(N - 1), i \in T PROVE i + 1 \in T
  <2>1. i + 1 \in 1..N /\ (i + 1) - 1 = i /\ i + 1 \in 0..N
    BY <1>1
  <2>2. g[i + 1] = Heading(g[i], blocks[i + 1])
    BY <1>13, <2>1
  <2>3. Reading(g[i], (i + 1) - 1, N, v, H, start)
    BY <1>15, <2>1
  <2> DEFINE k == i + 1
             r == g[i]
  <2>4. k \in 1..N /\ Reading(r, k - 1, N, v, H, start)
    BY <2>1, <2>3
  <2> HIDE DEF k, r
  <2>5. Reading(Heading(r, p.blocks[k]), k, N, v, H, start)
    BY <2>4, ReadOn
  <2>6. Reading(g[i + 1], i + 1, N, v, H, start)
    BY <2>2, <2>5 DEF k, r, blocks
  <2> QED BY <2>1, <2>6
<1> HIDE DEF T
<1>16. 0..N \subseteq T
  BY <1>1, <1>14, <1>15, Climb
<1>17. N \in 0..N
  BY <1>1
<1>18. Reading(g[N], N, N, v, H, start)
  BY <1>16, <1>17 DEF T
<1> QED BY <1>12, <1>18

\* The words of a page: the article's, the preamble's, and each block's, one behind the other
LEMMA WordsAre ==
    ASSUME NEW p \in Pages, NEW P, NEW N, NEW v, NEW H, NEW B, NEW start,
           Laid(p, P, N, v, H, B, start)
    PROVE  /\ ExtractDocument(p).words \in Seq(Words)
           /\ Len(ExtractDocument(p).words) = start[N + 1] - 1
           /\ Len(p.article) \in Nat /\ Len(p.article) <= start[N + 1] - 1
<1> DEFINE blocks == p.blocks
           lists == [k \in DOMAIN blocks |-> blocks[k].heading \o blocks[k].body]
           flat == FlattenSeq(lists)
<1>1. N = Len(p.blocks) /\ N \in Nat /\ \A k \in 1..N : blocks[k] \in BlockSet
  BY BlocksAre DEF Laid
<1>2. /\ P \in Nat /\ start[1] = P + 1
      /\ \A k \in 1..N : /\ start[k] \in Nat /\ H[k] \in Nat /\ B[k] \in Nat
                         /\ start[k + 1] = start[k] + H[k] + B[k]
  BY LaidIs
<1>3. /\ P = Len(p.article) + Len(p.preamble) /\ DOMAIN blocks = 1..N
      /\ Len(p.article) \in Nat /\ Len(p.preamble) \in Nat
      /\ \A k \in 1..N : Len(blocks[k].heading) = H[k] /\ Len(blocks[k].body) = B[k]
  BY DEF Laid, PageOf
<1>4. \A k \in 1..N : blocks[k].heading \in Seq(Words) /\ blocks[k].body \in Seq(Words)
  BY <1>1 DEF BlockSet
<1>5. \A k \in 1..N : /\ blocks[k].heading \o blocks[k].body \in Seq(Words)
                      /\ Len(blocks[k].heading \o blocks[k].body) = H[k] + B[k]
  <2> SUFFICES ASSUME NEW k \in 1..N
               PROVE  /\ blocks[k].heading \o blocks[k].body \in Seq(Words)
                      /\ Len(blocks[k].heading \o blocks[k].body) = H[k] + B[k]
    OBVIOUS
  <2> DEFINE s == blocks[k].heading
             t == blocks[k].body
  <2>1. s \in Seq(Words) /\ t \in Seq(Words) /\ Len(s) = H[k] /\ Len(t) = B[k]
    BY <1>3, <1>4
  <2> HIDE DEF s, t
  <2>2. s \o t \in Seq(Words) /\ Len(s \o t) = H[k] + B[k]
    BY <2>1
  <2> QED BY <2>2 DEF s, t
<1> HIDE DEF blocks
<1>6. /\ lists \in [1..N -> Seq(Words)]
      /\ \A k \in 1..N : lists[k] = blocks[k].heading \o blocks[k].body
  BY <1>3, <1>5
<1>7. \A k \in 1..N : Len(lists[k]) = H[k] + B[k]
  BY <1>5, <1>6
<1> HIDE DEF lists
<1>8. lists \in Seq(Seq(Words)) /\ Len(lists) = N
  BY <1>1, <1>6
<1>9. flat \in Seq(Words)
  <2> HIDE DEF flat
  <2> QED BY <1>8, FlattenRange DEF flat
<1>10. Len(flat) = start[N + 1] - 1 - P
  <2>1. CASE N = 0
    <3>1. \A x : x \notin Range(flat)
      <4>1. \A x : x \in Range(FlattenSeq(lists)) <=> \E i \in 1..Len(lists) : x \in Range(lists[i])
        BY <1>8, FlattenRange
      <4>2. \A i : i \notin 1..Len(lists)
        BY <1>8, <2>1
      <4> QED BY <4>1, <4>2
    <3> HIDE DEF flat
    <3>2. Len(flat) = 0
      <4>1. Len(flat) \in Nat /\ \A i \in 1..Len(flat) : flat[i] \in Range(flat)
        BY <1>9, RangeIs
      <4> QED BY <3>1, <4>1
    <3>3. start[0 + 1] = P + 1
      BY <1>2
    <3> QED BY <1>2, <2>1, <3>2, <3>3
  <2>2. CASE N # 0
    <3>1. PICK f \in [1..N -> Seq(Words)] :
                  /\ f[1] = lists[1]
                  /\ \A i \in 2..N : f[i] = f[i - 1] \o lists[i]
                  /\ flat = f[N]
      BY <1>8, <2>2, FlattenIs
    <3> HIDE DEF flat
    <3> DEFINE T == {i \in 0..(N - 1) : Len(f[i + 1]) = start[i + 2] - 1 - P}
    <3>2. 0 \in T
      <4>1. 1 \in 1..N /\ 0 \in 0..(N - 1)
        BY <1>1, <2>2
      <4>2. Len(f[1]) = H[1] + B[1] /\ start[1 + 1] = start[1] + H[1] + B[1]
            /\ H[1] \in Nat /\ B[1] \in Nat
        BY <1>2, <1>7, <3>1, <4>1
      <4> DEFINE a == Len(f[1])
                 x == H[1]
                 y == B[1]
                 z == start[2]
      <4>3. a = x + y /\ z = (P + 1) + x + y /\ x \in Nat /\ y \in Nat /\ 1 + 1 = 2
        BY <1>2, <4>2
      <4> HIDE DEF a, x, y, z
      <4>4. a = z - 1 - P
        BY <1>2, <4>3
      <4>5. Len(f[0 + 1]) = start[0 + 2] - 1 - P
        BY <4>4 DEF a, z
      <4> QED BY <4>1, <4>5
    <3>3. ASSUME NEW i \in 0..(N - 1 - 1), i \in T PROVE i + 1 \in T
      <4>1. i + 2 \in 2..N /\ (i + 2) - 1 = i + 1 /\ i + 1 \in 0..(N - 1) /\ (i + 1) + 1 = i + 2
            /\ i + 2 \in 1..N /\ i + 1 \in 1..N /\ (i + 2) + 1 = (i + 1) + 2
        BY <1>1
      <4>2. f[i + 2] = f[i + 1] \o lists[i + 2]
        BY <3>1, <4>1
      <4>3. f[i + 1] \in Seq(Words) /\ lists[i + 2] \in Seq(Words)
        BY <1>6, <3>1, <4>1
      <4>4. Len(f[i + 2]) = Len(f[i + 1]) + Len(lists[i + 2])
        BY <4>2, <4>3
      <4>5. Len(f[i + 1]) = start[i + 2] - 1 - P
        BY <3>3
      <4>6. Len(lists[i + 2]) = H[i + 2] + B[i + 2]
        BY <1>7, <4>1
      <4>7. start[(i + 2) + 1] = start[i + 2] + H[i + 2] + B[i + 2]
            /\ start[i + 2] \in Nat /\ H[i + 2] \in Nat /\ B[i + 2] \in Nat
        BY <1>2, <4>1
      <4>8. Len(f[(i + 1) + 1]) = start[(i + 1) + 2] - 1 - P
        <5> DEFINE a == Len(f[i + 2])
                   b == Len(f[i + 1])
                   l == Len(lists[i + 2])
                   x == H[i + 2]
                   y == B[i + 2]
                   z == start[i + 2]
                   u == start[(i + 2) + 1]
        <5>1. a = b + l /\ b = z - 1 - P /\ l = x + y /\ u = z + x + y
              /\ z \in Nat /\ x \in Nat /\ y \in Nat
          BY <4>4, <4>5, <4>6, <4>7
        <5> HIDE DEF a, b, l, x, y, z, u
        <5>2. a = u - 1 - P
          BY <1>2, <5>1
        <5> QED BY <4>1, <5>2 DEF a, u
      <4> QED BY <4>1, <4>8
    <3>4. N - 1 \in Nat
      BY <1>1, <2>2
    <3> HIDE DEF T
    <3>5. 0..(N - 1) \subseteq T
      BY <3>2, <3>3, <3>4, Climb
    <3>6. N - 1 \in 0..(N - 1) /\ (N - 1) + 1 = N /\ (N - 1) + 2 = N + 1
      BY <1>1, <3>4
    <3>7. Len(f[(N - 1) + 1]) = start[(N - 1) + 2] - 1 - P
      BY <3>5, <3>6 DEF T
    <3> QED BY <3>1, <3>6, <3>7
  <2> QED BY <2>1, <2>2
<1>11. p.article \in Seq(Words) /\ p.preamble \in Seq(Words)
  BY PagesAssumption
<1> DEFINE front == p.article \o p.preamble
<1>12. ExtractDocument(p).words = front \o flat
  BY DEF ExtractDocument, lists, blocks
<1>15. front \in Seq(Words) /\ Len(front) = P
  BY <1>3, <1>11
<1> HIDE DEF flat, front
<1>13. Len(front \o flat) = P + Len(flat) /\ Len(flat) \in Nat /\ front \o flat \in Seq(Words)
  BY <1>9, <1>15
<1>14. start[N + 1] \in Nat
  <2>1. N + 1 \in 1..(N + 1)
    BY <1>1
  <2> QED BY <2>1, LaidIs
<1> DEFINE a == Len(p.article)
           b == Len(p.preamble)
           e == Len(flat)
           x == start[N + 1]
<1>16. a \in Nat /\ b \in Nat /\ e \in Nat /\ x \in Nat /\ P = a + b /\ e = x - 1 - P
  BY <1>3, <1>10, <1>13, <1>14
<1>17. ExtractDocument(p).words \in Seq(Words) /\ Len(ExtractDocument(p).words) = P + e
  BY <1>12, <1>13
<1> HIDE DEF a, b, e, x
<1>18. P + e = x - 1 /\ a <= x - 1
  BY <1>16
<1> QED BY <1>16, <1>17, <1>18 DEF a, x

\* A document: its text is the first of its words, and its sections are runs of them, in order.
Paged(d, n, F, L, top) ==
    /\ IsDocument(d) /\ d.words \in Seq(Words) /\ Len(d.words) \in Nat
    /\ top \in Nat /\ d.text = Run(1, top) /\ top <= Len(d.words)
    /\ n # 0 /\ Sectioned(d, n, F, L)
    /\ \A i \in 1..n : L[i] <= Len(d.words) /\ d.sections[i].start \in Nat
    /\ \A i, j \in 1..n :
          i < j => d.sections[i].start + Width(d.sections[i].text) <= d.sections[j].start
    /\ \A i, j \in 1..n : i # j => F[j] <= L[j] /\ L[j] \notin F[i]..L[i]

\* extract_document's sections are in order, and have the paths of their words.
LEMMA DocumentIs ==
    ASSUME NEW p \in Pages, NEW P, NEW N, NEW v, NEW H, NEW B, NEW start,
           Laid(p, P, N, v, H, B, start), NEW d, d = ExtractDocument(p)
    PROVE  \E n, F, L, top :
              /\ Paged(d, n, F, L, top)
              /\ p.blocks # <<>> /\ ExtractSections(p) # <<>> =>
                   \A i \in 1..n : \A w \in F[i]..L[i] :
                      Range(d.sections[i].path) = Over(N, v, H, start, w)
<1> DEFINE all == start[N + 1] - 1
           top == Len(p.article)
           text == Run(1, top)
           secs == ExtractSections(p)
           one == [text |-> text, path |-> <<>>, start |-> 0]
<1>1. N \in Nat /\ P \in Nat /\ \A k \in 1..(N + 1) : start[k] \in Nat \ {0}
  BY LaidIs
<1>2. /\ start[N + 1] \in Nat \ {0} /\ top \in Nat /\ Len(d.words) = all /\ all \in Nat
      /\ top <= all /\ d.words \in Seq(Words)
  <2>1. N + 1 \in 1..(N + 1)
    BY <1>1
  <2>2. start[N + 1] \in Nat \ {0}
    BY <1>1, <2>1
  <2>3. Len(d.words) = all /\ top \in Nat /\ top <= all /\ d.words \in Seq(Words)
    BY WordsAre
  <2> QED BY <2>2, <2>3
<1>3. d = [words |-> d.words, text |-> text, sections |-> IF secs # <<>> THEN secs ELSE <<one>>]
  <2>1. d.words = ExtractDocument(p).words
    OBVIOUS
  <2>2. d.words = p.article \o p.preamble
                    \o FlattenSeq([k \in DOMAIN p.blocks |->
                                      p.blocks[k].heading \o p.blocks[k].body])
    BY DEF ExtractDocument
  <2> HIDE DEF secs
  <2> QED BY <1>2, <2>2 DEF ExtractDocument, secs
<1> HIDE DEF all, top, text, one
<1>4. /\ d.text = text /\ d.sections = IF secs # <<>> THEN secs ELSE <<one>>
      /\ IsDocument(d)
  <2> HIDE DEF secs
  <2>1. d.text = text /\ d.sections = IF secs # <<>> THEN secs ELSE <<one>>
    BY <1>3
  <2> QED BY <1>3, <2>1 DEF IsDocument
<1>5. CASE secs = <<>>
  <2> DEFINE F == Single(1)
             L == Single(top)
  <2>1. d.sections = <<one>> /\ DOMAIN d.sections = 1..1 /\ d.sections[1] = one
    BY <1>4, <1>5
  <2>2. F[1] = 1 /\ L[1] = top
    BY DEF Single
  <2>3. one.text = Run(1, top) /\ one.start = 0
    BY DEF one, text
  <2> HIDE DEF F, L, secs
  <2>4. \A i \in 1..1 : i = 1
    OBVIOUS
  <2>5. Sectioned(d, 1, F, L)
    BY <1>2, <2>1, <2>2, <2>3, <2>4 DEF Sectioned
  <2>6. \A i \in 1..1 : L[i] <= Len(d.words) /\ d.sections[i].start \in Nat
    BY <1>2, <2>1, <2>2, <2>3, <2>4
  <2>7. \A i, j \in 1..1 : ~(i < j) /\ i = j
    OBVIOUS
  <2>8. Paged(d, 1, F, L, top)
    BY <1>2, <1>4, <2>5, <2>6, <2>7 DEF Paged, text
  <2> QED BY <1>5, <2>8 DEF secs
<1>6. CASE secs # <<>>
  <2>1. p.blocks # <<>>
    BY <1>6 DEF ExtractSections
  <2>2. PICK r : Reading(r, N, N, v, H, start) /\ secs = r.sections
    BY <2>1, SectionsRead
  <2> HIDE DEF secs
  <2> DEFINE n == Len(secs)
  <2>3. /\ secs \in Seq(SectionSet) /\ InOrder(secs, r.cursor)
        /\ \A i \in 1..n : SectionAt(secs[i], start[N + 1], N, v, H, start)
    BY <2>2 DEF Reading, Readers
  <2>4. n \in Nat /\ DOMAIN secs = 1..n /\ n # 0 /\ \A i \in 1..n : secs[i] \in SectionSet
    BY <1>6, <2>3
  <2> HIDE DEF n
  <2> DEFINE Is(i, a, b) == /\ a <= b /\ b < start[N + 1] /\ secs[i].text = Run(a, b)
                            /\ \A w \in a..b : Range(secs[i].path) = Over(N, v, H, start, w)
             F == [i \in 1..n |-> CHOOSE a \in Nat \ {0} : \E b \in Nat : Is(i, a, b)]
             L == [i \in 1..n |-> CHOOSE b \in Nat : Is(i, F[i], b)]
  <2>5. \A i \in 1..n : \E a \in Nat \ {0} : \E b \in Nat : Is(i, a, b)
    BY <2>3 DEF SectionAt
  <2>6. ASSUME NEW i \in 1..n PROVE F[i] \in Nat \ {0} /\ L[i] \in Nat /\ Is(i, F[i], L[i])
    <3> HIDE DEF Is
    <3>1. F[i] = CHOOSE a \in Nat \ {0} : \E b \in Nat : Is(i, a, b)
      OBVIOUS
    <3>2. F[i] \in Nat \ {0} /\ \E b \in Nat : Is(i, F[i], b)
      BY <2>5, <3>1
    <3> HIDE DEF F
    <3>3. L[i] = CHOOSE b \in Nat : Is(i, F[i], b)
      OBVIOUS
    <3> HIDE DEF L
    <3> QED BY <3>2, <3>3
  <2> HIDE DEF F, L
  <2>7. d.sections = secs
    BY <1>4, <1>6
  <2>8. \A i \in 1..n : /\ F[i] \in Nat \ {0} /\ L[i] \in Nat /\ F[i] - 1 <= L[i] /\ L[i] <= all
                        /\ secs[i].text = Run(F[i], L[i])
    <3> SUFFICES ASSUME NEW i \in 1..n
                 PROVE  /\ F[i] \in Nat \ {0} /\ L[i] \in Nat /\ F[i] - 1 <= L[i] /\ L[i] <= all
                        /\ secs[i].text = Run(F[i], L[i])
      OBVIOUS
    <3>1. F[i] \in Nat \ {0} /\ L[i] \in Nat /\ F[i] <= L[i] /\ L[i] < start[N + 1]
          /\ secs[i].text = Run(F[i], L[i])
      BY <2>6
    <3>2. F[i] - 1 <= L[i] /\ L[i] <= all
      BY <1>2, <3>1 DEF all
    <3> QED BY <3>1, <3>2
  <2>9. Sectioned(d, n, F, L)
    BY <2>4, <2>7, <2>8 DEF Sectioned
  <2>10. \A i \in 1..n : secs[i].start \in Nat
    BY <2>4 DEF SectionSet
  <2>11. \A i, j \in 1..n : i < j => secs[i].start + Width(secs[i].text) <= secs[j].start
    BY <2>3 DEF InOrder, n
  <2>14. ASSUME NEW i \in 1..n, NEW j \in 1..n, i # j PROVE F[j] <= L[j] /\ L[j] \notin F[i]..L[i]
    <3> DEFINE a == F[i]
               b == L[i]
               x == F[j]
               y == L[j]
               t == secs[i].text
               u == secs[j].text
    <3>1. a \in Nat /\ b \in Int /\ a - 1 <= b /\ t = Run(a, b)
          /\ x \in Nat /\ y \in Nat /\ x <= y /\ x - 1 <= y /\ u = Run(x, y)
      BY <2>6, <2>8
    <3>2. /\ i < j => \A e \in Range(t), g \in Range(u) : e < g
          /\ j < i => \A e \in Range(u), g \in Range(t) : e < g
      BY <2>3 DEF InOrder, n
    <3>3. i < j \/ j < i
      BY <2>4, <2>14
    <3> HIDE DEF a, b, x, y, t, u
    <3>4. Range(t) = a..b /\ Range(u) = x..y
      <4>1. y \in Int
        BY <3>1
      <4> QED BY <3>1, <4>1, RunRange
    <3>5. y \notin a..b
      <4> SUFFICES ASSUME y \in a..b PROVE FALSE
        OBVIOUS
      <4>1. y \in Range(t) /\ y \in Range(u)
        BY <3>1, <3>4
      <4>2. y < y
        BY <3>2, <3>3, <4>1
      <4> QED BY <3>1, <4>2
    <3> QED BY <3>1, <3>5 DEF a, b, x, y
  <2>12. Paged(d, n, F, L, top)
    BY <1>2, <1>4, <2>4, <2>7, <2>8, <2>9, <2>10, <2>11, <2>14 DEF Paged, text
  <2>13. \A i \in 1..n : \A w \in F[i]..L[i] : Range(d.sections[i].path) = Over(N, v, H, start, w)
    BY <2>6, <2>7
  <2> QED BY <2>12, <2>13
<1> QED BY <1>5, <1>6

-----------------------------------------------------------------------------
(* The chunks of a run.                                                    *)

\* Runs over a set, as WordsKept has it.
LEMMA RunsHeld ==
    ASSUME NEW out, NEW W, RunsOver(out, W)
    PROVE  /\ UNION {Range(out[i].text) : i \in DOMAIN out} = W
           /\ \A i \in DOMAIN out : \A k \in 1..(Len(out[i].text) - 1) :
                 out[i].text[k + 1] = out[i].text[k] + 1
<1>1. /\ out \in Seq(Range(out))
      /\ \A x \in Range(out) :
          /\ IsChunk(x)
          /\ \E p \in Nat \ {0} : \E q \in Nat : p <= q /\ x.text = Run(p, q) /\ p..q \subseteq W
      /\ \A w \in W : \E x \in Range(out) : w \in Range(x.text)
  BY DEF RunsOver
<1>2. DOMAIN out = 1..Len(out) /\ \A x : x \in Range(out) <=> \E i \in 1..Len(out) : out[i] = x
  <2> DEFINE S == Range(out)
  <2>1. out \in Seq(S)
    BY <1>1
  <2> HIDE DEF S
  <2>2. DOMAIN out = 1..Len(out)
    BY <2>1
  <2>3. \A x : x \in Range(out) <=> \E i \in 1..Len(out) : out[i] = x
    BY <2>1, RangeIs
  <2> QED BY <2>2, <2>3
<1>3. ASSUME NEW i \in DOMAIN out
      PROVE  /\ Range(out[i].text) \subseteq W
             /\ \A k \in 1..(Len(out[i].text) - 1) : out[i].text[k + 1] = out[i].text[k] + 1
  <2> DEFINE t == out[i].text
  <2>1. \E p \in Nat \ {0} : \E q \in Nat : p <= q /\ t = Run(p, q) /\ p..q \subseteq W
    BY <1>1, <1>2
  <2> HIDE DEF t
  <2>2. PICK p \in Nat \ {0} : \E q \in Nat : p <= q /\ t = Run(p, q) /\ p..q \subseteq W
    BY <2>1
  <2>3. PICK q \in Nat : p <= q /\ t = Run(p, q) /\ p..q \subseteq W
    BY <2>2
  <2>4. p \in Nat /\ q \in Int /\ p - 1 <= q
    BY <2>3
  <2>5. Range(t) = p..q /\ Len(t) = q - p + 1 /\ \A k \in 1..(q - p + 1) : t[k] = p + k - 1
    BY <2>3, <2>4, RunIs, RunRange
  <2>6. ASSUME NEW k \in 1..(Len(t) - 1) PROVE t[k + 1] = t[k] + 1
    <3>1. k \in 1..(q - p + 1) /\ k + 1 \in 1..(q - p + 1)
      BY <2>4, <2>5
    <3>2. t[k] = p + k - 1 /\ t[k + 1] = p + (k + 1) - 1
      BY <2>5, <3>1
    <3> QED BY <2>4, <3>2
  <2>7. Range(t) \subseteq W
    BY <2>3, <2>5
  <2> QED BY <2>6, <2>7 DEF t
<1>4. ASSUME NEW w \in W PROVE \E i \in DOMAIN out : w \in Range(out[i].text)
  BY <1>1, <1>2
<1> QED BY <1>3, <1>4

\* The stages of a chunker whose sentences overlap by one at most
LEMMA StagesAre ==
    ASSUME NEW c \in Chunkers, c = chunker
    PROVE  /\ c.name # "parent_child" => Plain(c) /\ Stages = {c}
           /\ c.name = "parent_child" => Plain(c.parent) /\ Plain(c.child) /\ Stages = {c.parent, c.child}
<1>1. Plain(c) \/ (c.name = "parent_child" /\ Plain(c.parent) /\ Plain(c.child))
  BY ChunkersAssumption
<1>2. Plain(c) => c.name # "parent_child"
  BY DEF Plain
<1> QED BY <1>1, <1>2 DEF Stages

\* A stage is brief when no long overlap is asked of it.
LEMMA BriefIs ==
    ASSUME NEW c, Plain(c), NoLongOverlap, c \in Stages
    PROVE  Brief(c)
<1>1. c.name = "sentence" => c.overlap <= 1
  BY DEF NoLongOverlap
<1> QED BY <1>1 DEF Brief

\* The page of a state, laid out.
LEMMA PageFacts ==
    ASSUME page \in Pages
    PROVE  \E P, N, v, H, B, start :
              /\ Laid(page, P, N, v, H, B, start)
              /\ \A k \in 1..(N + 1) : BlockStart(k) = start[k]
<1>1. PICK P, N, v, H, B : PageOf(page, P, N, v, H, B)
  BY PageIs
<1>2. PICK start : /\ Starts(P, N, H, B, start)
                   /\ \A k \in 1..(N + 1) : BlockStart(k) = start[k]
  BY <1>1, BlockStartIs
<1>3. Laid(page, P, N, v, H, B, start)
  BY <1>1, <1>2 DEF Laid
<1> QED BY <1>2, <1>3

\* The document of a state.
LEMMA DocumentPaged ==
    ASSUME page \in Pages, document = ExtractDocument(page)
    PROVE  \E n, F, L, top : Paged(document, n, F, L, top)
<1>1. PICK P, N, v, H, B, start : Laid(page, P, N, v, H, B, start)
  BY PageFacts
<1> QED BY <1>1, DocumentIs

\* The words of the document's text, and of its sections
LEMMA DocumentHolds ==
    ASSUME NEW d, NEW n, NEW F, NEW L, NEW top, Paged(d, n, F, L, top)
    PROVE  /\ Range(d.text) = 1..top
           /\ UNION {Range(d.sections[i].text) : i \in DOMAIN d.sections} = Held(n, F, L)
<1>1. top \in Nat /\ d.text = Run(1, top) /\ Sectioned(d, n, F, L)
  BY DEF Paged
<1>2. 1 \in Nat /\ top \in Int /\ 1 - 1 <= top
  BY <1>1
<1>3. Range(d.text) = 1..top
  BY <1>1, <1>2, RunRange
<1>4. \A i \in 1..n : Range(d.sections[i].text) = F[i]..L[i]
  <2> SUFFICES ASSUME NEW i \in 1..n PROVE Range(d.sections[i].text) = F[i]..L[i]
    OBVIOUS
  <2> DEFINE a == F[i]
             b == L[i]
  <2>1. a \in Nat /\ b \in Int /\ a - 1 <= b /\ d.sections[i].text = Run(a, b)
    BY <1>1 DEF Sectioned
  <2> HIDE DEF a, b
  <2>2. Range(d.sections[i].text) = a..b
    BY <2>1, RunRange
  <2> QED BY <2>2 DEF a, b
<1>5. DOMAIN d.sections = 1..n
  BY <1>1 DEF Sectioned
<1> QED BY <1>3, <1>4, <1>5 DEF Held

\* The chunks a chunker makes of a document leave nothing out.
LEMMA AllRuns ==
    ASSUME page \in Pages, chunker \in Chunkers, NoLongOverlap,
           NEW n, NEW F, NEW L, NEW top, Paged(document, n, F, L, top)
    PROVE  RunsOver(ChunksOf(chunker, document), IF OverText(chunker) THEN 1..top ELSE Held(n, F, L))
<1>1. /\ top \in Nat /\ document.text = Run(1, top) /\ Sectioned(document, n, F, L)
      /\ IsDocument(document)
  BY DEF Paged
<1>2. 1 \in Nat \ {0} /\ 1 - 1 <= top
  BY <1>1
<1> DEFINE c == chunker
           d == document
<1>3. CASE c.name = "parent_child"
  <2>1. Plain(c.parent) /\ Plain(c.child) /\ c.parent \in Stages /\ c.child \in Stages
    BY <1>3, StagesAre
  <2>2. Brief(c.parent) /\ Brief(c.child)
    BY <2>1, BriefIs
  <2> HIDE DEF c, d
  <2>3. RunsOver(Children(c, d), IF c.parent.name = "fixed" THEN 1..top ELSE Held(n, F, L))
    BY <1>1, <1>2, <2>2, ChildRuns DEF d
  <2>4. ChunksOf(c, d) = Children(c, d) /\ (OverText(c) <=> c.parent.name = "fixed")
    BY <1>3 DEF ChunksOf, OverText
  <2> QED BY <2>3, <2>4 DEF c, d
<1>4. CASE c.name # "parent_child"
  <2>1. Plain(c) /\ c \in Stages
    BY <1>4, StagesAre
  <2>2. Brief(c)
    BY <2>1, BriefIs
  <2> HIDE DEF c, d
  <2>3. RunsOver(PlainChunks(c, d), IF c.name = "fixed" THEN 1..top ELSE Held(n, F, L))
    BY <1>1, <1>2, <2>2, PlainRuns DEF d
  <2>4. ChunksOf(c, d) = PlainChunks(c, d) /\ (OverText(c) <=> c.name = "fixed")
    BY <1>4 DEF ChunksOf, OverText
  <2> QED BY <2>3, <2>4 DEF c, d
<1> QED BY <1>3, <1>4

-----------------------------------------------------------------------------
(* How a chunk spells its words.                                           *)

\* As some words are spelled, in a line, but for closing marks dropped at the places S
Kept(words, x, S) ==
    /\ DOMAIN x.words = DOMAIN words
    /\ \A p \in Range(x.text) :
          \/ x.words[p] = InLine(words[p])
          \/ p \in S /\ x.words[p] = InLine(Unmarked(words[p]))

\* To respell a word again changes nothing more.
LEMMA SpeltTwice ==
    ASSUME NEW w
    PROVE  /\ InLine(InLine(w)) = InLine(w)
           /\ InLine(Unmarked(InLine(w))) = InLine(Unmarked(w))
           /\ InLine(Unmarked(InLine(Unmarked(w)))) = InLine(Unmarked(w))
<1>1. ASSUME NEW u PROVE InLine(InLine(u)) = InLine(u)
  <2>1. u \in Broken => Joined[u] \notin Broken
    BY WordsAssumption
  <2> QED BY <2>1 DEF InLine
<1>2. ASSUME NEW u PROVE Unmarked(Unmarked(u)) = Unmarked(u)
  <2>1. u \in Closed => Bare[u] \notin Closed
    BY WordsAssumption
  <2> QED BY <2>1 DEF Unmarked
<1>3. ASSUME NEW u PROVE InLine(Unmarked(InLine(u))) = InLine(Unmarked(u))
  <2>1. CASE u \notin Broken
    BY <2>1 DEF InLine
  <2>2. CASE u \in Broken /\ u \in Closed
    <3>1. Joined[u] \in Closed /\ Bare[Joined[u]] = Joined[Bare[u]] /\ Bare[u] \in Broken
      BY <2>2, WordsAssumption
    <3>2. InLine(u) = Joined[u] /\ Unmarked(Joined[u]) = Bare[Joined[u]] /\ Unmarked(u) = Bare[u]
      BY <2>2, <3>1 DEF InLine, Unmarked
    <3>3. InLine(Bare[u]) = Joined[Bare[u]]
      BY <3>1 DEF InLine
    <3>4. InLine(InLine(Bare[u])) = InLine(Bare[u])
      BY <1>1
    <3> QED BY <3>1, <3>2, <3>3, <3>4
  <2>3. CASE u \in Broken /\ u \notin Closed
    <3>1. Joined[u] \notin Closed
      BY <2>3, WordsAssumption
    <3>2. InLine(u) = Joined[u] /\ Unmarked(Joined[u]) = Joined[u] /\ Unmarked(u) = u
      BY <2>3, <3>1 DEF InLine, Unmarked
    <3>3. InLine(InLine(u)) = InLine(u)
      BY <1>1
    <3> QED BY <3>2, <3>3
  <2> QED BY <2>1, <2>2, <2>3
<1>4. InLine(Unmarked(InLine(Unmarked(w)))) = InLine(Unmarked(Unmarked(w)))
  BY <1>3
<1> QED BY <1>1, <1>2, <1>3, <1>4

\* What is cut from a chunk.
LEMMA KeptTwice ==
    ASSUME NEW words, NEW y, NEW S, Kept(words, y, S), NEW x, NEW T, Kept(y.words, x, T),
           Range(x.text) \subseteq Range(y.text), NEW U, S \subseteq U, T \subseteq U
    PROVE  Kept(words, x, U)
<1>1. DOMAIN x.words = DOMAIN words
  BY DEF Kept
<1>2. ASSUME NEW p \in Range(x.text)
      PROVE  \/ x.words[p] = InLine(words[p])
             \/ p \in U /\ x.words[p] = InLine(Unmarked(words[p]))
  <2>1. \/ y.words[p] = InLine(words[p])
        \/ p \in U /\ y.words[p] = InLine(Unmarked(words[p]))
    BY DEF Kept
  <2>2. \/ x.words[p] = InLine(y.words[p])
        \/ p \in U /\ x.words[p] = InLine(Unmarked(y.words[p]))
    BY DEF Kept
  <2> DEFINE w == words[p]
  <2>3. /\ InLine(InLine(w)) = InLine(w)
        /\ InLine(Unmarked(InLine(w))) = InLine(Unmarked(w))
        /\ InLine(Unmarked(InLine(Unmarked(w)))) = InLine(Unmarked(w))
    BY SpeltTwice
  <2>4. InLine(InLine(Unmarked(w))) = InLine(Unmarked(w))
    BY SpeltTwice
  <2> HIDE DEF w
  <2> QED BY <2>1, <2>2, <2>3, <2>4 DEF w
<1> QED BY <1>1, <1>2 DEF Kept

\* All of a run but its last
LEMMA FrontOf ==
    ASSUME NEW a \in Nat \ {0}, NEW b \in Nat, a <= b
    PROVE  Range(Front(Run(a, b))) = a..(b - 1) /\ Last(Run(a, b)) = b
<1>1. a \in Nat /\ b \in Int /\ a - 1 <= b /\ b - a + 1 \in Nat \ {0}
  OBVIOUS
<1>2. Len(Run(a, b)) = b - a + 1 /\ \A i \in 1..(b - a + 1) : Run(a, b)[i] = a + i - 1
  BY <1>1, RunIs
<1>3. Front(Run(a, b)) = SubSeq(Run(a, b), 1, b - a)
  <2>1. (b - a + 1) - 1 = b - a
    OBVIOUS
  <2> QED BY <1>2, <2>1 DEF Front
<1>4. SubSeq(Run(a, b), 1, b - a) = Run(a, b - 1)
  <2> DEFINE lo == 1
             hi == b - a
  <2>1. lo \in Nat \ {0} /\ hi \in Nat /\ lo - 1 <= hi /\ hi <= b - a + 1
        /\ a + lo - 1 = a /\ a + hi - 1 = b - 1
    OBVIOUS
  <2> HIDE DEF lo, hi
  <2>2. SubSeq(Run(a, b), lo, hi) = Run(a + lo - 1, a + hi - 1)
    BY <1>1, <2>1, RunPart
  <2> QED BY <2>1, <2>2 DEF lo, hi
<1>5. Range(Run(a, b - 1)) = a..(b - 1)
  <2> DEFINE e == b - 1
  <2>1. a \in Nat /\ e \in Int /\ a - 1 <= e
    OBVIOUS
  <2> HIDE DEF e
  <2>2. Range(Run(a, e)) = a..e
    BY <2>1, RunRange
  <2> QED BY <2>2 DEF e
<1>6. Last(Run(a, b)) = b
  <2>1. b - a + 1 \in 1..(b - a + 1) /\ a + (b - a + 1) - 1 = b
    BY <1>1
  <2>2. Run(a, b)[b - a + 1] = b
    BY <1>2, <2>1
  <2> QED BY <1>2, <2>2 DEF Last
<1> QED BY <1>3, <1>4, <1>5, <1>6

\* split_sentences drops closing marks, but a text's last.
LEMMA RespelledIs ==
    ASSUME NEW words, NEW a \in Nat \ {0}, NEW b \in Nat, a <= b, NEW text, text = Run(a, b)
    PROVE  /\ DOMAIN Respelled(words, text) = DOMAIN words
           /\ \A p \in DOMAIN words :
                 Respelled(words, text)[p]
                    = InLine(IF p \in a..(b - 1) THEN Unmarked(words[p]) ELSE words[p])
<1>1. Range(Front(text)) = a..(b - 1)
  BY FrontOf
<1> QED BY <1>1 DEF Respelled

\* The chunks of a section.
LEMMA SectionKept ==
    ASSUME NEW words, NEW sec, NEW a \in Nat \ {0}, NEW b \in Nat, a - 1 <= b,
           sec.text = Run(a, b), a..b \subseteq DOMAIN words,
           NEW ch, Short(ch), NEW x \in Range(SectionChunks(ch, words, sec))
    PROVE  IsChunk(x) /\ Range(x.text) \subseteq a..b /\ Kept(words, x, a..(b - 1))
<1> DEFINE c == CutsOf(words, a, b)
           m == Count(words, a, b)
           out == SectionChunks(ch, words, sec)
<1>1. Cuts(c, m, a - 1, b) /\ SplitSentences(words, sec.text) = Between(c, m)
  <2> HIDE DEF c, m
  <2>1. c = CutsOf(words, a, b) /\ m = Count(words, a, b)
    BY DEF c, m
  <2> QED BY <2>1, CutsOfIs
<1> HIDE DEF c, m
<1>2. SectionCut(words, sec, c, m, out)
  BY <1>1, SectionChunksAre
<1>3. Range(x.text) \subseteq a..b
  <2>1. Cutter(ch)
    BY DEF Short
  <2> QED BY <2>1, CutterChunks
<1> HIDE DEF out
<1>4. PICK lo \in 1..m : \E hi \in lo..m : x = Placed(words, sec, c, lo, hi)
  BY <1>2 DEF SectionCut, out
<1>5. PICK hi \in lo..m : x = Placed(words, sec, c, lo, hi)
  BY <1>4
<1>6. /\ IsChunk(x) /\ x.words = Respelled(words, sec.text)
      /\ c[lo - 1] \in (a - 1)..b /\ c[lo] \in (a - 1)..b /\ c[lo - 1] < c[lo]
  <2> DEFINE y == Placed(words, sec, c, lo, hi)
  <2>1. /\ IsChunk(y) /\ y.words = Respelled(words, sec.text)
        /\ c[lo - 1] \in (a - 1)..b /\ c[lo] \in (a - 1)..b /\ c[lo - 1] < c[lo]
    BY <1>1, PlacedIs
  <2> HIDE DEF y
  <2> QED BY <1>5, <2>1 DEF y
<1>7. a <= b
  BY <1>6
<1>8. /\ DOMAIN x.words = DOMAIN words
      /\ \A p \in DOMAIN words :
            x.words[p] = InLine(IF p \in a..(b - 1) THEN Unmarked(words[p]) ELSE words[p])
  <2> DEFINE text == sec.text
  <2>1. text = Run(a, b) /\ x.words = Respelled(words, text)
    BY <1>6
  <2> HIDE DEF text
  <2> QED BY <1>7, <2>1, RespelledIs
<1>9. Kept(words, x, a..(b - 1))
  BY <1>3, <1>8 DEF Kept
<1> QED BY <1>3, <1>6, <1>9

\* A window has its words as they are in a line.
LEMMA FixedKept ==
    ASSUME NEW words, NEW a \in Nat \ {0}, NEW b \in Nat, a - 1 <= b, a..b \subseteq DOMAIN words,
           NEW ch, ch.size \in Nat \ {0}, ch.overlap \in 0..(ch.size - 1),
           NEW x \in Range(FixedChunks(ch, words, Run(a, b)))
    PROVE  /\ IsChunk(x) /\ Range(x.text) \subseteq a..b
           /\ x.words = Windowed(words) /\ Kept(words, x, {})
<1> DEFINE out == FixedChunks(ch, words, Run(a, b))
<1>1. RunsOver(out, a..b)
  BY FixedRuns
<1> HIDE DEF out
<1>2. x \in Range(out)
  BY DEF out
<1>3. PICK p \in Nat \ {0}, q \in Nat : p <= q /\ x.text = Run(p, q) /\ p..q \subseteq a..b
  BY <1>1, <1>2 DEF RunsOver
<1>4. Range(x.text) \subseteq a..b /\ a <= b
  <2>1. p \in Nat /\ q \in Int /\ p - 1 <= q /\ p \in p..q
    BY <1>3
  <2>2. Range(Run(p, q)) = p..q
    BY <2>1, RunRange
  <2>3. p \in a..b
    BY <1>3, <2>1
  <2> QED BY <1>3, <2>2, <2>3
<1>5. PICK W, e : WindowsOf(ch, words, a, b, W, e)
  BY <1>4, FixedChunksAre
<1> DEFINE Win(k) == Window(words, Run(a, b), a, b - a + 1, ch.size, W, e, k)
<1>6. W \in Nat /\ out = [k \in 1..(W + 1) |-> Win(k - 1)]
  BY <1>5 DEF WindowsOf, WindowStarts, out
<1> HIDE DEF Win
<1>7. PICK k \in 1..(W + 1) : x = Win(k - 1)
  BY <1>2, <1>6 DEF Range
<1>8. IsChunk(x) /\ x.words = Windowed(words)
  BY <1>7, ChunkIs DEF Win, Window
<1>9. Kept(words, x, {})
  BY <1>4, <1>8 DEF Kept, Windowed
<1> QED BY <1>4, <1>8, <1>9

\* The words of a document's text and of its sections are among its words.
Worded(d, n, F, L, a, b) ==
    /\ a..b \subseteq DOMAIN d.words
    /\ \A i \in 1..n : F[i]..L[i] \subseteq DOMAIN d.words

\* In section i, and spelled as it is but for closing marks behind its sentences
KeptIn(d, n, F, L, x) ==
    \E i \in 1..n : Range(x.text) \subseteq F[i]..L[i] /\ Kept(d.words, x, F[i]..(L[i] - 1))

\* The chunks of a chunker that is no parent_child.
LEMMA PlainKept ==
    ASSUME NEW d, NEW n, NEW F, NEW L, Sectioned(d, n, F, L),
           NEW a \in Nat \ {0}, NEW b \in Nat, a - 1 <= b, d.text = Run(a, b),
           Worded(d, n, F, L, a, b),
           NEW ch, Brief(ch), NEW x \in Range(PlainChunks(ch, d))
    PROVE  /\ IsChunk(x)
           /\ IF ch.name = "fixed" THEN Range(x.text) \subseteq a..b /\ Kept(d.words, x, {})
              ELSE KeptIn(d, n, F, L, x)
<1>1. CASE ch.name = "fixed"
  <2>1. ch.size \in Nat \ {0} /\ ch.overlap \in 0..(ch.size - 1)
    BY <1>1 DEF Brief, Plain
  <2> DEFINE words == d.words
  <2>2. x \in Range(FixedChunks(ch, words, Run(a, b))) /\ a..b \subseteq DOMAIN words
    BY <1>1 DEF PlainChunks, Worded
  <2> HIDE DEF words
  <2>3. IsChunk(x) /\ Range(x.text) \subseteq a..b /\ Kept(words, x, {})
    BY <2>1, <2>2, FixedKept
  <2> QED BY <1>1, <2>3 DEF words
<1>2. CASE ch.name # "fixed"
  <2>1. Short(ch)
    <3>1. CASE ch.name = "sentence"
      <4>1. ch.max \in Int /\ ch.overlap \in Nat /\ ch.overlap <= 1
        BY <3>1 DEF Brief, Plain
      <4>2. ch.overlap \in {0, 1}
        BY <4>1
      <4> QED BY <3>1, <4>1, <4>2 DEF Short, Cutter
    <3>2. CASE ch.name # "sentence"
      BY <1>2, <3>2 DEF Brief, Plain, Short, Cutter
    <3> QED BY <3>1, <3>2
  <2>2. Cutter(ch)
    BY <2>1 DEF Short
  <2>3. PICK i \in 1..n : x \in Range(SectionChunks(ch, d.words, d.sections[i]))
    BY <2>2, PlainChunksAre
  <2> DEFINE f == F[i]
             l == L[i]
             sec == d.sections[i]
             words == d.words
  <2>4. f \in Nat \ {0} /\ l \in Nat /\ f - 1 <= l /\ sec.text = Run(f, l)
        /\ f..l \subseteq DOMAIN words /\ x \in Range(SectionChunks(ch, words, sec))
    BY <2>3 DEF Sectioned, Worded
  <2> HIDE DEF f, l, sec, words
  <2>5. IsChunk(x) /\ Range(x.text) \subseteq f..l /\ Kept(words, x, f..(l - 1))
    BY <2>1, <2>4, SectionKept
  <2>6. KeptIn(d, n, F, L, x)
    BY <2>5 DEF KeptIn, f, l, words
  <2> QED BY <1>2, <2>5, <2>6
<1> QED BY <1>1, <1>2

\* What is cut from a parent keeps its words.
LEMMA CutKept ==
    ASSUME NEW d, IsDocument(d), NEW y, NEW p \in Nat \ {0}, NEW q \in Nat, p <= q,
           TextIs(y, p, q), p..q \subseteq DOMAIN y.words, NEW ch, Brief(ch),
           NEW z \in Range(PlainChunks(ch, SubDoc(d, y)))
    PROVE  IsChunk(z) /\ Range(z.text) \subseteq p..q /\ Kept(y.words, z, p..(q - 1))
<1> DEFINE s == SubDoc(d, y)
           f == Single(p)
           l == Single(q)
<1>1. p - 1 <= q
  OBVIOUS
<1>2. s.text = Run(p, q) /\ Sectioned(s, 1, f, l) /\ s.words = y.words
  BY <1>1, SubDocIs
<1>3. \A i \in 1..1 : f[i] = p /\ l[i] = q
  BY DEF Single
<1> HIDE DEF s, f, l
<1>4. Worded(s, 1, f, l, p, q)
  BY <1>2, <1>3 DEF Worded
<1>5. z \in Range(PlainChunks(ch, s))
  BY DEF s
<1>6. /\ IsChunk(z)
      /\ IF ch.name = "fixed" THEN Range(z.text) \subseteq p..q /\ Kept(s.words, z, {})
         ELSE KeptIn(s, 1, f, l, z)
  BY <1>1, <1>2, <1>4, <1>5, PlainKept
<1>7. KeptIn(s, 1, f, l, z) => Range(z.text) \subseteq p..q /\ Kept(s.words, z, p..(q - 1))
  BY <1>3 DEF KeptIn
<1>8. Kept(s.words, z, {}) => Kept(s.words, z, p..(q - 1))
  BY DEF Kept
<1> QED BY <1>2, <1>6, <1>7, <1>8

\* Children keep what their parents did.
LEMMA ChildKept ==
    ASSUME NEW d, IsDocument(d),
           NEW n, NEW F, NEW L, Sectioned(d, n, F, L),
           NEW a \in Nat \ {0}, NEW b \in Nat, a - 1 <= b, d.text = Run(a, b),
           Worded(d, n, F, L, a, b),
           NEW c, Brief(c.parent), Brief(c.child), NEW x \in Range(Children(c, d))
    PROVE  IF c.parent.name = "fixed" THEN Kept(d.words, x, Nat) ELSE KeptIn(d, n, F, L, x)
<1> DEFINE W == IF c.parent.name = "fixed" THEN a..b ELSE Held(n, F, L)
           parents == PlainChunks(c.parent, d)
           N == Len(parents)
           cut(k) == Cut(c, d, k)
<1>1. RunsOver(parents, W)
  <2> DEFINE p == c.parent
  <2>1. Brief(p)
    OBVIOUS
  <2> HIDE DEF p
  <2>2. RunsOver(PlainChunks(p, d), IF p.name = "fixed" THEN a..b ELSE Held(n, F, L))
    BY <2>1, PlainRuns
  <2> QED BY <2>2 DEF p
<1>2. parents \in Seq(Range(parents)) /\ \A k \in 1..N : parents[k] \in Range(parents)
  <2>1. parents \in Seq(Range(parents))
    BY <1>1 DEF RunsOver
  <2> HIDE DEF parents
  <2> QED BY <2>1, RangeIs
<1>3. ASSUME NEW k \in 1..N
      PROVE  IF c.parent.name = "fixed"
             THEN Range(parents[k].text) \subseteq a..b /\ Kept(d.words, parents[k], {})
             ELSE KeptIn(d, n, F, L, parents[k])
  <2> DEFINE ch == c.parent
             y == parents[k]
  <2>1. y \in Range(PlainChunks(ch, d)) /\ Brief(ch)
    BY <1>2
  <2> HIDE DEF ch, y
  <2>2. IF ch.name = "fixed" THEN Range(y.text) \subseteq a..b /\ Kept(d.words, y, {})
        ELSE KeptIn(d, n, F, L, y)
    BY <2>1, PlainKept
  <2> QED BY <2>2 DEF ch, y
<1> HIDE DEF W, parents
<1>4. ASSUME NEW k \in 1..N
      PROVE  \E p \in Nat \ {0} : \E q \in Nat :
                /\ p <= q /\ TextIs(parents[k], p, q) /\ Range(parents[k].text) = p..q
                /\ p..q \subseteq DOMAIN parents[k].words
  <2> DEFINE y == parents[k]
  <2>1. PICK p \in Nat \ {0}, q \in Nat : p <= q /\ y.text = Run(p, q)
    BY <1>1, <1>2 DEF RunsOver
  <2>2. Range(Run(p, q)) = p..q
    <3>1. p \in Nat /\ q \in Int /\ p - 1 <= q
      BY <2>1
    <3> QED BY <3>1, RunRange
  <2>3. Range(y.text) \subseteq DOMAIN d.words /\ DOMAIN y.words = DOMAIN d.words
    BY <1>3 DEF Worded, Kept, KeptIn
  <2> HIDE DEF y
  <2>4. p <= q /\ TextIs(y, p, q) /\ Range(y.text) = p..q /\ p..q \subseteq DOMAIN y.words
    BY <2>1, <2>2, <2>3 DEF TextIs
  <2> QED BY <2>4 DEF y
<1>5. ASSUME NEW k \in 1..N, NEW z \in Range(cut(k)),
             NEW p \in Nat \ {0}, NEW q \in Nat, p <= q, TextIs(parents[k], p, q),
             p..q \subseteq DOMAIN parents[k].words
      PROVE  IsChunk(z) /\ Range(z.text) \subseteq p..q /\ Kept(parents[k].words, z, p..(q - 1))
  <2> DEFINE y == parents[k]
             ch == c.child
  <2>1. z \in Range(PlainChunks(ch, SubDoc(d, y))) /\ Brief(ch)
    BY DEF Cut, parents
  <2>2. TextIs(y, p, q) /\ p..q \subseteq DOMAIN y.words
    BY <1>5
  <2> HIDE DEF y, ch
  <2>3. IsChunk(z) /\ Range(z.text) \subseteq p..q /\ Kept(y.words, z, p..(q - 1))
    BY <1>5, <2>1, <2>2, CutKept
  <2> QED BY <2>3 DEF y
<1>6. \A k \in 1..N : cut(k) \in Seq(Range(cut(k)))
  <2> SUFFICES ASSUME NEW k \in 1..N PROVE cut(k) \in Seq(Range(cut(k)))
    OBVIOUS
  <2>1. PICK p \in Nat \ {0}, q \in Nat : p <= q /\ TextIs(parents[k], p, q)
    BY <1>4
  <2> DEFINE y == parents[k]
             ch == c.child
  <2>2. TextIs(y, p, q) /\ Brief(ch) /\ cut(k) = PlainChunks(ch, SubDoc(d, y))
    BY <2>1 DEF Cut, parents
  <2> HIDE DEF y, ch, cut
  <2>3. RunsOver(PlainChunks(ch, SubDoc(d, y)), p..q)
    BY <2>1, <2>2, CutRuns
  <2> QED BY <2>2, <2>3 DEF RunsOver
<1> HIDE DEF cut, N
<1>7. \A u : u \in Range(Children(c, d)) <=>
         \E k \in 1..N : \E z \in Range(cut(k)) : u = Relabel(z, parents[k].path, k)
  BY <1>2, <1>6, ChildrenIn DEF cut, N, parents
<1>16. PICK k \in 1..N : \E z \in Range(cut(k)) : x = Relabel(z, parents[k].path, k)
  BY <1>7
<1>8. PICK z \in Range(cut(k)) : x = Relabel(z, parents[k].path, k)
  BY <1>16
<1> DEFINE y == parents[k]
<1>9. PICK p \in Nat \ {0}, q \in Nat :
         /\ p <= q /\ TextIs(y, p, q) /\ Range(y.text) = p..q
         /\ p..q \subseteq DOMAIN y.words
  BY <1>4
<1>10. IsChunk(z) /\ Range(z.text) \subseteq Range(y.text) /\ Kept(y.words, z, p..(q - 1))
  BY <1>5, <1>9
<1>11. x.text = z.text /\ x.words = z.words
  BY <1>8, <1>10, RelabelIs
<1>12. Range(x.text) \subseteq Range(y.text) /\ Kept(y.words, x, p..(q - 1))
  BY <1>10, <1>11 DEF Kept
<1>13. IF c.parent.name = "fixed" THEN Kept(d.words, y, {}) ELSE KeptIn(d, n, F, L, y)
  BY <1>3
<1> HIDE DEF y
<1>14. CASE c.parent.name = "fixed"
  <2>1. {} \subseteq Nat /\ p..(q - 1) \subseteq Nat
    OBVIOUS
  <2> DEFINE words == d.words
             T == p..(q - 1)
             U == Nat
  <2>2. Kept(words, y, {}) /\ Kept(y.words, x, T) /\ T \subseteq U /\ {} \subseteq U
    BY <1>12, <1>13, <1>14, <2>1
  <2> HIDE DEF words, T, U
  <2>3. Kept(words, x, U)
    BY <1>12, <2>2, KeptTwice
  <2> QED BY <1>14, <2>3 DEF words, U
<1>15. CASE c.parent.name # "fixed"
  <2>1. PICK i \in 1..n : Range(y.text) \subseteq F[i]..L[i] /\ Kept(d.words, y, F[i]..(L[i] - 1))
    BY <1>13, <1>15 DEF KeptIn
  <2> DEFINE words == d.words
             f == F[i]
             l == L[i]
             T == p..(q - 1)
             U == f..(l - 1)
  <2>2. T \subseteq U
    <3>1. f \in Nat /\ l \in Nat
      BY DEF Sectioned
    <3>2. p \in f..l /\ q \in f..l
      BY <1>9, <2>1
    <3> HIDE DEF f, l
    <3> QED BY <3>1, <3>2
  <2>3. Kept(words, y, U) /\ Kept(y.words, x, T) /\ U \subseteq U
    BY <1>12, <2>1
  <2> HIDE DEF words, T, U
  <2>4. Kept(words, x, U)
    BY <1>12, <2>2, <2>3, KeptTwice
  <2>5. Range(x.text) \subseteq F[i]..L[i]
    BY <1>12, <2>1
  <2> QED BY <1>15, <2>4, <2>5 DEF KeptIn, words, U
<1> QED BY <1>14, <1>15

\* The chunks of a run spell the words of its document.
LEMMA AllKept ==
    ASSUME page \in Pages, chunker \in Chunkers, NoLongOverlap,
           NEW n, NEW F, NEW L, NEW top, Paged(document, n, F, L, top),
           NEW x \in Range(ChunksOf(chunker, document))
    PROVE  /\ chunker.name = "fixed" => Kept(document.words, x, {})
           /\ OverText(chunker) => Kept(document.words, x, Nat)
           /\ ~OverText(chunker) => KeptIn(document, n, F, L, x)
<1> DEFINE c == chunker
           d == document
<1>1. /\ top \in Nat /\ d.text = Run(1, top) /\ Sectioned(d, n, F, L) /\ IsDocument(d)
  BY DEF Paged
<1>2. 1 \in Nat \ {0} /\ 1 - 1 <= top
  BY <1>1
<1>3. Worded(d, n, F, L, 1, top)
  <2>1. DOMAIN d.words = 1..Len(d.words) /\ Len(d.words) \in Nat /\ top <= Len(d.words)
        /\ \A i \in 1..n : L[i] <= Len(d.words) /\ F[i] \in Nat \ {0} /\ L[i] \in Nat
    BY DEF Paged, Sectioned
  <2> DEFINE l == Len(d.words)
  <2> HIDE DEF l
  <2>2. 1..top \subseteq 1..l /\ \A i \in 1..n : F[i]..L[i] \subseteq 1..l
    BY <1>1, <2>1 DEF l
  <2> QED BY <2>1, <2>2 DEF Worded, l
<1>4. Kept(d.words, x, {}) => Kept(d.words, x, Nat)
  BY DEF Kept
<1>5. CASE c.name = "parent_child"
  <2>1. Plain(c.parent) /\ Plain(c.child) /\ c.parent \in Stages /\ c.child \in Stages
    BY <1>5, StagesAre
  <2>2. Brief(c.parent) /\ Brief(c.child)
    BY <2>1, BriefIs
  <2>3. x \in Range(Children(c, d)) /\ (OverText(c) <=> c.parent.name = "fixed")
        /\ c.name # "fixed"
    BY <1>5 DEF ChunksOf, OverText
  <2> HIDE DEF c, d
  <2>4. IF c.parent.name = "fixed" THEN Kept(d.words, x, Nat) ELSE KeptIn(d, n, F, L, x)
    BY <1>1, <1>2, <1>3, <2>2, <2>3, ChildKept
  <2> QED BY <2>3, <2>4 DEF c, d
<1>6. CASE c.name # "parent_child"
  <2>1. Plain(c) /\ c \in Stages
    BY <1>6, StagesAre
  <2>2. Brief(c)
    BY <2>1, BriefIs
  <2>3. x \in Range(PlainChunks(c, d)) /\ (OverText(c) <=> c.name = "fixed")
    BY <1>6 DEF ChunksOf, OverText
  <2> HIDE DEF c, d
  <2>4. IF c.name = "fixed" THEN Kept(d.words, x, {}) ELSE KeptIn(d, n, F, L, x)
    BY <1>1, <1>2, <1>3, <2>2, <2>3, PlainKept
  <2> QED BY <1>4, <2>3, <2>4 DEF c, d
<1> QED BY <1>5, <1>6

\* WordsKept of what a chunker makes of a document.
LEMMA WordsAreKept ==
    ASSUME page \in Pages, chunker \in Chunkers, document = ExtractDocument(page),
           Chunked => chunks = ChunksOf(chunker, document)
    PROVE  WordsKept
<1> DEFINE Bared(p) == OverText(chunker) \/ \A j \in DOMAIN document.sections :
                                              p # Last(document.sections[j].text)
<1> SUFFICES ASSUME Chunked, NoLongOverlap
             PROVE  /\ LET held == UNION {Range(chunks[i].text) : i \in DOMAIN chunks}
                       IN IF OverText(chunker) THEN held = Range(document.text)
                          ELSE held = UNION {Range(document.sections[i].text) :
                                               i \in DOMAIN document.sections}
                    /\ \A i \in DOMAIN chunks : \A k \in 1..(Len(chunks[i].text) - 1) :
                          chunks[i].text[k + 1] = chunks[i].text[k] + 1
                    /\ \A i \in DOMAIN chunks : \A p \in Range(chunks[i].text) :
                          \/ chunks[i].words[p] = InLine(document.words[p])
                          \/ /\ chunks[i].words[p] = InLine(Unmarked(document.words[p]))
                             /\ chunker.name # "fixed" /\ Bared(p)
  BY DEF WordsKept
<1>1. PICK n, F, L, top : Paged(document, n, F, L, top)
  BY DocumentPaged
<1> DEFINE W == IF OverText(chunker) THEN 1..top ELSE Held(n, F, L)
<1>2. RunsOver(chunks, W)
  BY <1>1, AllRuns
<1>3. /\ Range(document.text) = 1..top
      /\ UNION {Range(document.sections[i].text) : i \in DOMAIN document.sections} = Held(n, F, L)
  BY <1>1, DocumentHolds
<1> HIDE DEF W
<1>4. /\ UNION {Range(chunks[i].text) : i \in DOMAIN chunks} = W
      /\ \A i \in DOMAIN chunks : \A k \in 1..(Len(chunks[i].text) - 1) :
            chunks[i].text[k + 1] = chunks[i].text[k] + 1
  BY <1>2, RunsHeld
<1>5. ASSUME NEW i \in DOMAIN chunks, NEW p \in Range(chunks[i].text)
      PROVE  \/ chunks[i].words[p] = InLine(document.words[p])
             \/ /\ chunks[i].words[p] = InLine(Unmarked(document.words[p]))
                /\ chunker.name # "fixed" /\ Bared(p)
  <2> DEFINE x == chunks[i]
             d == document
  <2>1. x \in Range(ChunksOf(chunker, document))
    BY DEF Range
  <2> HIDE DEF x
  <2>2. /\ chunker.name = "fixed" => Kept(d.words, x, {})
        /\ OverText(chunker) => Kept(d.words, x, Nat)
        /\ ~OverText(chunker) => KeptIn(d, n, F, L, x)
    BY <1>1, <2>1, AllKept
  <2>3. p \in Range(x.text)
    BY DEF x
  <2>4. CASE chunker.name = "fixed"
    BY <2>2, <2>3, <2>4 DEF Kept, x
  <2>5. CASE chunker.name # "fixed" /\ OverText(chunker)
    BY <2>2, <2>3, <2>5 DEF Kept, x
  <2>6. CASE chunker.name # "fixed" /\ ~OverText(chunker)
    <3>1. PICK m \in 1..n : Kept(d.words, x, F[m]..(L[m] - 1))
      BY <2>2, <2>6 DEF KeptIn
    <3>2. ASSUME p \in F[m]..(L[m] - 1), NEW j \in DOMAIN d.sections
          PROVE  p # Last(d.sections[j].text)
      <4> DEFINE f == F[j]
                 l == L[j]
                 a == F[m]
                 b == L[m]
      <4>1. j \in 1..n /\ f \in Nat \ {0} /\ l \in Nat /\ d.sections[j].text = Run(f, l)
            /\ a \in Nat \ {0} /\ b \in Nat
        BY <1>1 DEF Paged, Sectioned
      <4>2. a <= b /\ p \in a..b /\ p # b
        <5> HIDE DEF a, b
        <5>1. p \in a..(b - 1)
          BY <3>2 DEF a, b
        <5> QED BY <4>1, <5>1
      <4>3. f <= l /\ p # l
        <5>1. CASE j = m
          BY <4>2, <5>1
        <5>2. CASE j # m
          <6>1. f <= l /\ l \notin a..b
            BY <1>1, <4>1, <5>2 DEF Paged
          <6> QED BY <4>2, <6>1
        <5> QED BY <5>1, <5>2
      <4> HIDE DEF f, l
      <4>4. Last(Run(f, l)) = l
        BY <4>1, <4>3, FrontOf
      <4> QED BY <4>1, <4>3, <4>4
    <3> QED BY <2>3, <2>6, <3>1, <3>2 DEF Kept, x
  <2> QED BY <2>4, <2>5, <2>6
<1> QED BY <1>3, <1>4, <1>5 DEF W

-----------------------------------------------------------------------------
(* Heading paths.                                                          *)

\* The chunks of a document of one text
LEMMA PlainWithin ==
    ASSUME NEW d, IsDocument(d), NEW p, NEW S, p.text \in Seq(S), NEW ch, Plain(ch)
    PROVE  Within(PlainChunks(ch, SubDoc(d, p)), S)
<1> DEFINE s == SubDoc(d, p)
           l(k) == SectionChunks(ch, s.words, s.sections[k])
           lists == [k \in DOMAIN s.sections |-> l(k)]
<1>1. s.text = p.text /\ s.words = p.words /\ s.sections = <<Whole(p)>>
  BY DEF SubDoc, IsDocument
<1>2. CASE ch.name = "fixed"
  <2>1. ch.size \in Nat \ {0} /\ ch.overlap \in 0..(ch.size - 1)
    BY <1>2 DEF Plain
  <2>2. PlainChunks(ch, s) = FixedChunks(ch, p.words, p.text)
    BY <1>1, <1>2 DEF PlainChunks
  <2> QED BY <2>1, <2>2, FixedWithin
<1>3. CASE ch.name # "fixed"
  <2>1. Cutter(ch)
    <3>1. CASE ch.name = "sentence"
      BY <3>1 DEF Plain, Cutter
    <3>2. CASE ch.name = "semantic"
      BY <3>2 DEF Plain, Cutter
    <3> QED BY <1>3, <3>1, <3>2 DEF Plain
  <2>2. PlainChunks(ch, s) = FlattenSeq(lists)
    BY <1>3 DEF PlainChunks
  <2> DEFINE sec == Whole(p)
             one == SectionChunks(ch, p.words, sec)
  <2>3. sec.text = p.text
    BY DEF Whole
  <2> HIDE DEF sec
  <2>4. Within(one, S)
    BY <2>1, <2>3, SectionWithin
  <2>5. DOMAIN lists = 1..1 /\ lists[1] = one
    BY <1>1 DEF sec
  <2> HIDE DEF s, one
  <2>6. lists \in [1..1 -> {one}]
    <3>1. \A k \in 1..1 : k = 1
      OBVIOUS
    <3>2. lists = [k \in 1..1 |-> lists[k]]
      BY <2>5
    <3> HIDE DEF lists
    <3> QED BY <2>5, <3>1, <3>2
  <2> HIDE DEF lists
  <2>7. /\ FlattenSeq(lists) \in Seq(Range(FlattenSeq(lists)))
        /\ \A x : x \in Range(FlattenSeq(lists)) <=> \E k \in 1..1 : x \in Range(lists[k])
    <3>1. \A k \in 1..1 : lists[k] \in Seq(Range(lists[k]))
      BY <2>4, <2>5 DEF Within
    <3> DEFINE T == {one}
    <3>2. lists \in [1..1 -> T] /\ 1 \in Nat
      BY <2>6
    <3> HIDE DEF T
    <3> QED BY <3>1, <3>2, FlattenAny
  <2>8. \A x \in Range(FlattenSeq(lists)) : x \in Range(one)
    BY <2>5, <2>7
  <2> QED BY <2>2, <2>4, <2>7, <2>8 DEF Within, s
<1> QED BY <1>2, <1>3

\* The chunks of a document: of the words of a section, under its path
PathOf(d, n, F, L, x) ==
    \E i \in 1..n : x.path = d.sections[i].path /\ x.text \in Seq(F[i]..L[i])

\* A chunk has the path of the section its words are in.
LEMMA PlainPaths ==
    ASSUME NEW d, NEW n, NEW F, NEW L, Sectioned(d, n, F, L), NEW ch, Cutter(ch),
           NEW x, x \in Range(PlainChunks(ch, d))
    PROVE  IsChunk(x) /\ PathOf(d, n, F, L, x)
<1>1. PICK i \in 1..n : x \in Range(SectionChunks(ch, d.words, d.sections[i]))
  BY PlainChunksAre
<1> DEFINE a == F[i]
           b == L[i]
           sec == d.sections[i]
           S == a..b
<1>2. a \in Nat /\ b \in Int /\ a - 1 <= b /\ sec.text = Run(a, b)
  BY DEF Sectioned
<1> HIDE DEF a, b
<1>3. sec.text \in Seq(S)
  BY <1>2, RunOf
<1> DEFINE words == d.words
           out == SectionChunks(ch, words, sec)
<1>4. x \in Range(out)
  BY <1>1
<1> HIDE DEF S, sec, words
<1>5. Within(out, S) /\ \A y \in Range(out) : y.path = sec.path
  BY <1>3, SectionWithin
<1> HIDE DEF out
<1>6. IsChunk(x) /\ x.text \in Seq(S) /\ x.path = sec.path
  BY <1>4, <1>5 DEF Within
<1>7. \E j \in 1..n : x.path = d.sections[j].path /\ x.text \in Seq(F[j]..L[j])
  BY <1>6 DEF S, sec, a, b
<1> QED BY <1>6, <1>7 DEF PathOf

\* A child has the path of its parent, of which its words are.
LEMMA ChildPaths ==
    ASSUME NEW d, IsDocument(d), NEW n, NEW F, NEW L, Sectioned(d, n, F, L),
           NEW c, Cutter(c.parent), Plain(c.child), NEW x, x \in Range(Children(c, d))
    PROVE  PathOf(d, n, F, L, x)
<1> DEFINE parents == PlainChunks(c.parent, d)
           N == Len(parents)
           cut(k) == Cut(c, d, k)
<1>1. parents \in Seq(Range(parents))
  <2> DEFINE ch == c.parent
  <2> HIDE DEF ch
  <2>1. PlainChunks(ch, d) \in Seq(Range(PlainChunks(ch, d)))
    BY PlainChunksAre DEF ch
  <2> QED BY <2>1 DEF ch
<1>2. ASSUME NEW k \in 1..N PROVE parents[k] \in Range(parents)
  BY <1>1, <1>2, RangeIs
<1>3. ASSUME NEW k \in 1..N
      PROVE  PathOf(d, n, F, L, parents[k])
  <2> DEFINE ch == c.parent
             y == parents[k]
  <2>1. y \in Range(PlainChunks(ch, d)) /\ Cutter(ch)
    BY <1>2
  <2> HIDE DEF ch, y
  <2>2. PathOf(d, n, F, L, y)
    BY <2>1, PlainPaths
  <2> QED BY <2>2 DEF y
<1>4. ASSUME NEW k \in 1..N, NEW S, parents[k].text \in Seq(S)
      PROVE  Within(cut(k), S)
  <2> DEFINE p == parents[k]
             ch == c.child
  <2>1. p.text \in Seq(S) /\ Plain(ch)
    BY <1>4
  <2>2. cut(k) = PlainChunks(ch, SubDoc(d, p))
    BY DEF Cut
  <2> HIDE DEF p, ch, cut
  <2> QED BY <2>1, <2>2, PlainWithin
<1>5. \A k \in 1..N : cut(k) \in Seq(Range(cut(k)))
  <2> SUFFICES ASSUME NEW k \in 1..N PROVE cut(k) \in Seq(Range(cut(k)))
    OBVIOUS
  <2>1. PICK i \in 1..n : parents[k].text \in Seq(F[i]..L[i])
    BY <1>3 DEF PathOf
  <2>2. Within(cut(k), F[i]..L[i])
    <3> DEFINE S == F[i]..L[i]
    <3>1. parents[k].text \in Seq(S)
      BY <2>1
    <3> HIDE DEF S, cut, parents, N
    <3>2. Within(cut(k), S)
      BY <1>4, <3>1
    <3> QED BY <3>2 DEF S
  <2> QED BY <2>2 DEF Within
<1> HIDE DEF cut, N, parents
<1>6. \A y : y \in Range(Children(c, d)) <=>
         \E k \in 1..N : \E z \in Range(cut(k)) : y = Relabel(z, parents[k].path, k)
  BY <1>1, <1>5, ChildrenIn DEF cut, N, parents
<1>7. PICK k \in 1..N : \E z \in Range(cut(k)) : x = Relabel(z, parents[k].path, k)
  BY <1>6
<1>8. PICK z \in Range(cut(k)) : x = Relabel(z, parents[k].path, k)
  BY <1>7
<1>9. PICK i \in 1..n : parents[k].path = d.sections[i].path /\ parents[k].text \in Seq(F[i]..L[i])
  BY <1>3 DEF PathOf
<1> DEFINE S == F[i]..L[i]
<1>10. parents[k].text \in Seq(S)
  BY <1>9
<1> HIDE DEF S
<1>11. IsChunk(z) /\ z.text \in Seq(S)
  BY <1>4, <1>10 DEF Within
<1>12. x.text = z.text /\ x.path = parents[k].path
  BY <1>8, <1>11, RelabelIs
<1> QED BY <1>9, <1>11, <1>12 DEF PathOf, S

\* Each chunk's path, and the headings of its words
LEMMA PathsAreRight ==
    ASSUME page \in Pages, chunker \in Chunkers, document = ExtractDocument(page),
           Chunked => chunks = ChunksOf(chunker, document)
    PROVE  PathsAreAncestors
<1> SUFFICES ASSUME Chunked, ~OverText(chunker), page.blocks # <<>>, ExtractSections(page) # <<>>,
                    NEW j \in DOMAIN chunks, NEW w \in Range(chunks[j].text)
             PROVE  Range(chunks[j].path) = Ancestors(w)
  BY DEF PathsAreAncestors
<1>1. PICK P, N, v, H, B, start :
              /\ Laid(page, P, N, v, H, B, start)
              /\ \A k \in 1..(N + 1) : BlockStart(k) = start[k]
  BY PageFacts
<1>2. PICK n, F, L, top :
              /\ Paged(document, n, F, L, top)
              /\ page.blocks # <<>> /\ ExtractSections(page) # <<>> =>
                   \A i \in 1..n : \A y \in F[i]..L[i] :
                      Range(document.sections[i].path) = Over(N, v, H, start, y)
  BY <1>1, DocumentIs
<1> DEFINE d == document
           c == chunker
           x == chunks[j]
<1>3. IsDocument(d) /\ Sectioned(d, n, F, L)
  BY <1>2 DEF Paged
<1>4. x \in Range(ChunksOf(c, d))
  BY DEF Range
<1>5. PathOf(d, n, F, L, x)
  <2>1. CASE c.name = "parent_child"
    <3>1. Plain(c.parent) /\ Plain(c.child) /\ c.parent.name # "fixed"
      BY <2>1, StagesAre DEF OverText
    <3>2. Cutter(c.parent)
      <4> DEFINE ch == c.parent
      <4>1. Plain(ch) /\ ch.name # "fixed"
        BY <3>1
      <4> HIDE DEF ch
      <4>2. Cutter(ch)
        BY <4>1 DEF Plain, Cutter
      <4> QED BY <4>2 DEF ch
    <3>3. x \in Range(Children(c, d))
      BY <1>4, <2>1 DEF ChunksOf
    <3> HIDE DEF c, d, x
    <3> QED BY <1>3, <3>1, <3>2, <3>3, ChildPaths
  <2>2. CASE c.name # "parent_child"
    <3>1. Plain(c) /\ c.name # "fixed"
      BY <2>2, StagesAre DEF OverText
    <3>2. x \in Range(PlainChunks(c, d))
      BY <1>4, <2>2 DEF ChunksOf
    <3> HIDE DEF c, d, x
    <3>3. Cutter(c)
      BY <3>1 DEF Plain, Cutter
    <3> QED BY <1>3, <3>2, <3>3, PlainPaths
  <2> QED BY <2>1, <2>2
<1>6. PICK i \in 1..n : x.path = d.sections[i].path /\ x.text \in Seq(F[i]..L[i])
  BY <1>5 DEF PathOf
<1>7. w \in F[i]..L[i]
  <2> DEFINE S == F[i]..L[i]
             t == x.text
  <2>1. t \in Seq(S) /\ w \in Range(t)
    BY <1>6
  <2> HIDE DEF S, t
  <2>2. w \in S
    BY <2>1, RangeIs
  <2> QED BY <2>2 DEF S
<1>8. w \in Nat
  <2>1. F[i] \in Nat /\ L[i] \in Nat
    BY <1>3 DEF Sectioned
  <2> QED BY <1>7, <2>1
<1>9. Range(d.sections[i].path) = Over(N, v, H, start, w)
  BY <1>2, <1>7
<1>10. Ancestors(w) = Over(N, v, H, start, w)
  BY <1>1, <1>8, AncestorsAre
<1> QED BY <1>6, <1>9, <1>10

-----------------------------------------------------------------------------
(* The run.                                                                *)

Units == ChunksOf(GenerationChunker, document)

\* What each step leaves: what it computed, of what the steps before computed
JInv ==
    /\ page \in Pages /\ chunker \in Chunkers
    /\ phase \in {"crawled", "extracted", "chunked", "asked", "projected"}
    /\ phase # "crawled" => document = ExtractDocument(page)
    /\ Chunked => chunks = ChunksOf(chunker, document)
    /\ phase \in {"asked", "projected"} => gold \in Seq(Range(Units))
    /\ phase = "projected" => judged = [k \in DOMAIN gold |-> ProjectQuery(gold[k])]

\* What is picked is of the sequence.
LEMMA PickedIs ==
    ASSUME NEW S, NEW s \in Seq(S), NEW places, places \subseteq DOMAIN s
    PROVE  Picked(s, places) \in Seq(S)
<1> DEFINE n == Len(s)
           m == Cardinality(places)
<1>1. n \in Nat /\ DOMAIN s = 1..n /\ \A i \in 1..n : s[i] \in S
  OBVIOUS
<1>2. places \subseteq Nat /\ IsFiniteSet(places)
  <2>1. IsFiniteSet(1..n) /\ 1..n \subseteq Nat
    BY <1>1, Positions
  <2> QED BY <1>1, <2>1, FS_Subset
<1>3. m \in Nat /\ \A k \in 1..m : Kth(places, k) \in places
  BY <1>2, KthIs
<1>4. \A k \in 1..m : s[Kth(places, k)] \in S
  BY <1>1, <1>3
<1> QED BY <1>3, <1>4 DEF Picked

\* The units are the chunks of a chunker that cuts sections.
LEMMA UnitsAre ==
    ASSUME page \in Pages, document = ExtractDocument(page)
    PROVE  /\ Cutter(GenerationChunker) /\ Units = PlainChunks(GenerationChunker, document)
           /\ Units \in Seq(Range(Units))
<1> DEFINE c == GenerationChunker
           d == document
<1>1. Plain(c) /\ c.name = "sentence"
  BY GenerationAssumption
<1>2. Cutter(c)
  BY <1>1 DEF Plain, Cutter
<1>3. Units = PlainChunks(c, d)
  BY <1>1 DEF Units, ChunksOf
<1>4. PICK n, F, L, top : Paged(d, n, F, L, top)
  BY DocumentPaged
<1>5. Sectioned(d, n, F, L)
  BY <1>4 DEF Paged
<1> HIDE DEF c, d
<1>6. PlainChunks(c, d) \in Seq(Range(PlainChunks(c, d)))
  BY <1>2, <1>5, PlainChunksAre
<1> QED BY <1>2, <1>3, <1>6 DEF c, d

\* eligible_units are units.
LEMMA EligibleAre ==
    ASSUME page \in Pages, document = ExtractDocument(page)
    PROVE  EligibleUnits \in Seq(Range(Units))
<1> DEFINE S == Range(Units)
           units == Units
           places == {i \in DOMAIN units : Len(units[i].text) >= MinUnitTokens}
           long == Picked(units, places)
           k == Min({Len(long), MaxUnits})
<1>1. units \in Seq(S)
  BY UnitsAre
<1>2. EligibleUnits = SubSeq(long, 1, k)
  BY DEF EligibleUnits, Units
<1>3. places \subseteq DOMAIN units
  OBVIOUS
<1> HIDE DEF S, units, places
<1>4. long \in Seq(S)
  BY <1>1, <1>3, PickedIs
<1> HIDE DEF long
<1> DEFINE l == Len(long)
<1>5. l \in Int /\ MaxUnits \in Int
  BY <1>4, GenerationAssumption
<1>6. k <= l /\ k \in Int
  <2> HIDE DEF l
  <2>1. Min({l, MaxUnits}) = IF l <= MaxUnits THEN l ELSE MaxUnits
    BY <1>5, MinOfTwo
  <2> QED BY <1>5, <2>1 DEF l
<1> HIDE DEF k
<1>7. SubSeq(long, 1, k) \in Seq(S)
  <2>1. 1 \in Nat \ {0}
    OBVIOUS
  <2> QED BY <1>4, <1>6, <2>1, PartIs
<1> QED BY <1>2, <1>7 DEF S

\* The queries of a run are its units'.
LEMMA GoldIs ==
    ASSUME page \in Pages, document = ExtractDocument(page), Generate \/ GenerateHeuristic
    PROVE  gold' \in Seq(Range(Units))
<1> DEFINE S == Range(Units)
           units == EligibleUnits
<1>1. units \in Seq(S)
  BY EligibleAre
<1>2. \E places \in SUBSET DOMAIN units : gold' = Picked(units, places)
  <2>1. CASE Generate
    BY <2>1 DEF Generate
  <2>2. CASE GenerateHeuristic
    <3>1. \E template \in [DOMAIN units -> Templates], kept \in SUBSET DOMAIN units :
            gold' = Picked(units, Fresh(units, template) \cap kept)
      BY <2>2 DEF GenerateHeuristic
    <3> QED BY <3>1
  <2> QED BY <2>1, <2>2
<1> HIDE DEF S, units
<1>3. PICK places \in SUBSET DOMAIN units : gold' = Picked(units, places)
  BY <1>2
<1>4. gold' \in Seq(S)
  BY <1>1, <1>3, PickedIs
<1> QED BY <1>4 DEF S

\* Nothing is computed at first.
LEMMA JInvInit == Init => JInv
BY DEF Init, JInv, Chunked

\* Each step computes its part from what is there, and leaves the rest.
LEMMA JInvNext == JInv /\ [Next]_vars => JInv'
<1> SUFFICES ASSUME JInv, [Next]_vars PROVE JInv'
  OBVIOUS
<1> USE DEF JInv, Chunked
<1>1. CASE Extract
  BY <1>1 DEF Extract
<1>2. CASE Chunk
  BY <1>2 DEF Chunk
<1>3. CASE Generate \/ GenerateHeuristic
  <2>1. /\ phase = "chunked" /\ phase' = "asked"
        /\ UNCHANGED <<page, chunker, document, chunks, judged>>
    BY <1>3 DEF Generate, GenerateHeuristic
  <2>2. gold' \in Seq(Range(Units)) /\ Units' = Units
    BY <1>3, <2>1, GoldIs DEF Units
  <2> QED BY <2>1, <2>2
<1>4. CASE Project
  BY <1>4 DEF Project, ProjectQuery, Units
<1>5. CASE UNCHANGED vars
  BY <1>5 DEF vars, ProjectQuery, Units
<1> QED BY <1>1, <1>2, <1>3, <1>4, <1>5 DEF Next

\* The document is the page's, the chunks the chunker's, the queries the units' and the judgements
\* the projector's, in every state (ExperimentHarness.run, generate_query_set, project_query_set).
THEOREM JudgingInvariant == Spec => []JInv
<1>1. Init => JInv
  BY JInvInit
<1>2. JInv /\ [Next]_vars => JInv'
  BY JInvNext
<1> QED BY <1>1, <1>2, PTL DEF Spec

\* Chunks leave no word out, are runs of them, and spell each as it was but for line ends and the
\* closing marks behind a sentence (split_sentences, ParentChildChunker.chunk and the rest).
THEOREM WordsKeptHolds == Spec => []WordsKept
<1>1. JInv => WordsKept
  <2> SUFFICES ASSUME JInv PROVE WordsKept
    OBVIOUS
  <2>1. CASE Chunked
    <3>1. page \in Pages /\ chunker \in Chunkers /\ document = ExtractDocument(page)
          /\ chunks = ChunksOf(chunker, document)
      BY <2>1 DEF JInv, Chunked
    <3> QED BY <3>1, WordsAreKept
  <2>2. CASE ~Chunked
    BY <2>2 DEF WordsKept
  <2> QED BY <2>1, <2>2
<1> QED BY <1>1, JudgingInvariant, PTL

\* The heading path of a chunk is that of each of its words (extract_sections, _push).
THEOREM PathsHold == Spec => []PathsAreAncestors
<1>1. JInv => PathsAreAncestors
  <2> SUFFICES ASSUME JInv PROVE PathsAreAncestors
    OBVIOUS
  <2>1. CASE Chunked
    <3>1. page \in Pages /\ chunker \in Chunkers /\ document = ExtractDocument(page)
          /\ chunks = ChunksOf(chunker, document)
      BY <2>1 DEF JInv, Chunked
    <3> QED BY <3>1, PathsAreRight
  <2>2. CASE ~Chunked
    BY <2>2 DEF PathsAreAncestors
  <2> QED BY <2>1, <2>2
<1> QED BY <1>1, JudgingInvariant, PTL

-----------------------------------------------------------------------------
(* What covers a passage.                                                  *)

\* The words of a passage p to q are another text's, d places on: its last may be without the
\* closing mark it has there.
Matches(ws, vs, p, q, d) ==
    \A i \in p..q : ws[i] = vs[i + d] \/ (i = q /\ ws[i] = Unmarked(vs[i + d]))

\* A part of a passage occurs in a run around its place.
LEMMA OccursRun ==
    ASSUME NEW ws, NEW vs, NEW p \in Nat, NEW q \in Int, NEW d \in Int, Matches(ws, vs, p, q, d),
           NEW f \in Nat, NEW t \in Int, p <= f, f - 1 <= t, t <= q,
           NEW a \in Nat, NEW b \in Int, a - 1 <= b, a <= f + d, t + d <= b
    PROVE  Occurs(ws, Run(f, t), vs, Run(a, b))
<1> DEFINE s == Run(f, t)
           text == Run(a, b)
           i == f + d - a
<1>1. /\ Len(s) = t - f + 1 /\ DOMAIN s = 1..(t - f + 1)
      /\ \A k \in 1..(t - f + 1) : s[k] = f + k - 1
  BY RunIs
<1>2. Len(text) = b - a + 1 /\ \A k \in 1..(b - a + 1) : text[k] = a + k - 1
  BY RunIs
<1>3. i \in 0..(b - a + 1) /\ i + (t - f + 1) <= b - a + 1
  OBVIOUS
<1> HIDE DEF s, text
<1>4. ASSUME NEW k \in DOMAIN s
      PROVE  LET w == vs[text[i + k]]
             IN ws[s[k]] = w \/ (k = Len(s) /\ ws[s[k]] = Unmarked(w))
  <2> DEFINE j == f + k - 1
  <2>1. k \in 1..(t - f + 1) /\ s[k] = j /\ j \in p..q /\ (j = q => k = t - f + 1)
    BY <1>1
  <2>2. i + k \in 1..(b - a + 1) /\ a + (i + k) - 1 = j + d
    BY <2>1
  <2>3. text[i + k] = j + d
    BY <1>2, <2>2
  <2> HIDE DEF i, j
  <2>4. ws[j] = vs[j + d] \/ (j = q /\ ws[j] = Unmarked(vs[j + d]))
    BY <2>1 DEF Matches
  <2> QED BY <1>1, <2>1, <2>3, <2>4
<1>5. i \in 0..Len(text) /\ i + Len(s) <= Len(text)
  BY <1>1, <1>2, <1>3
<1> HIDE DEF i
<1>6. OccursAt(ws, s, vs, text, i)
  BY <1>4, <1>5 DEF OccursAt
<1> QED BY <1>5, <1>6 DEF Occurs, s, text

\* A share of a number that is less than half of it
LEMMA HalfOf ==
    ASSUME NEW n \in Nat, NEW k \in Nat, n <= 2 * k, MinCoverage <= 50
    PROVE  MinCoverage * n <= 100 * k
<1>1. MinCoverage \in 1..100
  BY CoverageAssumption
<1>2. MinCoverage * n <= 50 * n
  <2> DEFINE T == {i \in 0..n : MinCoverage * i <= 50 * i}
  <2>1. 0 \in T
    BY <1>1
  <2>2. ASSUME NEW i \in 0..(n - 1), i \in T PROVE i + 1 \in T
    <3>1. MinCoverage * i <= 50 * i /\ i \in Nat /\ i + 1 \in 0..n
      BY <2>2
    <3> DEFINE x == MinCoverage * i
    <3>2. MinCoverage * (i + 1) = x + MinCoverage /\ 50 * (i + 1) = 50 * i + 50 /\ x \in Int
      BY <1>1, <3>1
    <3> HIDE DEF x
    <3>3. x <= 50 * i
      BY <3>1 DEF x
    <3> QED BY <1>1, <3>1, <3>2, <3>3
  <2> HIDE DEF T
  <2>3. 0..n \subseteq T
    BY <2>1, <2>2, Climb
  <2>4. n \in 0..n
    OBVIOUS
  <2> QED BY <2>3, <2>4 DEF T
<1> DEFINE x == MinCoverage * n
<1>3. x \in Int
  BY <1>1
<1> HIDE DEF x
<1>4. x <= 50 * n
  BY <1>2 DEF x
<1>5. x <= 100 * k
  BY <1>3, <1>4
<1> QED BY <1>5 DEF x

\* Half of a passage, from its begin or to its end, is coverage enough.
Part(ws, vs, k, p, q, text) ==
    \/ Occurs(ws, Run(p, p + k - 1), vs, text)
    \/ Occurs(ws, Run(q - k + 1, q), vs, text)

\* A chunk with half of a passage at one of its ends covers it (_covers).
LEMMA HalfCovers ==
    ASSUME NEW chunk, NEW span, NEW p \in Nat, NEW q \in Nat, p <= q,
           span.text = Run(p, q), NEW k \in 0..(q - p + 1), q - p + 1 <= 2 * k, MinCoverage <= 50,
           Part(span.words, chunk.words, k, p, q, chunk.text)
    PROVE  Covers(chunk, span)
<1> DEFINE n == q - p + 1
           passage == span.text
           text == chunk.text
           ws == span.words
           vs == chunk.words
           S == {j \in 0..n : \/ Occurs(ws, SubSeq(passage, 1, j), vs, text)
                              \/ Occurs(ws, SubSeq(passage, n - j + 1, n), vs, text)}
<1>1. Len(passage) = n /\ n \in Nat
  <2>1. q \in Int /\ p - 1 <= q
    OBVIOUS
  <2>2. n \in Nat
    OBVIOUS
  <2>3. Len(passage) = n
    BY <2>1, RunIs
  <2> QED BY <2>2, <2>3
<1>2. k \in S
  <2> DEFINE lo == n - k + 1
  <2>1. p \in Nat /\ q \in Int /\ p - 1 <= q
    OBVIOUS
  <2>2. SubSeq(Run(p, q), 1, k) = Run(p, p + k - 1)
    <3>1. 1 \in Nat \ {0} /\ k \in Nat /\ 1 - 1 <= k /\ k <= q - p + 1 /\ p + 1 - 1 = p
      OBVIOUS
    <3>2. SubSeq(Run(p, q), 1, k) = Run(p + 1 - 1, p + k - 1)
      BY <2>1, <3>1, RunPart
    <3> QED BY <3>1, <3>2
  <2>3. SubSeq(Run(p, q), lo, n) = Run(q - k + 1, q)
    <3>1. lo \in Nat \ {0} /\ n \in Nat /\ lo - 1 <= n /\ n <= q - p + 1
          /\ p + lo - 1 = q - k + 1 /\ p + n - 1 = q
      OBVIOUS
    <3> HIDE DEF lo, n
    <3>2. SubSeq(Run(p, q), lo, n) = Run(p + lo - 1, p + n - 1)
      BY <2>1, <3>1, RunPart
    <3> QED BY <3>1, <3>2
  <2> HIDE DEF lo
  <2> HIDE DEF n
  <2>4. \/ Occurs(ws, SubSeq(passage, 1, k), vs, text)
        \/ Occurs(ws, SubSeq(passage, lo, n), vs, text)
    BY <2>2, <2>3 DEF Part
  <2>5. k \in 0..n
    BY DEF n
  <2> QED BY <2>4, <2>5 DEF lo
<1>3. PrefixCoverage(chunk, span) = Max(S)
  <2> HIDE DEF n
  <2> QED BY <1>1 DEF PrefixCoverage
<1>4. S \subseteq 0..n /\ S # {}
  BY <1>2
<1> HIDE DEF S, n, passage, text, ws, vs
<1> DEFINE m == Max(S)
<1>5. m \in S /\ m >= k
  BY <1>1, <1>2, <1>4, MaxIs
<1> HIDE DEF m
<1>6. m \in Nat /\ k \in Nat /\ n <= 2 * m
  <2>1. m \in 0..n /\ k \in Nat /\ n <= 2 * k
    BY <1>4, <1>5 DEF n
  <2> QED BY <1>1, <1>5, <2>1
<1>7. MinCoverage * n <= 100 * m
  BY <1>1, <1>6, HalfOf
<1>8. 100 * PrefixCoverage(chunk, span) >= MinCoverage * Len(passage)
  <2> DEFINE x == MinCoverage * n
  <2>1. x \in Int
    BY <1>1, CoverageAssumption
  <2> HIDE DEF x
  <2>2. x <= 100 * m
    BY <1>7 DEF x
  <2>3. 100 * m >= x
    BY <1>6, <2>1, <2>2
  <2> QED BY <1>1, <1>3, <2>3 DEF m, x
<1> QED BY <1>8 DEF Covers, passage

\* Two runs that have the place of a passage between them: one covers it.
LEMMA TwoCover ==
    ASSUME NEW span, NEW p \in Nat, NEW q \in Nat, p <= q, span.text = Run(p, q),
           MinCoverage <= 50, NEW d \in Int,
           NEW x, NEW a \in Nat, NEW b \in Int, x.text = Run(a, b), a <= p + d, p + d - 1 <= b,
           NEW y, NEW f \in Nat, NEW t \in Int, y.text = Run(f, t), f <= b + 1, b <= t,
           q + d <= t, b < q + d,
           Matches(span.words, x.words, p, q, d), Matches(span.words, y.words, p, q, d)
    PROVE  Covers(x, span) \/ Covers(y, span)
<1> DEFINE n == q - p + 1
           k == b - d - p + 1
           g == IF f <= p + d THEN p ELSE f - d
           l == q - g + 1
<1>1. k \in 0..n /\ a - 1 <= b /\ p - 1 <= b - d /\ b - d <= q /\ b - d \in Int /\ (b - d) + d <= b
  OBVIOUS
<1>2. l \in 0..n /\ f - 1 <= t /\ f <= g + d /\ g \in Nat /\ g - 1 <= q /\ p <= g /\ q \in Int
  <2>1. CASE f <= p + d
    BY <2>1
  <2>2. CASE ~(f <= p + d)
    BY <2>2
  <2> QED BY <2>1, <2>2
<1>3. n <= k + l
  <2>1. CASE f <= p + d
    BY <2>1
  <2>2. CASE ~(f <= p + d)
    BY <2>2
  <2> QED BY <2>1, <2>2
<1>4. n <= 2 * k \/ n <= 2 * l
  <2> HIDE DEF n, k, l
  <2>1. n \in Int /\ k \in Int /\ l \in Int
    <3>1. n \in Int
      BY DEF n
    <3> QED BY <1>1, <1>2, <3>1
  <2> QED BY <1>3, <2>1
<1>5. Occurs(span.words, Run(p, b - d), x.words, x.text)
  <2> DEFINE e == b - d
  <2>1. e \in Int /\ p - 1 <= e /\ e <= q /\ e + d <= b /\ p <= p
    BY <1>1
  <2> HIDE DEF e
  <2> QED BY <1>1, <2>1, OccursRun DEF e
<1>6. Occurs(span.words, Run(g, q), y.words, y.text)
  <2>1. q <= q
    OBVIOUS
  <2> HIDE DEF g
  <2> QED BY <1>2, <2>1, OccursRun
<1>7. p + k - 1 = b - d /\ q - l + 1 = g
  <2> HIDE DEF g
  <2> QED BY <1>2
<1>8. Part(span.words, x.words, k, p, q, x.text)
  BY <1>5, <1>7 DEF Part
<1>9. Part(span.words, y.words, l, p, q, y.text)
  BY <1>6, <1>7 DEF Part
<1> HIDE DEF k, l
<1>10. CASE n <= 2 * k
  BY <1>1, <1>8, <1>10, HalfCovers
<1>11. CASE n <= 2 * l
  BY <1>2, <1>9, <1>11, HalfCovers
<1> QED BY <1>4, <1>10, <1>11

\* A run around the place of a passage covers it.
LEMMA OneCovers ==
    ASSUME NEW span, NEW p \in Nat, NEW q \in Nat, p <= q, span.text = Run(p, q), NEW d \in Int,
           NEW x, NEW a \in Nat, NEW b \in Int, x.text = Run(a, b), a <= p + d, q + d <= b,
           Matches(span.words, x.words, p, q, d)
    PROVE  Covers(x, span)
<1>1. a - 1 <= b /\ p - 1 <= q /\ p <= p /\ q <= q /\ q \in Int
  OBVIOUS
<1>2. Occurs(span.words, span.text, x.words, x.text)
  BY <1>1, OccursRun
<1> QED BY <1>2 DEF Covers

\* Of the windows of a text, one covers a passage no longer than a window.
LEMMA FixedFound ==
    ASSUME NEW b \in Nat, NEW ch, ch.size \in Nat \ {0}, ch.overlap \in 0..(ch.size - 1),
           NEW words, 1..b \subseteq DOMAIN words,
           NEW span, NEW p \in Nat \ {0}, NEW q \in Nat, p <= q, span.text = Run(p, q),
           NEW d \in Int, 1 <= p + d, q + d <= b, Matches(span.words, Windowed(words), p, q, d),
           q - p + 1 <= ch.size, MinCoverage <= 50
    PROVE  \E x \in Range(FixedChunks(ch, words, Run(1, b))) : Covers(x, span)
<1> DEFINE out == FixedChunks(ch, words, Run(1, b))
           size == ch.size
           o == ch.overlap
           step == size - o
<1>1. 1 \in Nat \ {0} /\ 1 <= b /\ b - 1 + 1 = b /\ b \in Nat \ {0}
  OBVIOUS
<1>2. PICK W, e : WindowsOf(ch, words, 1, b, W, e)
  BY <1>1, FixedChunksAre
<1>3. /\ WindowStarts(b, size, step, W, e)
      /\ out = [k \in 1..(W + 1) |-> Window(words, Run(1, b), 1, b, size, W, e, k - 1)]
  BY <1>1, <1>2 DEF WindowsOf
<1>4. size \in Nat \ {0} /\ step \in 1..size /\ q - p + 1 <= size
  <2>1. size \in Nat \ {0} /\ o \in 0..(size - 1) /\ q - p + 1 <= size
    OBVIOUS
  <2> HIDE DEF size, o
  <2>2. step \in 1..size
    BY <2>1
  <2> QED BY <2>1, <2>2
<1> HIDE DEF out, size, o, step
<1>5. /\ W \in Nat /\ e \in [0..W -> Nat] /\ e[0] = 0
      /\ \A k \in 1..W : e[k] = e[k - 1] + step
      /\ \A k \in 0..(W - 1) : e[k] + size < b
      /\ e[W] + size >= b
  BY <1>3 DEF WindowStarts
<1> DEFINE To(k) == IF k = W THEN b ELSE e[k] + size
           X(k) == Window(words, Run(1, b), 1, b, size, W, e, k)
<1>6. ASSUME NEW k \in 0..W
      PROVE  /\ X(k) \in Range(out) /\ X(k).text = Run(1 + e[k], To(k))
             /\ Matches(span.words, X(k).words, p, q, d)
             /\ e[k] \in Nat /\ To(k) \in Nat /\ e[k] < To(k)
  <2>1. e[k] \in 0..(b - 1) /\ To(k) \in (e[k] + 1)..b
    BY <1>1, <1>3, <1>4, WindowIn
  <2>2. k + 1 \in 1..(W + 1) /\ (k + 1) - 1 = k
    BY <1>5
  <2>3. DOMAIN out = 1..(W + 1) /\ out[k + 1] = X(k)
    BY <1>3, <2>2
  <2>4. X(k) \in Range(out)
    BY <2>2, <2>3 DEF Range
  <2> HIDE DEF To
  <2> DEFINE hi == To(k)
  <2>5. X(k).text = Run(1 + e[k], 1 + hi - 1) /\ X(k).words = Windowed(words)
    BY ChunkIs DEF Window, To
  <2> HIDE DEF hi
  <2>6. hi \in Nat /\ 1 + hi - 1 = hi /\ e[k] \in Nat /\ e[k] < hi
    BY <1>1, <2>1 DEF hi
  <2> QED BY <2>4, <2>5, <2>6 DEF hi
<1> HIDE DEF X
<1> DEFINE S == {k \in 0..W : 1 + e[k] <= p + d}
           g == Max(S)
<1>7. S \subseteq 0..W /\ 0 \in S
  BY <1>5
<1>8. g \in S /\ \A k \in S : g >= k
  <2> HIDE DEF S
  <2> QED BY <1>5, <1>7, MaxIs
<1> HIDE DEF g
<1>9. g \in 0..W /\ 1 + e[g] <= p + d
  BY <1>8
<1>10. CASE q + d <= To(g)
  <2> DEFINE x == X(g)
             f == 1 + e[g]
             t == To(g)
  <2>1. x.text = Run(f, t) /\ f \in Nat /\ t \in Int /\ f <= p + d /\ q + d <= t
          /\ Matches(span.words, x.words, p, q, d)
    BY <1>6, <1>9, <1>10
  <2> HIDE DEF x, f, t
  <2>2. p \in Nat
    OBVIOUS
  <2>3. Covers(x, span)
    BY <2>1, <2>2, OneCovers
  <2> QED BY <1>6, <1>9, <2>3 DEF x, out
<1>11. CASE ~(q + d <= To(g))
  <2>1. To(g) \in Nat /\ To(g) < q + d /\ e[g] \in Nat
    BY <1>6, <1>9, <1>11
  <2>2. g # W
    BY <2>1
  <2>3. g \in 0..(W - 1) /\ g + 1 \in 1..W /\ g + 1 \in 0..W /\ (g + 1) - 1 = g
    BY <1>5, <1>9, <2>2
  <2>4. e[g + 1] = e[g] + step /\ e[g + 1] \in Nat /\ To(g) = e[g] + size
    BY <1>5, <2>2, <2>3
  <2>5. ~(1 + e[g + 1] <= p + d)
    <3>1. g + 1 \notin S
      <4>1. ~(g >= g + 1)
        BY <1>9
      <4> QED BY <1>8, <4>1
    <3> QED BY <2>3, <3>1
  <2>6. q + d <= To(g + 1)
    <3>1. CASE g + 1 = W
      BY <3>1
    <3>2. CASE g + 1 # W
      <4>1. To(g + 1) = e[g + 1] + size
        BY <3>2
      <4> DEFINE u == e[g + 1]
      <4>2. u \in Nat /\ ~(1 + u <= p + d)
        BY <2>4, <2>5
      <4> HIDE DEF u
      <4>3. q + d <= u + size
        BY <1>4, <4>2
      <4> QED BY <4>1, <4>3 DEF u
    <3> QED BY <3>1, <3>2
  <2> DEFINE x == X(g)
             y == X(g + 1)
             a == 1 + e[g]
             z == To(g)
             f == 1 + e[g + 1]
             t == To(g + 1)
             eg == e[g]
  <2>7. x.text = Run(a, z) /\ y.text = Run(f, t) /\ t \in Nat
        /\ Matches(span.words, x.words, p, q, d) /\ Matches(span.words, y.words, p, q, d)
    BY <1>6, <1>9, <2>3
  <2>8. a \in Nat /\ z \in Int /\ a <= p + d /\ p + d - 1 <= z /\ f \in Nat /\ f <= z + 1
        /\ z < q + d /\ q + d <= t
    <3>1. eg \in Nat /\ a = 1 + eg /\ z = eg + size /\ f = 1 + (eg + step) /\ 1 + eg <= p + d
          /\ ~(f <= p + d) /\ z < q + d /\ q + d <= t
      BY <1>9, <2>1, <2>4, <2>5, <2>6
    <3> HIDE DEF a, z, f, t, eg
    <3> QED BY <1>4, <3>1
  <2>9. x \in Range(out) /\ y \in Range(out)
    BY <1>6, <1>9, <2>3
  <2> HIDE DEF x, y, a, z, f, t
  <2>10. t \in Int /\ z <= t /\ p \in Nat
    BY <2>7, <2>8
  <2>11. Covers(x, span) \/ Covers(y, span)
    BY <2>7, <2>8, <2>10, TwoCover
  <2> QED BY <2>9, <2>11 DEF out
<1> QED BY <1>10, <1>11

-----------------------------------------------------------------------------
(* Chunks of sections.                                                     *)

\* The chunk of some sentences of a section
InSection(d, F, L, i, x, lo, hi) ==
    /\ lo \in 1..Count(d.words, F[i], L[i]) /\ hi \in lo..Count(d.words, F[i], L[i])
    /\ x = Placed(d.words, d.sections[i], CutsOf(d.words, F[i], L[i]), lo, hi)

\* A chunk is of one section, at consecutive sentences.
LEMMA CutIn ==
    ASSUME NEW d, NEW n, NEW F, NEW L, Sectioned(d, n, F, L), NEW ch, Short(ch),
           NEW x, x \in Range(PlainChunks(ch, d))
    PROVE  \E i \in 1..n : \E lo, hi : InSection(d, F, L, i, x, lo, hi)
<1>1. Cutter(ch)
  BY DEF Short
<1>2. PICK i \in 1..n : x \in Range(SectionChunks(ch, d.words, d.sections[i]))
  BY <1>1, PlainChunksAre
<1> DEFINE a == F[i]
           b == L[i]
           sec == d.sections[i]
           words == d.words
           c == CutsOf(words, a, b)
           m == Count(words, a, b)
<1>3. a \in Nat \ {0} /\ b \in Nat /\ a - 1 <= b /\ sec.text = Run(a, b)
  BY DEF Sectioned
<1>4. x \in Range(SectionChunks(ch, words, sec))
  BY <1>2
<1> HIDE DEF a, b, sec, words
<1>5. Cuts(c, m, a - 1, b) /\ SplitSentences(words, sec.text) = Between(c, m)
  <2> HIDE DEF c, m
  <2> QED BY <1>3, CutsOfIs DEF c, m
<1> HIDE DEF c, m
<1>6. SectionCut(words, sec, c, m, SectionChunks(ch, words, sec))
  BY <1>5, SectionChunksAre
<1>7. PICK lo \in 1..m : \E hi \in lo..m : x = Placed(words, sec, c, lo, hi)
  BY <1>4, <1>6 DEF SectionCut
<1>8. PICK hi \in lo..m : x = Placed(words, sec, c, lo, hi)
  BY <1>7
<1>9. InSection(d, F, L, i, x, lo, hi)
  BY <1>8 DEF InSection, a, b, sec, words, c, m
<1> QED BY <1>9

\* The sentences lo to hi of a span are no longer than max.
CutOf(words, a, b, c, m) == c = CutsOf(words, a, b) /\ m = Count(words, a, b)
Fits(span, c, lo, hi, max) ==
    span.text = Run(c[lo - 1] + 1, c[hi]) /\ c[hi] - c[lo - 1] <= max
Takes(ch, max, keep) ==
    ch.name = "sentence" /\ ch.max = max /\ ch.overlap = keep

\* The chunks of a section, by sentences that share one with the next or none
GroupedAt(words, sec, c, m, max, keep, out, h, n) ==
    /\ Cuts(h, n, 0, m) /\ Greedy(c, max, h, n, keep)
    /\ \A g \in 1..n : Placed(words, sec, c, Lo(h, keep, g), h[g]) \in Range(out)

\* The chunks of a section are packed greedily.
LEMMA GroupsIn ==
    ASSUME NEW words, NEW sec, NEW a \in Nat \ {0}, NEW b \in Nat, a <= b, TextIs(sec, a, b),
           NEW ch, NEW max \in Int, NEW keep \in {0, 1}, Takes(ch, max, keep),
           NEW c, NEW m, CutOf(words, a, b, c, m)
    PROVE  \E h, n : GroupedAt(words, sec, c, m, max, keep, SectionChunks(ch, words, sec), h, n)
<1> DEFINE ss == Between(c, m)
           groups == SentenceGroups(ch, ss)
           out == SectionChunks(ch, words, sec)
<1>1. Cuts(c, m, a - 1, b) /\ SplitSentences(words, Run(a, b)) = ss /\ m # 0
  <2>1. a - 1 <= b
    OBVIOUS
  <2> HIDE DEF ss
  <2> QED BY <2>1, CutsOfIs DEF ss, CutOf
<1>7. ch.name = "sentence" /\ ch.max = max /\ ch.overlap = keep
  BY DEF Takes
<1>2. m \in Nat
  BY <1>1 DEF Cuts
<1>3. PICK h, n : Grouped(groups, h, n, keep, 1, m) /\ Greedy(c, max, h, n, keep)
  <2>1. \E h, n : Grouped(groups, h, n, ch.overlap, 1, m) /\ Greedy(c, ch.max, h, n, ch.overlap)
    <3>1. ch.max \in Int /\ ch.overlap \in {0, 1}
      BY <1>7
    <3> HIDE DEF ss
    <3> QED BY <1>1, <1>7, <3>1, SentenceGroupsAre DEF ss
  <2> HIDE DEF groups
  <2> QED BY <1>7, <2>1
<1> HIDE DEF groups, ss
<1>4. /\ Cuts(h, n, 0, m) /\ groups \in Seq(Seq(Nat)) /\ Len(groups) = n
      /\ \A g \in 1..n : groups[g] = Run(Lo(h, keep, g), h[g])
  <2>1. 1 - 1 = 0
    OBVIOUS
  <2> QED BY <1>3, <2>1 DEF Grouped
<1>5. Grouping(words, sec, c, m, groups, out)
  <2>1. groups = IF ch.name = "sentence" THEN SentenceGroups(ch, Between(c, m))
                 ELSE SemanticGroups(ch, Between(c, m))
    BY <1>7 DEF groups, ss
  <2>2. SplitSentences(words, sec.text) = Between(c, m)
    BY <1>1 DEF ss, TextIs
  <2> QED BY <1>1, <1>4, <2>1, <2>2, GroupChunks
<1> HIDE DEF out
<1>6. ASSUME NEW g \in 1..n PROVE Placed(words, sec, c, Lo(h, keep, g), h[g]) \in Range(out)
  <2> DEFINE lo == Lo(h, keep, g)
             hi == h[g]
  <2>1. hi \in 1..m /\ lo \in 1..hi
    <3>1. 1 \in Nat \ {0} /\ Cuts(h, n, 1 - 1, m)
      BY <1>4
    <3> QED BY <3>1, LoIs
  <2>2. lo \in 1..m /\ lo <= hi /\ groups[g] = Run(lo, hi)
    BY <1>2, <1>4, <2>1
  <2> HIDE DEF lo, hi
  <2>3. out[g] = Placed(words, sec, c, lo, hi)
    BY <1>4, <1>5, <2>1, <2>2 DEF Grouping
  <2>4. out[g] \in Range(out)
    <3>1. out \in Seq(Range(out)) /\ Len(out) = n
      BY <1>4, <1>5 DEF Grouping
    <3> QED BY <3>1, RangeIs
  <2> QED BY <2>3, <2>4 DEF lo, hi
<1> QED BY <1>3, <1>4, <1>6 DEF out, GroupedAt

\* Later cuts lie further on.
Grows(c, m) ==
    m \in Nat /\ c \in [0..m -> Nat] /\ \A j, k \in 0..m : j < k => c[j] < c[k]

\* Cuts grow.
LEMMA GrowsUp ==
    ASSUME NEW c, NEW m, Grows(c, m), NEW j \in 0..m, NEW k \in 0..m, j <= k
    PROVE  c[j] \in Nat /\ c[k] \in Nat /\ c[j] <= c[k]
<1> DEFINE u == c[j]
           v == c[k]
<1>1. u \in Nat /\ v \in Nat
  BY DEF Grows
<1>2. CASE j = k
  BY <1>1, <1>2
<1>3. CASE j < k
  <2>1. u < v
    BY <1>3 DEF Grows
  <2> HIDE DEF u, v
  <2>2. u <= v
    BY <1>1, <2>1
  <2> QED BY <1>1, <2>2 DEF u, v
<1> QED BY <1>2, <1>3 DEF Grows

\* Of those chunks, one covers a passage no longer than a chunk may be.
LEMMA SentenceFound ==
    ASSUME NEW words, NEW sec, NEW a \in Nat \ {0}, NEW b \in Nat, a <= b, TextIs(sec, a, b),
           NEW ch, NEW max \in Int, NEW keep \in {0, 1}, Takes(ch, max, keep),
           NEW c, NEW m, CutOf(words, a, b, c, m),
           NEW lo \in 1..m, NEW hi \in lo..m,
           NEW span, Fits(span, c, lo, hi, max), span.words = Respelled(words, sec.text),
           MinCoverage <= 50
    PROVE  \E x \in Range(SectionChunks(ch, words, sec)) : Covers(x, span)
<1> DEFINE out == SectionChunks(ch, words, sec)
<1>2. Cuts(c, m, a - 1, b)
  <2>1. a - 1 <= b
    OBVIOUS
  <2> QED BY <2>1, CutsOfIs DEF CutOf
<1>18. PICK h, n : GroupedAt(words, sec, c, m, max, keep, out, h, n)
  BY GroupsIn
<1> HIDE DEF out
<1>3. /\ Cuts(h, n, 0, m) /\ Greedy(c, max, h, n, keep)
      /\ \A g \in 1..n : Placed(words, sec, c, Lo(h, keep, g), h[g]) \in Range(out)
  BY <1>18 DEF GroupedAt
<1>5. m \in Nat /\ c \in [0..m -> Nat] /\ \A j, k \in 0..m : j < k => c[j] < c[k]
  BY <1>2, CutsGrow DEF Cuts
<1>17. Grows(c, m)
  BY <1>5 DEF Grows
<1>6. n \in Nat /\ h \in [0..n -> Nat] /\ h[0] = 0 /\ h[n] = m
  BY <1>3 DEF Cuts
<1> DEFINE P(g) == Placed(words, sec, c, Lo(h, keep, g), h[g])
<1>7. ASSUME NEW g \in 1..n
      PROVE  /\ h[g] \in 1..m /\ Lo(h, keep, g) \in 1..h[g]
             /\ P(g) \in Range(out) /\ P(g).text = Run(c[Lo(h, keep, g) - 1] + 1, c[h[g]])
             /\ P(g).words = span.words
  <2>1. h[g] \in 1..m /\ Lo(h, keep, g) \in 1..h[g]
    <3>1. 1 \in Nat \ {0} /\ Cuts(h, n, 1 - 1, m)
      BY <1>3
    <3> QED BY <3>1, LoIs
  <2> DEFINE l == Lo(h, keep, g)
             k == h[g]
  <2>2. l \in 1..m /\ k \in l..m
    BY <1>5, <2>1
  <2> HIDE DEF l, k
  <2>3. Placed(words, sec, c, l, k).text = Run(c[l - 1] + 1, c[k])
        /\ Placed(words, sec, c, l, k).words = span.words
    BY <1>2, <2>2, PlacedIs
  <2> QED BY <1>3, <2>1, <2>3 DEF l, k
<1>8. PICK g \in 1..n : h[g - 1] < lo /\ lo <= h[g]
  <2>1. lo \in Nat /\ 0 < lo /\ lo <= m
    BY <1>5
  <2> QED BY <1>3, <2>1, CutsCover
<1> DEFINE l == Lo(h, keep, g)
           k == h[g]
           p == c[lo - 1] + 1
           q == c[hi]
<1>9. k \in 1..m /\ l \in 1..k /\ l <= lo /\ lo <= k
  <2>1. l <= h[g - 1] + 1 /\ h[g - 1] \in Nat
    <3>1. 1 \in Nat \ {0} /\ Cuts(h, n, 1 - 1, m)
      BY <1>3
    <3> QED BY <3>1, LoIs
  <2>2. k \in 1..m /\ l \in 1..k
    BY <1>7
  <2> HIDE DEF l, k
  <2>3. lo <= k
    BY <1>8 DEF k
  <2> DEFINE u == h[g - 1]
  <2>5. l <= u + 1 /\ u \in Nat /\ u < lo /\ l \in 1..k
    BY <1>8, <2>1, <2>2
  <2> HIDE DEF u
  <2>4. l <= lo
    BY <1>5, <2>2, <2>5
  <2> QED BY <2>2, <2>3, <2>4
<1>10. lo - 1 \in 0..m /\ hi \in 0..m /\ lo - 1 < hi
  BY <1>5
<1>11. p \in Nat \ {0} /\ q \in Nat /\ p <= q /\ p - 1 = c[lo - 1]
  <2> DEFINE u == c[lo - 1]
             v == c[hi]
  <2>1. u \in Nat /\ v \in Nat /\ u < v
    BY <1>5, <1>10
  <2>2. p = u + 1 /\ q = v
    OBVIOUS
  <2> HIDE DEF u, v, p, q
  <2>3. p \in Nat \ {0} /\ q \in Nat /\ p <= q /\ p - 1 = u
    BY <2>1, <2>2
  <2> QED BY <2>3 DEF u
<1> DEFINE x == P(g)
           f == c[l - 1] + 1
           t == c[k]
<1> HIDE DEF l, k
<1>12. x.text = Run(f, t) /\ x \in Range(out) /\ x.words = span.words
  BY <1>7 DEF l, k
<1>13. f \in Nat /\ t \in Nat /\ f <= p /\ p <= t
  <2>1. l - 1 \in 0..m /\ k \in 0..m /\ lo - 1 < k /\ (l - 1 = lo - 1 \/ l - 1 < lo - 1)
    BY <1>5, <1>9
  <2> DEFINE u == c[l - 1]
             v == c[lo - 1]
  <2>2. u \in Nat /\ v \in Nat /\ t \in Nat /\ v < t /\ u <= v
    <3>1. l - 1 <= lo - 1 /\ lo - 1 \in 0..m
      BY <1>5, <1>10, <2>1
    <3> QED BY <1>5, <1>17, <2>1, <3>1, GrowsUp
  <2>3. f = u + 1 /\ p = v + 1
    OBVIOUS
  <2> HIDE DEF u, v, f, t, p
  <2> QED BY <2>2, <2>3
<1>14. span.text = Run(p, q)
  BY DEF Fits
<1>19. Matches(span.words, span.words, p, q, 0) /\ p + 0 = p /\ q + 0 = q /\ 0 \in Int
  <2>1. \A j \in p..q : j + 0 = j
    BY <1>11
  <2> HIDE DEF p, q
  <2>2. p + 0 = p /\ q + 0 = q
    BY <1>11
  <2> QED BY <2>1, <2>2 DEF Matches
<1>15. CASE hi <= k
  <2>1. q <= t
    <3>1. hi = k \/ hi < k
      BY <1>5, <1>9, <1>15
    <3>2. k \in 0..m
      BY <1>5, <1>9
    <3> QED BY <1>5, <1>10, <3>1, <3>2
  <2> HIDE DEF x, f, t, p, q
  <2>2. p \in Nat /\ t \in Int
    BY <1>11, <1>13
  <2>3. Covers(x, span)
    BY <1>11, <1>12, <1>13, <1>14, <1>19, <2>1, <2>2, OneCovers
  <2> QED BY <1>12, <2>3 DEF out
<1>16. CASE ~(hi <= k)
  <2>1. k < hi /\ k \in 0..m
    BY <1>5, <1>9, <1>16
  <2>2. g # n
    BY <1>6, <2>1 DEF k
  <2>3. g + 1 \in 1..n /\ (g + 1) - 1 = g /\ g + 1 # 1
    BY <1>6, <2>2
  <2> DEFINE l2 == Lo(h, keep, g + 1)
             k2 == h[g + 1]
             y == P(g + 1)
             f2 == c[l2 - 1] + 1
             t2 == c[k2]
  <2>4. l2 = k + 1 - keep
    BY <2>3 DEF Lo, k
  <2>5. k2 \in 1..m /\ l2 \in 1..k2 /\ y \in Range(out) /\ y.text = Run(f2, t2)
        /\ y.words = span.words
    BY <1>7, <2>3
  <2>6. k < k2
    <3>1. g \in 0..n /\ g + 1 \in 0..n /\ g < g + 1
      BY <1>6, <2>3
    <3> QED BY <1>3, <3>1, CutsGrow DEF k
  <2> HIDE DEF l2, k2, y
  <2>7. l2 - 1 \in 0..m /\ k2 \in 0..m /\ lo - 1 <= l2 - 1 /\ l2 - 1 <= k
    <3>1. lo - 1 <= l2 - 1 /\ l2 - 1 <= k /\ l2 - 1 \in Nat
      BY <1>9, <2>4
    <3> QED BY <1>5, <2>1, <2>5, <3>1
  <2>8. hi <= k2
    <3>1. CASE g + 1 = n
      BY <1>5, <1>6, <3>1 DEF k2
    <3>2. CASE g + 1 # n
      <4>1. g + 1 \in 1..(n - 1)
        BY <1>6, <2>3, <3>2
      <4>2. c[k2 + 1] - c[l2 - 1] > max
        BY <1>3, <4>1 DEF Greedy, k2, l2
      <4>7. c[hi] - c[lo - 1] <= max
        BY DEF Fits
      <4>3. SUFFICES ASSUME k2 < hi PROVE FALSE
        BY <1>5, <2>5
      <4>4. k2 + 1 \in 0..m /\ k2 + 1 <= hi
        BY <1>5, <2>5, <4>3
      <4> DEFINE u == c[lo - 1]
                 v == c[l2 - 1]
                 w == c[k2 + 1]
                 z == c[hi]
      <4>5. w \in Nat /\ z \in Nat /\ w <= z
        BY <1>10, <1>17, <4>4, GrowsUp
      <4>6. u \in Nat /\ v \in Nat /\ u <= v
        BY <1>10, <1>17, <2>7, GrowsUp
      <4>8. w - v > max /\ z - u <= max
        BY <4>2, <4>7
      <4> HIDE DEF u, v, w, z
      <4> QED BY <4>5, <4>6, <4>8
    <3> QED BY <3>1, <3>2
  <2>9. /\ c[l2 - 1] \in Nat /\ c[k2] \in Nat /\ c[l2 - 1] <= c[k] /\ c[k] < c[k2] /\ c[k] < c[hi]
        /\ c[hi] <= c[k2]
    <3>1. c[l2 - 1] \in Nat /\ c[l2 - 1] <= c[k]
      BY <1>17, <2>1, <2>7, GrowsUp
    <3>2. c[k2] \in Nat /\ c[hi] <= c[k2]
      BY <1>10, <1>17, <2>7, <2>8, GrowsUp
    <3>3. c[k] < c[k2] /\ c[k] < c[hi]
      BY <1>5, <1>10, <2>1, <2>6, <2>7
    <3> QED BY <3>1, <3>2, <3>3
  <2>10. f2 \in Nat /\ t2 \in Nat /\ f2 <= t + 1 /\ t <= t2 /\ q <= t2 /\ t < q
    BY <1>13, <2>9
  <2> HIDE DEF x, f, t, p, q, f2, t2
  <2>11. p \in Nat /\ p - 1 <= t /\ t \in Int /\ t2 \in Int
    BY <1>11, <1>13, <2>10
  <2>12. Covers(x, span) \/ Covers(y, span)
    <3>1. y.text = Run(f2, t2)
      BY <2>5 DEF f2, t2
    <3> QED BY <1>11, <1>12, <1>13, <1>14, <1>19, <2>5, <2>10, <2>11, <3>1, TwoCover
  <2> QED BY <1>12, <2>5, <2>12 DEF out
<1> QED BY <1>15, <1>16

-----------------------------------------------------------------------------
(* Every passage is a run of sentences of one section.                     *)

Spans(words, sec, a, b, c, m, lo, hi, x) ==
    /\ a \in Nat \ {0} /\ b \in Nat /\ a <= b /\ sec.text = Run(a, b)
    /\ CutOf(words, a, b, c, m) /\ lo \in 1..m /\ hi \in lo..m
    /\ x = Placed(words, sec, c, lo, hi)

\* Every chunk of a chunker of sections is a run of sentences.
LEMMA SpanIn ==
    ASSUME NEW d, NEW n, NEW F, NEW L, Sectioned(d, n, F, L), NEW ch, Short(ch),
           NEW x, x \in Range(PlainChunks(ch, d))
    PROVE  \E i \in 1..n : \E c, m, lo, hi :
              Spans(d.words, d.sections[i], F[i], L[i], c, m, lo, hi, x)
<1>1. PICK i \in 1..n : \E lo, hi : InSection(d, F, L, i, x, lo, hi)
  BY CutIn
<1>2. PICK lo, hi : InSection(d, F, L, i, x, lo, hi)
  BY <1>1
<1> DEFINE a == F[i]
           b == L[i]
           sec == d.sections[i]
           words == d.words
           c == CutsOf(words, a, b)
           m == Count(words, a, b)
<1>3. /\ a \in Nat \ {0} /\ b \in Nat /\ a - 1 <= b /\ sec.text = Run(a, b)
  BY DEF Sectioned
<1>4. lo \in 1..m /\ hi \in lo..m /\ x = Placed(words, sec, c, lo, hi)
  BY <1>2 DEF InSection
<1>5. CutOf(words, a, b, c, m)
  BY DEF CutOf
<1> HIDE DEF a, b, sec, words, c, m
<1>6. Cuts(c, m, a - 1, b) /\ (a <= b <=> m # 0)
  BY <1>3, <1>5, CutsOfIs DEF CutOf
<1>7. a <= b
  <2>1. m \in Nat
    BY <1>6 DEF Cuts
  <2>2. m # 0
    BY <1>4, <2>1
  <2> QED BY <1>6, <2>2
<1>8. Spans(words, sec, a, b, c, m, lo, hi, x)
  BY <1>3, <1>4, <1>5, <1>7 DEF Spans
<1> QED BY <1>8 DEF a, b, sec, words

\* The words of such a chunk.
LEMMA SpansText ==
    ASSUME NEW words, NEW sec, NEW a, NEW b, NEW c, NEW m, NEW lo, NEW hi, NEW x,
           Spans(words, sec, a, b, c, m, lo, hi, x)
    PROVE  /\ Cuts(c, m, a - 1, b) /\ c[lo - 1] \in Nat /\ c[hi] \in Nat
           /\ a <= c[lo - 1] + 1 /\ c[lo - 1] < c[hi] /\ c[hi] <= b
           /\ x.text = Run(c[lo - 1] + 1, c[hi]) /\ Len(x.text) = c[hi] - c[lo - 1]
           /\ x.words = Respelled(words, sec.text)
<1>1. /\ a \in Nat \ {0} /\ b \in Nat /\ a - 1 <= b /\ lo \in 1..m /\ hi \in lo..m
      /\ x = Placed(words, sec, c, lo, hi) /\ CutOf(words, a, b, c, m)
  BY DEF Spans
<1>2. Cuts(c, m, a - 1, b)
  BY <1>1, CutsOfIs DEF CutOf
<1> DEFINE u == c[lo - 1]
           v == c[hi]
           w == c[lo]
<1>3. /\ u \in (a - 1)..b /\ v \in (a - 1)..b /\ w \in (a - 1)..b /\ u < w /\ w <= v
      /\ x.text = Run(u + 1, v) /\ x.words = Respelled(words, sec.text)
  BY <1>1, <1>2, PlacedIs
<1> HIDE DEF u, v, w
<1>4. u \in Nat /\ v \in Nat /\ a <= u + 1 /\ u < v /\ v <= b
  BY <1>1, <1>3
<1>5. Len(x.text) = v - u
  <2>1. u + 1 \in Nat /\ v \in Int /\ (u + 1) - 1 <= v /\ v - (u + 1) + 1 = v - u
    BY <1>4
  <2> QED BY <1>3, <2>1, RunIs
<1> QED BY <1>2, <1>3, <1>4, <1>5 DEF u, v

\* The longest passage a chunk of the chunker could hold
Limit(ch) == IF ch.name = "fixed" THEN ch.size ELSE ch.max

\* A passage that occurs in a text is there, some words on.
LEMMA MatchesAt ==
    ASSUME NEW ws, NEW vs, NEW p \in Nat \ {0}, NEW q \in Nat, p <= q, NEW top \in Nat,
           Occurs(ws, Run(p, q), vs, Run(1, top))
    PROVE  \E d \in Int : 1 <= p + d /\ q + d <= top /\ Matches(ws, vs, p, q, d)
<1> DEFINE s == Run(p, q)
           text == Run(1, top)
<1>1. /\ Len(s) = q - p + 1 /\ DOMAIN s = 1..(q - p + 1)
      /\ \A k \in 1..(q - p + 1) : s[k] = p + k - 1
  <2>1. p \in Nat /\ q \in Int /\ p - 1 <= q
    OBVIOUS
  <2> QED BY <2>1, RunIs
<1>2. Len(text) = top /\ \A k \in 1..top : text[k] = k
  <2>1. 1 \in Nat /\ top \in Int /\ 1 - 1 <= top /\ top - 1 + 1 = top
    OBVIOUS
  <2>2. Len(text) = top - 1 + 1 /\ \A k \in 1..(top - 1 + 1) : text[k] = 1 + k - 1
    BY <2>1, RunIs
  <2> HIDE DEF text
  <2> QED BY <2>1, <2>2
<1> HIDE DEF s, text
<1>3. PICK i \in 0..top : OccursAt(ws, s, vs, text, i)
  BY <1>2 DEF Occurs, s, text
<1>4. /\ i + (q - p + 1) <= top
      /\ \A k \in DOMAIN s :
            ws[s[k]] = vs[text[i + k]] \/ (k = Len(s) /\ ws[s[k]] = Unmarked(vs[text[i + k]]))
  BY <1>1, <1>2, <1>3 DEF OccursAt
<1> DEFINE d == i + 1 - p
<1>5. d \in Int /\ 1 <= p + d /\ q + d <= top
  BY <1>4
<1>6. ASSUME NEW j \in p..q
      PROVE  ws[j] = vs[j + d] \/ (j = q /\ ws[j] = Unmarked(vs[j + d]))
  <2> DEFINE k == j - p + 1
             l == i + k
  <2>1. k \in DOMAIN s /\ l \in 1..top /\ (k = q - p + 1 => j = q) /\ l = j + d /\ p + k - 1 = j
        /\ k \in 1..(q - p + 1)
    BY <1>1, <1>4
  <2>2. s[k] = j /\ text[l] = j + d
    BY <1>1, <1>2, <2>1
  <2> HIDE DEF d, k
  <2>3. ws[s[k]] = vs[text[l]] \/ (k = Len(s) /\ ws[s[k]] = Unmarked(vs[text[l]]))
    BY <1>4, <2>1
  <2> HIDE DEF l
  <2> QED BY <1>1, <2>1, <2>2, <2>3
<1> HIDE DEF d
<1>7. Matches(ws, vs, p, q, d)
  BY <1>6 DEF Matches
<1> QED BY <1>5, <1>7

\* A passage no longer than a chunk may be is covered by one of the chunks, where the text that
\* windows are cut from has it.
LEMMA SpanCovered ==
    ASSUME NEW d, NEW n, NEW F, NEW L, NEW top, Paged(d, n, F, L, top), MinCoverage <= 50,
           NEW gen, Short(gen), NEW span, span \in Range(PlainChunks(gen, d)),
           NEW ch, Brief(ch), ch.name \in {"fixed", "sentence"}, Len(span.text) <= Limit(ch),
           ch.name = "fixed" => Occurs(span.words, span.text, Windowed(d.words), d.text)
    PROVE  \E x \in Range(PlainChunks(ch, d)) : Covers(x, span)
<1>1. /\ Sectioned(d, n, F, L) /\ d.text = Run(1, top) /\ top \in Nat /\ top <= Len(d.words)
      /\ d.words \in Seq(Words) /\ Len(d.words) \in Nat
  BY DEF Paged
<1>2. PICK i \in 1..n : \E c, m, lo, hi :
         Spans(d.words, d.sections[i], F[i], L[i], c, m, lo, hi, span)
  BY <1>1, SpanIn
<1>3. PICK c, m, lo, hi : Spans(d.words, d.sections[i], F[i], L[i], c, m, lo, hi, span)
  BY <1>2
<1> DEFINE a == F[i]
           b == L[i]
           sec == d.sections[i]
           words == d.words
           p == c[lo - 1] + 1
           q == c[hi]
           u == c[lo - 1]
<1>5. Spans(words, sec, a, b, c, m, lo, hi, span)
  BY <1>3
<1>6. CASE ch.name = "fixed"
  <2>1. ch.size \in Nat \ {0} /\ ch.overlap \in 0..(ch.size - 1)
    BY <1>6 DEF Brief, Plain
  <2>8. 1..top \subseteq DOMAIN words
    <3> DEFINE l == Len(words)
    <3>1. DOMAIN words = 1..l /\ l \in Nat /\ top <= l
      BY <1>1
    <3> HIDE DEF l, words
    <3> QED BY <1>1, <3>1
  <2>9. Occurs(span.words, span.text, Windowed(words), Run(1, top))
    BY <1>1, <1>6
  <2> HIDE DEF a, b, sec, words
  <2>2. /\ u \in Nat /\ q \in Nat /\ u < q /\ p = u + 1
        /\ span.text = Run(p, q) /\ Len(span.text) = q - u
    BY <1>5, SpansText
  <2> DEFINE size == ch.size
  <2>4. q - u <= size /\ size \in Nat
    BY <1>6, <2>1, <2>2 DEF Limit
  <2> HIDE DEF u, q, p, size
  <2>5. p \in Nat \ {0} /\ p <= q /\ q - p + 1 <= size
    BY <2>2, <2>4
  <2>6. PICK e \in Int : 1 <= p + e /\ q + e <= top /\ Matches(span.words, Windowed(words), p, q, e)
    BY <1>1, <2>2, <2>5, <2>9, MatchesAt
  <2>7. \E x \in Range(FixedChunks(ch, words, Run(1, top))) : Covers(x, span)
    <3>1. q - p + 1 <= ch.size
      BY <2>5 DEF size
    <3> QED BY <1>1, <2>1, <2>2, <2>5, <2>6, <2>8, <3>1, FixedFound
  <2>10. PlainChunks(ch, d) = FixedChunks(ch, words, Run(1, top))
    BY <1>1, <1>6 DEF PlainChunks, words
  <2> QED BY <2>7, <2>10
<1>7. CASE ch.name = "sentence"
  <2> DEFINE max == ch.max
             keep == ch.overlap
  <2>1. max \in Int /\ keep \in {0, 1} /\ Takes(ch, max, keep)
    <3>1. max \in Int /\ keep \in Nat /\ keep <= 1
      BY <1>7 DEF Brief, Plain
    <3> HIDE DEF keep
    <3>2. keep \in {0, 1}
      BY <3>1
    <3> QED BY <1>7, <3>1, <3>2 DEF Takes, keep
  <2>2. Cutter(ch)
    BY <1>7 DEF Brief, Plain, Cutter
  <2> HIDE DEF a, b, sec, words
  <2>3. /\ span.text = Run(u + 1, q) /\ Len(span.text) = q - u
        /\ span.words = Respelled(words, sec.text)
    BY <1>5, SpansText
  <2>4. Fits(span, c, lo, hi, max)
    BY <1>7, <2>3 DEF Fits, Limit
  <2> HIDE DEF max, keep
  <2>5. /\ a \in Nat \ {0} /\ b \in Nat /\ a <= b /\ TextIs(sec, a, b)
        /\ CutOf(words, a, b, c, m) /\ lo \in 1..m /\ hi \in lo..m
    BY <1>5 DEF Spans, TextIs
  <2>6. PICK x \in Range(SectionChunks(ch, words, sec)) : Covers(x, span)
    BY <2>1, <2>3, <2>4, <2>5, SentenceFound
  <2>7. x \in Range(PlainChunks(ch, d))
    BY <1>1, <2>2, <2>6, PlainChunksAre DEF words, sec
  <2> QED BY <2>6, <2>7
<1> QED BY <1>6, <1>7

\* GoldFound of queries that were projected.
LEMMA GoldIsFound ==
    ASSUME page \in Pages, chunker \in Chunkers, document = ExtractDocument(page),
           chunks = ChunksOf(chunker, document), gold \in Seq(Range(Units)),
           judged = [k \in DOMAIN gold |-> ProjectQuery(gold[k])]
    PROVE  GoldFound
<1> SUFFICES ASSUME MinCoverage <= 50, NoLongOverlap, chunker.name \in {"fixed", "sentence"},
                    NEW k \in DOMAIN gold, Len(gold[k].text) <= Limit(chunker),
                    chunker.name = "fixed" => InText(gold[k])
             PROVE  k \notin Dropped
  BY DEF GoldFound, Limit
<1>1. PICK n, F, L, top : Paged(document, n, F, L, top)
  BY DocumentPaged
<1>2. Brief(chunker) /\ chunks = PlainChunks(chunker, document)
  <2>1. chunker.name # "parent_child"
    OBVIOUS
  <2>2. Plain(chunker) /\ chunker \in Stages
    BY <2>1, StagesAre
  <2> QED BY <2>1, <2>2, BriefIs DEF ChunksOf
<1>3. Short(GenerationChunker) /\ Units = PlainChunks(GenerationChunker, document)
  BY UnitsAre, GenerationAssumption DEF Short
<1>4. gold[k] \in Range(PlainChunks(GenerationChunker, document))
  BY <1>3, SeqFacts
<1>5. PICK x \in Range(chunks) : Covers(x, gold[k])
  BY <1>1, <1>2, <1>3, <1>4, SpanCovered DEF InText
<1>6. PICK i \in DOMAIN chunks : x = chunks[i]
  BY <1>5 DEF Range
<1>7. i \in judged[k]
  BY <1>5, <1>6 DEF ProjectQuery
<1> QED BY <1>7 DEF Dropped

\* A query is not dropped for where a chunk boundary fell: a passage no longer than a chunk
\* may be is covered by a group of sentences, or by one of two that cut it, and so it is by
\* windows where the text they are cut from has it (_covers, _prefix_coverage).
THEOREM GoldFoundHolds == Spec => []GoldFound
<1>1. JInv => GoldFound
  <2>1. CASE phase = "projected"
    <3>1. SUFFICES ASSUME JInv PROVE GoldFound
      OBVIOUS
    <3> QED BY <2>1, <3>1, GoldIsFound DEF JInv, Chunked
  <2>2. CASE phase # "projected"
    BY <2>2 DEF GoldFound
  <2> QED BY <2>1, <2>2
<1> QED BY <1>1, JudgingInvariant, PTL

-----------------------------------------------------------------------------
(* Where a run of words is found in another.                               *)

\* Words a to b are spelled alike in the page, in its sentences and in its windows.
AsSpelt(words, a, b) ==
    /\ words = [p \in DOMAIN words |-> words[p]] /\ a..b \subseteq DOMAIN words
    /\ \A p \in DOMAIN words : words[p] \notin Broken \cup Closed

\* Splitting such a text changes no word.
LEMMA RespelledSame ==
    ASSUME NEW words, NEW a, NEW b, AsSpelt(words, a, b), NEW text
    PROVE  Respelled(words, text) = words
<1>1. \A w : w \notin Broken \cup Closed => InLine(w) = w /\ Unmarked(w) = w
  BY DEF InLine, Unmarked
<1>2. \A p \in DOMAIN words : InLine(words[p]) = words[p] /\ InLine(Unmarked(words[p])) = words[p]
  BY <1>1 DEF AsSpelt
<1>3. Respelled(words, text) = [p \in DOMAIN words |-> words[p]]
  <2> DEFINE R(p) == InLine(IF p \in Range(Front(text)) THEN Unmarked(words[p]) ELSE words[p])
  <2>1. \A p \in DOMAIN words : R(p) = words[p]
    BY <1>2
  <2>2. Respelled(words, text) = [p \in DOMAIN words |-> R(p)]
    BY DEF Respelled
  <2> HIDE DEF R
  <2> QED BY <2>1, <2>2
<1> QED BY <1>3 DEF AsSpelt

\* Some of its words have their width.
LEMMA SpelledWidth ==
    ASSUME NEW words, NEW a, NEW b, AsSpelt(words, a, b),
           NEW p \in Nat \ {0}, NEW q \in Nat, p <= q, p..q \subseteq a..b
    PROVE  Chars(Spelled(words, Run(p, q))) = 2 * (q - p) + 1
<1> DEFINE s == Spelled(words, Run(p, q))
           n == q - p + 1
<1>1. /\ p \in Nat /\ q \in Int /\ p - 1 <= q /\ n \in Nat \ {0}
  OBVIOUS
<1>2. /\ Len(Run(p, q)) = n /\ DOMAIN Run(p, q) = 1..n
      /\ \A i \in 1..n : Run(p, q)[i] = p + i - 1
  BY <1>1, RunIs
<1>3. ASSUME NEW i \in 1..n PROVE Run(p, q)[i] \in DOMAIN words
  <2>1. p + i - 1 \in p..q
    OBVIOUS
  <2> QED BY <1>2, <2>1 DEF AsSpelt
<1>4. s = [i \in 1..n |-> words[Run(p, q)[i]]]
  BY <1>2 DEF Spelled
<1> HIDE DEF s, n
<1>5. s \in Seq(Range(words)) /\ Len(s) = n /\ \A i \in 1..n : s[i] \notin Closed
  <2>1. \A i \in 1..n : words[Run(p, q)[i]] \in Range(words) /\ words[Run(p, q)[i]] \notin Closed
    BY <1>3 DEF Range, AsSpelt
  <2>2. s \in [1..n -> Range(words)]
    BY <1>4, <2>1
  <2>3. s \in Seq(Range(words)) /\ Len(s) = n
    BY <1>1, <2>2, SequenceIs
  <2> QED BY <1>4, <2>1, <2>3
<1>6. Chars(s) = Width(s)
  BY <1>5, CharsIs
<1>7. Width(s) = 2 * n - 1
  <2>1. s # <<>>
    BY <1>1, <1>5
  <2> QED BY <1>5, <2>1 DEF Width
<1>8. 2 * n - 1 = 2 * (q - p) + 1
  BY DEF n
<1> QED BY <1>6, <1>7, <1>8 DEF s

\* Two words further on, two characters for each.
LEMMA OffsetTwice ==
    ASSUME NEW words, NEW a \in Nat \ {0}, NEW b \in Nat, a <= b, AsSpelt(words, a, b),
           NEW n \in 0..(b - a + 1)
    PROVE  Offset(words, Run(a, b), n) = 2 * n
<1>1. CASE n = 0
  BY <1>1 DEF Offset
<1>2. CASE n # 0
  <2> DEFINE e == a + n - 1
             lo == 1
  <2>1. /\ a \in Nat /\ b \in Int /\ a - 1 <= b /\ e \in Nat /\ a <= e /\ a..e \subseteq a..b
        /\ lo \in Nat \ {0} /\ n \in Nat /\ lo - 1 <= n /\ n <= b - a + 1
        /\ a + lo - 1 = a /\ 2 * (e - a) + 1 + 1 = 2 * n
    BY <1>2
  <2> HIDE DEF lo
  <2>2. SubSeq(Run(a, b), lo, n) = Run(a + lo - 1, a + n - 1)
    BY <2>1, RunPart
  <2>3. SubSeq(Run(a, b), 1, n) = Run(a, e)
    BY <2>1, <2>2 DEF lo
  <2> HIDE DEF e
  <2>4. Chars(Spelled(words, Run(a, e))) = 2 * (e - a) + 1
    BY <2>1, SpelledWidth
  <2>5. Offset(words, Run(a, b), n) = 2 * (e - a) + 1 + 1
    BY <1>2, <2>3, <2>4 DEF Offset
  <2> QED BY <2>1, <2>5
<1> QED BY <1>1, <1>2

Here(words, a, b, f, t, n) ==
    a + n + (t - f) <= b /\ \A i \in 0..(t - f) : words[a + n + i] = words[f + i]

\* Where a run occurs in a run.
LEMMA OccursAtRun ==
    ASSUME NEW words, NEW a \in Nat \ {0}, NEW b \in Nat, NEW f \in Nat, NEW t \in Nat,
           AsSpelt(words, a, b), a <= f, f <= t, t <= b, NEW n \in Nat
    PROVE  OccursAt(words, Run(f, t), words, Run(a, b), n) <=> Here(words, a, b, f, t, n)
<1> DEFINE k == t - f
           s == Run(f, t)
           text == Run(a, b)
<1>1. k \in Nat /\ Len(s) = k + 1 /\ Len(text) = b - a + 1 /\ DOMAIN s = 1..(k + 1)
      /\ \A i \in 1..(k + 1) : s[i] = f + i - 1
  <2>1. f - 1 <= t /\ a - 1 <= b /\ f \in Nat /\ a \in Nat /\ t \in Int /\ b \in Int
    OBVIOUS
  <2>2. k \in Nat /\ t - f + 1 = k + 1
    OBVIOUS
  <2> QED BY <2>1, <2>2, RunIs
<1>5. \A i \in 1..(b - a + 1) : text[i] = a + i - 1
  <2>1. a - 1 <= b /\ a \in Nat /\ b \in Int
    OBVIOUS
  <2> QED BY <2>1, RunIs
<1> HIDE DEF k, s, text
<1>2. n + Len(s) <= Len(text) <=> a + n + k <= b
  BY <1>1
<1>3. CASE ~(a + n + k <= b)
  BY <1>2, <1>3 DEF OccursAt, Here, s, text, k
<1>4. CASE a + n + k <= b
  <2> DEFINE g == a + n
  <2>1. ASSUME NEW i \in 1..(k + 1)
        PROVE  text[n + i] = g + i - 1 /\ Unmarked(words[g + i - 1]) = words[g + i - 1]
    <3>1. n + i \in 1..(b - a + 1) /\ a + (n + i) - 1 = g + i - 1 /\ g + i - 1 \in a..b
      BY <1>1, <1>4
    <3>2. text[n + i] = g + i - 1
      BY <1>5, <3>1
    <3> HIDE DEF g
    <3> DEFINE x == g + i - 1
    <3>3. x \in DOMAIN words
      BY <3>1 DEF AsSpelt
    <3> HIDE DEF x
    <3>4. words[x] \notin Closed
      BY <3>3 DEF AsSpelt
    <3> QED BY <3>2, <3>4 DEF Unmarked, x
  <2>2. g \in Nat
    OBVIOUS
  <2> HIDE DEF g
  <2>3. OccursAt(words, s, words, text, n) <=>
           \A i \in 1..(k + 1) : words[g + i - 1] = words[f + i - 1]
    <3>1. OccursAt(words, s, words, text, n) <=>
             \A i \in 1..(k + 1) : \/ words[s[i]] = words[text[n + i]]
                                   \/ i = Len(s) /\ words[s[i]] = Unmarked(words[text[n + i]])
      BY <1>1, <1>2, <1>4 DEF OccursAt
    <3>2. ASSUME NEW i \in 1..(k + 1)
          PROVE  /\ words[s[i]] = words[f + i - 1]
                 /\ words[text[n + i]] = words[g + i - 1]
                 /\ Unmarked(words[text[n + i]]) = words[g + i - 1]
      BY <1>1, <2>1
    <3> QED BY <3>1, <3>2
  <2>5. (\A i \in 1..(k + 1) : words[g + i - 1] = words[f + i - 1]) <=>
           \A i \in 0..k : words[g + i] = words[f + i]
    <3>1. ASSUME \A i \in 1..(k + 1) : words[g + i - 1] = words[f + i - 1], NEW i \in 0..k
          PROVE  words[g + i] = words[f + i]
      <4>1. i + 1 \in 1..(k + 1) /\ g + (i + 1) - 1 = g + i /\ f + (i + 1) - 1 = f + i
        BY <1>1, <2>2
      <4>2. words[g + (i + 1) - 1] = words[f + (i + 1) - 1]
        BY <3>1, <4>1
      <4> QED BY <4>1, <4>2
    <3>2. ASSUME \A i \in 0..k : words[g + i] = words[f + i], NEW i \in 1..(k + 1)
          PROVE  words[g + i - 1] = words[f + i - 1]
      <4>1. i - 1 \in 0..k /\ g + (i - 1) = g + i - 1 /\ f + (i - 1) = f + i - 1
        BY <1>1, <2>2
      <4>2. words[g + (i - 1)] = words[f + (i - 1)]
        BY <3>2, <4>1
      <4> QED BY <4>1, <4>2
    <3> QED BY <3>1, <3>2
  <2> QED BY <1>4, <2>3, <2>5 DEF Here, s, text, k, g
<1> QED BY <1>3, <1>4

\* The words f to t come nowhere else between a and b.
OnlyAt(words, a, b, f, t) ==
    \A g \in a..b :
        g + (t - f) <= b /\ (\A i \in 0..(t - f) : words[g + i] = words[f + i]) => g = f

\* What occurs once occurs where it is.
LEMMA OnlyOne ==
    ASSUME NEW words, NEW a \in Nat \ {0}, NEW b \in Nat, NEW f \in Nat, NEW t \in Nat,
           AsSpelt(words, a, b), a <= f, f <= t, t <= b,
           Cardinality({n \in 0..Len(Run(a, b)) :
                          OccursAt(words, Run(f, t), words, Run(a, b), n)}) = 1
    PROVE  OnlyAt(words, a, b, f, t)
<1> DEFINE S == {n \in 0..Len(Run(a, b)) : OccursAt(words, Run(f, t), words, Run(a, b), n)}
<1>1. Len(Run(a, b)) = b - a + 1
  <2>1. a \in Nat /\ b \in Int /\ a - 1 <= b
    OBVIOUS
  <2> QED BY <2>1, RunIs
<1>2. PICK z : S = {z}
  <2>1. IsFiniteSet(S)
    <3>1. IsFiniteSet(0..(b - a + 1))
      BY FS_Interval
    <3> QED BY <1>1, <3>1, FS_Subset
  <2> HIDE DEF S
  <2>2. Cardinality(S) = 1
    BY DEF S
  <2> QED BY <2>1, <2>2, FS_Singleton
<1>3. ASSUME NEW g \in a..b, g + (t - f) <= b, \A i \in 0..(t - f) : words[g + i] = words[f + i]
      PROVE  g - a \in S
  <2> DEFINE n == g - a
  <2>1. n \in 0..(b - a + 1) /\ n \in Nat /\ g = a + n
    OBVIOUS
  <2> HIDE DEF n
  <2>2. a + n + (t - f) <= b /\ \A i \in 0..(t - f) : words[a + n + i] = words[f + i]
    BY <1>3, <2>1
  <2>3. OccursAt(words, Run(f, t), words, Run(a, b), n)
    BY <2>1, <2>2, OccursAtRun DEF Here
  <2> QED BY <1>1, <2>1, <2>3 DEF n
<1>4. f - a \in S
  <2>1. f \in a..b /\ f + (t - f) <= b
    OBVIOUS
  <2> QED BY <1>3, <2>1
<1> HIDE DEF S
<1>5. ASSUME NEW g \in a..b, g + (t - f) <= b, \A i \in 0..(t - f) : words[g + i] = words[f + i]
      PROVE  g = f
  <2>1. g - a \in S
    BY <1>3, <1>5
  <2>2. g - a = f - a
    BY <1>2, <1>4, <2>1
  <2> QED BY <2>2
<1> QED BY <1>5 DEF OnlyAt

\* text.find answers where the run is, when it occurs nowhere else.
LEMMA FindIs ==
    ASSUME NEW words, NEW a \in Nat \ {0}, NEW b \in Nat, NEW f \in Nat, NEW t \in Nat,
           a <= f, f <= t, t <= b, OnlyAt(words, a, b, f, t),
           AsSpelt(words, a, b)
    PROVE  Find(words, Run(f, t), words, Run(a, b)) = 2 * (f - a)
<1> DEFINE s == Run(f, t)
           text == Run(a, b)
           S == {i \in 0..Len(text) : OccursAt(words, s, words, text, i)}
<1>1. Len(text) = b - a + 1
  <2>1. a \in Nat /\ b \in Int /\ a - 1 <= b
    OBVIOUS
  <2> QED BY <2>1, RunIs
<1> HIDE DEF s, text
<1>4. ASSUME NEW n \in S PROVE n = f - a
  <2>1. n \in Nat /\ OccursAt(words, Run(f, t), words, Run(a, b), n)
    BY <1>1 DEF s, text
  <2> HIDE DEF S
  <2>2. a + n + (t - f) <= b /\ \A i \in 0..(t - f) : words[a + n + i] = words[f + i]
    <3>1. OccursAt(words, Run(f, t), words, Run(a, b), n) <=> Here(words, a, b, f, t, n)
      BY <2>1, OccursAtRun
    <3> QED BY <2>1, <3>1 DEF Here
  <2> DEFINE g == a + n
  <2>3. g \in a..b /\ g + (t - f) <= b /\ n = g - a
    BY <2>1, <2>2
  <2> HIDE DEF g
  <2>4. \A i \in 0..(t - f) : words[g + i] = words[f + i]
    BY <2>2 DEF g
  <2>5. g = f
    BY <2>3, <2>4 DEF OnlyAt
  <2> QED BY <2>3, <2>5
<1>5. f - a \in S
  <2> DEFINE n == f - a
  <2>1. n \in Nat /\ n \in 0..Len(text) /\ a + n = f
    BY <1>1
  <2> HIDE DEF n
  <2>2. a + n + (t - f) <= b /\ \A i \in 0..(t - f) : words[a + n + i] = words[f + i]
    BY <2>1
  <2>3. OccursAt(words, Run(f, t), words, Run(a, b), n)
    BY <2>1, <2>2, OccursAtRun DEF Here
  <2> QED BY <2>1, <2>3 DEF s, text, n
<1>6. Min(S) = f - a
  <2>1. S \subseteq Nat /\ S # {}
    BY <1>1, <1>5
  <2> HIDE DEF S
  <2> QED BY <1>4, <2>1, MinIs
<1>7. f - a \in 0..(b - a + 1) /\ a <= b
  OBVIOUS
<1> DEFINE n == f - a
<1>8. Offset(words, text, n) = 2 * n
  <2>1. n \in 0..(b - a + 1)
    BY <1>7
  <2> HIDE DEF n
  <2> QED BY <1>7, <2>1, OffsetTwice DEF text
<1>9. S # {}
  BY <1>5
<1> HIDE DEF S
<1>10. Find(words, s, words, text) = Offset(words, text, n)
  BY <1>6, <1>9 DEF Find, S
<1> QED BY <1>8, <1>10 DEF s, text

-----------------------------------------------------------------------------
(* The offsets of a chunk are those of its words, where sentences can be   *)
(* found.                                                                  *)

LocatedAt(start, a, b, x, p, q) ==
    /\ p \in Nat \ {0} /\ q \in Nat /\ a <= p /\ p <= q /\ q <= b /\ x.text = Run(p, q)
    /\ x.start = start + 2 * (p - a) /\ x.end = x.start + 2 * (q - p) + 1

Findable(words, a, b, c, m) ==
    /\ \A k \in 1..m : OnlyAt(words, a, b, c[k - 1] + 1, c[k])
    /\ AsSpelt(words, a, b)

\* A run of sentences has the offsets of its words.
LEMMA PlacedAt ==
    ASSUME NEW words, NEW sec, NEW a, NEW b, NEW c, NEW m, NEW lo, NEW hi, NEW x,
           Spans(words, sec, a, b, c, m, lo, hi, x), Findable(words, a, b, c, m), sec.start \in Int
    PROVE  LocatedAt(sec.start, a, b, x, c[lo - 1] + 1, c[hi]) /\ x.words = words
<1> DEFINE u == c[lo - 1]
           w == c[lo]
           v == c[hi]
           start == sec.start
           s == Run(u + 1, w)
           at == start + Find(words, s, words, Run(a, b))
<1>1. /\ a \in Nat \ {0} /\ b \in Nat /\ a <= b /\ sec.text = Run(a, b)
      /\ lo \in 1..m /\ hi \in lo..m
      /\ x = ChunkOf(words, Run(u + 1, v), at, sec.path, 0)
  <2>1. AsSpelt(words, a, b)
    BY DEF Findable
  <2>2. Respelled(words, sec.text) = words
    BY <2>1, RespelledSame
  <2> QED BY <2>2 DEF Spans, Placed
<1>2. Cuts(c, m, a - 1, b) /\ u \in Nat /\ v \in Nat /\ a <= u + 1 /\ u < v /\ v <= b
  BY SpansText
<1>3. w \in Nat /\ u < w /\ w <= v
  <2> HIDE DEF u, v, w
  <2>1. /\ w \in (a - 1)..b /\ u < w /\ w <= v
    BY <1>1, <1>2, PlacedIs DEF u, v, w
  <2> QED BY <1>1, <1>2, <2>1
<1>4. OnlyAt(words, a, b, u + 1, w) /\ AsSpelt(words, a, b) /\ start \in Int
  BY <1>1 DEF Findable
<1> HIDE DEF u, v, w, start
<1>5. Find(words, s, words, Run(a, b)) = 2 * ((u + 1) - a)
  <2> DEFINE f == u + 1
  <2>1. f \in Nat /\ a <= f /\ f <= w /\ w <= b
    BY <1>1, <1>2, <1>3
  <2>2. OnlyAt(words, a, b, f, w)
    BY <1>4
  <2> HIDE DEF f
  <2>3. Find(words, Run(f, w), words, Run(a, b)) = 2 * (f - a)
    BY <1>1, <1>3, <1>4, <2>1, <2>2, FindIs
  <2> QED BY <2>3 DEF f
<1>6. at = start + 2 * ((u + 1) - a)
  BY <1>5
<1> HIDE DEF at
<1>7. x.text = Run(u + 1, v) /\ x.start = at /\ x.end = at + Chars(Spelled(words, Run(u + 1, v)))
      /\ x.words = words
  BY <1>1, ChunkIs
<1> DEFINE p == u + 1
<1>8. p \in Nat \ {0} /\ a <= p /\ p <= v
  BY <1>1, <1>2
<1> HIDE DEF p
<1>9. Chars(Spelled(words, Run(p, v))) = 2 * (v - p) + 1
  <2>1. p..v \subseteq a..b
    BY <1>1, <1>2, <1>8
  <2> QED BY <1>2, <1>4, <1>8, <2>1, SpelledWidth
<1>10. x.end = x.start + 2 * (v - p) + 1
  <2>1. x.end = at + (2 * (v - p) + 1) /\ x.start = at
    BY <1>7, <1>9 DEF p
  <2>2. at \in Int
    BY <1>1, <1>2, <1>4, <1>6
  <2>3. at + (2 * (v - p) + 1) = at + 2 * (v - p) + 1
    BY <1>2, <1>8, <2>2
  <2> QED BY <2>1, <2>3
<1> QED BY <1>2, <1>6, <1>7, <1>8, <1>10 DEF LocatedAt, p, u, v, start

\* A sentence of a run of sentences is a sentence of the section.
LEMMA SentenceOf ==
    ASSUME NEW words, NEW a \in Nat \ {0}, NEW b \in Nat, NEW c, NEW m,
           SentenceCuts(words, a, b, c, m),
           NEW lo \in 1..m, NEW hi \in lo..m, NEW p, p = c[lo - 1] + 1, NEW q, q = c[hi],
           NEW e, NEW r, SentenceCuts(words, p, q, e, r), NEW k \in 1..r
    PROVE  \E s \in 1..m : e[k - 1] = c[s - 1] /\ e[k] = c[s]
<1>1. /\ Cuts(c, m, a - 1, b) /\ Cuts(e, r, p - 1, q)
      /\ \A j \in 1..r : e[j] = q \/ words[e[j]] \in Stops
      /\ \A x \in a..b : words[x] \in Stops => \E j \in 1..m : c[j] = x
      /\ \A x \in p..q : words[x] \in Stops => \E j \in 1..r : e[j] = x
      /\ \A j \in 1..m : c[j] = b \/ words[c[j]] \in Stops
  BY DEF SentenceCuts
<1>2. /\ m \in Nat /\ c \in [0..m -> Nat] /\ r \in Nat /\ e \in [0..r -> Nat]
      /\ e[0] = p - 1 /\ e[r] = q
      /\ \A j, l \in 0..m : j < l => c[j] < c[l]
      /\ \A j, l \in 0..r : j < l => e[j] < e[l]
      /\ \A j \in 0..m : c[j] \in (a - 1)..b
      /\ \A j \in 0..r : e[j] \in (p - 1)..q
  BY <1>1, CutsGrow DEF Cuts
<1>3. /\ lo - 1 \in 0..m /\ hi \in 1..m /\ hi \in 0..m
  BY <1>2
<1>4. /\ c[lo - 1] \in Nat /\ a <= p /\ p \in Nat /\ p - 1 = c[lo - 1] /\ q \in Nat /\ q <= b
  <2> DEFINE u == c[lo - 1]
  <2>1. u \in Nat /\ u \in (a - 1)..b /\ q \in (a - 1)..b
    BY <1>2, <1>3
  <2>2. p = u + 1
    OBVIOUS
  <2> HIDE DEF u
  <2>3. u \in Nat /\ a <= p /\ p \in Nat /\ p - 1 = u /\ q \in Nat /\ q <= b
    BY <2>1, <2>2
  <2> QED BY <2>3 DEF u
<1>5. ASSUME NEW j \in 0..r PROVE \E s \in 0..m : c[s] = e[j]
  <2>1. CASE j = 0
    BY <1>2, <1>3, <1>4, <2>1
  <2>2. CASE j # 0
    <3>1. j \in 1..r
      BY <1>2, <2>2
    <3>2. CASE e[j] = q
      BY <1>3, <3>2
    <3>3. CASE e[j] # q
      <4> DEFINE x == e[j]
      <4>1. words[x] \in Stops
        BY <1>1, <3>1, <3>3
      <4>2. x \in a..b
        <5>1. x \in (p - 1)..q /\ x > p - 1
          BY <1>2, <3>1
        <5> HIDE DEF x
        <5> QED BY <1>4, <5>1
      <4>3. \E s \in 1..m : c[s] = x
        BY <1>1, <4>1, <4>2
      <4> QED BY <1>2, <4>3
    <3> QED BY <3>2, <3>3
  <2> QED BY <2>1, <2>2
<1>6. k - 1 \in 0..r /\ k \in 0..r /\ k - 1 < k
  BY <1>2
<1>7. PICK s \in 0..m : c[s] = e[k]
  BY <1>5, <1>6
<1>8. PICK z \in 0..m : c[z] = e[k - 1]
  BY <1>5, <1>6
<1>9. e[k - 1] < e[k] /\ e[k - 1] \in Nat /\ e[k] \in Nat
  BY <1>2, <1>6
<1>10. z < s
  <2>1. CASE s < z
    <3>1. c[s] < c[z]
      BY <1>2, <2>1
    <3> DEFINE u == e[k - 1]
               v == e[k]
    <3>2. v < u /\ u < v /\ u \in Nat /\ v \in Nat
      BY <1>7, <1>8, <1>9, <3>1
    <3> HIDE DEF u, v
    <3> QED BY <3>2
  <2>2. CASE s = z
    <3> DEFINE u == e[k - 1]
               v == e[k]
    <3>1. u = v /\ u < v /\ u \in Nat
      BY <1>7, <1>8, <1>9, <2>2
    <3> HIDE DEF u, v
    <3> QED BY <3>1
  <2> QED BY <1>2, <2>1, <2>2
<1>11. s \in 1..m /\ s - 1 \in 0..m
  BY <1>2, <1>10
<1>12. CASE z = s - 1
  BY <1>7, <1>8, <1>11, <1>12
<1>13. CASE z # s - 1
  <2>1. z < s - 1 /\ s - 1 \in 1..m /\ s - 1 < s
    BY <1>2, <1>10, <1>11, <1>13
  <2> DEFINE x == c[s - 1]
             u == e[k - 1]
             v == e[k]
  <2>2. u < x /\ x < v /\ x \in Nat /\ u \in Nat /\ v \in Nat /\ v <= q /\ p - 1 <= u
    <3>1. c[z] < c[s - 1] /\ c[s - 1] < c[s] /\ c[s - 1] \in Nat
      BY <1>2, <1>11, <2>1
    <3>2. e[k] \in (p - 1)..q /\ e[k - 1] \in (p - 1)..q
      BY <1>2, <1>6
    <3>3. u < x /\ x < v /\ x \in Nat
      BY <1>7, <1>8, <3>1
    <3>4. u \in (p - 1)..q /\ v \in (p - 1)..q
      BY <3>2
    <3> HIDE DEF x, u, v
    <3> QED BY <1>4, <3>3, <3>4
  <2>3. c[s - 1] = b \/ words[c[s - 1]] \in Stops
    BY <1>1, <2>1
  <2> HIDE DEF x, u, v
  <2>4. x # b /\ x \in p..q
    BY <1>4, <2>2
  <2>5. words[x] \in Stops
    BY <2>3, <2>4 DEF x
  <2>6. PICK j \in 1..r : e[j] = x
    BY <1>1, <2>4, <2>5
  <2>7. j \in 0..r /\ (j <= k - 1 \/ k <= j)
    BY <1>2, <1>6
  <2>8. CASE j <= k - 1
    <3>1. Grows(e, r)
      BY <1>2 DEF Grows
    <3>2. e[j] <= e[k - 1]
      BY <1>6, <2>7, <2>8, <3>1, GrowsUp
    <3>3. x <= u
      BY <2>6, <3>2 DEF u
    <3> QED BY <2>2, <3>3
  <2>9. CASE k <= j
    <3>1. Grows(e, r)
      BY <1>2 DEF Grows
    <3>2. e[k] <= e[j]
      BY <1>6, <2>7, <2>9, <3>1, GrowsUp
    <3>3. v <= x
      BY <2>6, <3>2 DEF v
    <3> QED BY <2>2, <3>3
  <2> QED BY <2>7, <2>8, <2>9
<1> QED BY <1>12, <1>13

\* What a child is cut from lies where its parent's words do.
LEMMA ChildAt ==
    ASSUME NEW words, NEW sec, NEW a, NEW b, NEW c, NEW m, NEW lo, NEW hi, NEW y,
           Spans(words, sec, a, b, c, m, lo, hi, y), Findable(words, a, b, c, m), sec.start \in Int,
           NEW p, p = c[lo - 1] + 1, NEW q, q = c[hi],
           NEW e, NEW r, NEW l, NEW k, NEW z, Spans(words, Whole(y), p, q, e, r, l, k, z)
    PROVE  LocatedAt(sec.start, a, b, z, e[l - 1] + 1, e[k]) /\ z.words = words
<1> DEFINE start == sec.start
           at == y.start
           f == e[l - 1] + 1
           t == e[k]
<1>1. LocatedAt(start, a, b, y, p, q)
  BY PlacedAt
<1>2. /\ a \in Nat \ {0} /\ b \in Nat /\ a <= b /\ lo \in 1..m /\ hi \in lo..m
      /\ CutOf(words, a, b, c, m)
  BY DEF Spans
<1>3. /\ p \in Nat \ {0} /\ q \in Nat /\ p <= q /\ CutOf(words, p, q, e, r)
  BY DEF Spans
<1>4. a <= p /\ q <= b /\ at = start + 2 * (p - a) /\ start \in Int
  BY <1>1 DEF LocatedAt
<1>5. SentenceCuts(words, a, b, c, m)
  <2>1. a - 1 <= b
    BY <1>2
  <2> QED BY <1>2, <2>1, CutsOfIs DEF CutOf
<1>6. SentenceCuts(words, p, q, e, r)
  <2> HIDE DEF start, at, f, t
  <2>1. p - 1 <= q /\ e = CutsOf(words, p, q) /\ r = Count(words, p, q)
    BY <1>3 DEF CutOf
  <2> QED BY <1>3, <2>1, CutsOfIs
<1>7. Findable(words, p, q, e, r)
  <2>1. AsSpelt(words, p, q)
    <3>1. p..q \subseteq a..b
      BY <1>2, <1>3, <1>4
    <3> QED BY <3>1 DEF AsSpelt, Findable
  <2>2. ASSUME NEW j \in 1..r PROVE OnlyAt(words, p, q, e[j - 1] + 1, e[j])
    <3>1. PICK s \in 1..m : e[j - 1] = c[s - 1] /\ e[j] = c[s]
      BY <1>2, <1>5, <1>6, SentenceOf
    <3> DEFINE u == e[j - 1] + 1
               v == e[j]
    <3>2. OnlyAt(words, a, b, u, v)
      <4>1. OnlyAt(words, a, b, c[s - 1] + 1, c[s])
        BY DEF Findable
      <4> QED BY <3>1, <4>1
    <3> HIDE DEF u, v
    <3>4. ASSUME NEW g \in p..q, g + (v - u) <= q, \A i \in 0..(v - u) : words[g + i] = words[u + i],
                 u \in Int, v \in Int
          PROVE  g = u
      <4>1. g \in a..b /\ g + (v - u) <= b
        BY <1>2, <1>3, <1>4, <3>4
      <4> QED BY <3>2, <3>4, <4>1 DEF OnlyAt
    <3>5. u \in Int /\ v \in Int
      <4>1. Cuts(e, r, p - 1, q)
        BY <1>6 DEF SentenceCuts
      <4>2. e[j - 1] \in Nat /\ e[j] \in Nat
        BY <4>1 DEF Cuts
      <4> QED BY <4>2 DEF u, v
    <3>6. OnlyAt(words, p, q, u, v)
      BY <3>4, <3>5 DEF OnlyAt
    <3> QED BY <3>6 DEF u, v
  <2> QED BY <2>1, <2>2 DEF Findable
<1>8. LocatedAt(at, p, q, z, f, t) /\ z.words = words
  <2>1. Whole(y).start = at
    BY DEF Whole
  <2>2. at \in Int
    BY <1>2, <1>3, <1>4
  <2> DEFINE w == Whole(y)
  <2>3. Spans(words, w, p, q, e, r, l, k, z) /\ w.start = at /\ w.start \in Int
    BY <2>1, <2>2
  <2> HIDE DEF w, at
  <2>4. LocatedAt(w.start, p, q, z, e[l - 1] + 1, e[k]) /\ z.words = words
    BY <1>7, <2>3, PlacedAt
  <2> QED BY <2>3, <2>4
<1> HIDE DEF start, at, f, t
<1>9. /\ f \in Nat \ {0} /\ t \in Nat /\ p <= f /\ f <= t /\ t <= q /\ z.text = Run(f, t)
      /\ z.start = at + 2 * (f - p) /\ z.end = z.start + 2 * (t - f) + 1
  BY <1>8 DEF LocatedAt
<1>10. a <= f /\ t <= b /\ at + 2 * (f - p) = start + 2 * (f - a)
  BY <1>2, <1>3, <1>4, <1>9
<1>11. LocatedAt(start, a, b, z, f, t)
  BY <1>9, <1>10 DEF LocatedAt
<1> QED BY <1>8, <1>11 DEF start, f, t

DocFindable(d, n, F, L) ==
    \A i \in 1..n : \A c, m :
        F[i] <= L[i] /\ CutOf(d.words, F[i], L[i], c, m) => Findable(d.words, F[i], L[i], c, m)

SitsAt(d, F, L, i, c, m, lo, hi, y) ==
    /\ Findable(d.words, F[i], L[i], c, m) /\ d.sections[i].start \in Int
    /\ LocatedAt(d.sections[i].start, F[i], L[i], y, c[lo - 1] + 1, c[hi])
    /\ y.words = d.words

\* The same in a document whose sentences can be found.
LEMMA SpanAt ==
    ASSUME NEW d, NEW n, NEW F, NEW L, NEW top, Paged(d, n, F, L, top), DocFindable(d, n, F, L),
           NEW i \in 1..n, NEW c, NEW m, NEW lo, NEW hi, NEW y,
           Spans(d.words, d.sections[i], F[i], L[i], c, m, lo, hi, y)
    PROVE  SitsAt(d, F, L, i, c, m, lo, hi, y)
<1> DEFINE a == F[i]
           b == L[i]
           sec == d.sections[i]
           words == d.words
<1>1. a <= b /\ CutOf(words, a, b, c, m)
  BY DEF Spans
<1>2. Findable(words, a, b, c, m)
  BY <1>1 DEF DocFindable
<1>3. sec.start \in Int
  BY DEF Paged
<1>4. Spans(words, sec, a, b, c, m, lo, hi, y)
  OBVIOUS
<1> HIDE DEF a, b, sec, words
<1>5. LocatedAt(sec.start, a, b, y, c[lo - 1] + 1, c[hi]) /\ y.words = words
  BY <1>2, <1>3, <1>4, PlacedAt
<1> QED BY <1>2, <1>3, <1>5 DEF SitsAt, a, b, sec, words

Sits(d, n, F, L, x) ==
    /\ x.words = d.words
    /\ \E i \in 1..n : \E p, q : LocatedAt(d.sections[i].start, F[i], L[i], x, p, q)

\* A chunk of sections sits where its words are.
LEMMA PlainSits ==
    ASSUME NEW d, NEW n, NEW F, NEW L, NEW top, Paged(d, n, F, L, top), DocFindable(d, n, F, L),
           NEW ch, Short(ch), NEW x, x \in Range(PlainChunks(ch, d))
    PROVE  Sits(d, n, F, L, x)
<1>1. PICK i \in 1..n : \E c, m, lo, hi :
         Spans(d.words, d.sections[i], F[i], L[i], c, m, lo, hi, x)
  BY SpanIn DEF Paged
<1>2. PICK c, m, lo, hi : Spans(d.words, d.sections[i], F[i], L[i], c, m, lo, hi, x)
  BY <1>1
<1>4. SitsAt(d, F, L, i, c, m, lo, hi, x)
  BY <1>2, SpanAt
<1>3. LocatedAt(d.sections[i].start, F[i], L[i], x, c[lo - 1] + 1, c[hi]) /\ x.words = d.words
  BY <1>4 DEF SitsAt
<1> QED BY <1>3 DEF Sits

\* A child of a parent cut from a section
LEMMA CutSits ==
    ASSUME NEW d, NEW n, NEW F, NEW L, NEW top, Paged(d, n, F, L, top), DocFindable(d, n, F, L),
           NEW parent, Short(parent), NEW y, y \in Range(PlainChunks(parent, d)),
           NEW ch, Short(ch)
    PROVE  /\ PlainChunks(ch, SubDoc(d, y)) \in Seq(Range(PlainChunks(ch, SubDoc(d, y))))
           /\ \A z \in Range(PlainChunks(ch, SubDoc(d, y))) : IsChunk(z) /\ Sits(d, n, F, L, z)
<1>1. PICK i \in 1..n : \E c, m, lo, hi :
         Spans(d.words, d.sections[i], F[i], L[i], c, m, lo, hi, y)
  BY SpanIn DEF Paged
<1>2. PICK c, m, lo, hi : Spans(d.words, d.sections[i], F[i], L[i], c, m, lo, hi, y)
  BY <1>1
<1> DEFINE a == F[i]
           b == L[i]
           sec == d.sections[i]
           words == d.words
           p == c[lo - 1] + 1
           q == c[hi]
           s == SubDoc(d, y)
           f == Single(p)
           l == Single(q)
<1>3. /\ Findable(words, a, b, c, m) /\ sec.start \in Int
      /\ LocatedAt(sec.start, a, b, y, p, q) /\ y.words = words
  <2>1. SitsAt(d, F, L, i, c, m, lo, hi, y)
    BY <1>2, SpanAt
  <2> QED BY <2>1 DEF SitsAt
<1>4. Spans(words, sec, a, b, c, m, lo, hi, y)
  BY <1>2
<1> HIDE DEF a, b, sec, p, q
<1>5. p \in Nat \ {0} /\ q \in Nat /\ p - 1 <= q /\ TextIs(y, p, q)
  BY <1>3 DEF LocatedAt, TextIs
<1>6. IsDocument(d)
  BY DEF Paged
<1>7. Sectioned(s, 1, f, l) /\ s.words = words /\ s.sections = <<Whole(y)>>
  <2>1. /\ SubDoc(d, y).words = y.words /\ SubDoc(d, y).sections = <<Whole(y)>>
        /\ Sectioned(SubDoc(d, y), 1, Single(p), Single(q))
    BY <1>5, <1>6, SubDocIs
  <2> QED BY <1>3, <2>1
<1> HIDE DEF words, s
<1>8. PlainChunks(ch, s) \in Seq(Range(PlainChunks(ch, s)))
  <2>1. Cutter(ch)
    BY DEF Short
  <2> HIDE DEF f, l
  <2> QED BY <1>7, <2>1, PlainChunksAre
<1>9. ASSUME NEW z \in Range(PlainChunks(ch, s)) PROVE Sits(d, n, F, L, z) /\ IsChunk(z)
  <2>1. PICK j \in 1..1 : \E e, r, u, k : Spans(s.words, s.sections[j], f[j], l[j], e, r, u, k, z)
    <3> HIDE DEF f, l
    <3> QED BY <1>7, SpanIn
  <2>2. j = 1 /\ s.sections[j] = Whole(y) /\ f[j] = p /\ l[j] = q
    BY <1>7 DEF Single
  <2>3. PICK e, r, u, k : Spans(words, Whole(y), p, q, e, r, u, k, z)
    BY <1>7, <2>1, <2>2
  <2>4. LocatedAt(sec.start, a, b, z, e[u - 1] + 1, e[k]) /\ z.words = words
    BY <1>3, <1>4, <2>3, ChildAt DEF p, q
  <2>5. IsChunk(z)
    <3>1. \E ws, text, start, path, parent0 : z = ChunkOf(ws, text, start, path, parent0)
      BY <2>3 DEF Spans, Placed
    <3> QED BY <3>1, ChunkIs
  <2> QED BY <2>4, <2>5 DEF Sits, a, b, sec, words
<1> QED BY <1>8, <1>9 DEF s

\* So does a child: its parent's offset and its own add up.
LEMMA ChildrenSit ==
    ASSUME NEW d, NEW n, NEW F, NEW L, NEW top, Paged(d, n, F, L, top), DocFindable(d, n, F, L),
           NEW c, Short(c.parent), Short(c.child), NEW x, x \in Range(Children(c, d))
    PROVE  Sits(d, n, F, L, x)
<1> DEFINE parents == PlainChunks(c.parent, d)
           N == Len(parents)
           cut(k) == Cut(c, d, k)
<1>1. parents \in Seq(Range(parents))
  <2> DEFINE ch == c.parent
  <2>1. Sectioned(d, n, F, L) /\ Cutter(ch)
    BY DEF Paged, Short
  <2> HIDE DEF ch
  <2>2. PlainChunks(ch, d) \in Seq(Range(PlainChunks(ch, d)))
    BY <2>1, PlainChunksAre
  <2> QED BY <2>2 DEF ch
<1>2. ASSUME NEW k \in 1..N
      PROVE  /\ cut(k) \in Seq(Range(cut(k)))
             /\ \A z \in Range(cut(k)) : IsChunk(z) /\ Sits(d, n, F, L, z)
  <2> DEFINE parent == c.parent
             ch == c.child
             y == parents[k]
  <2>1. y \in Range(parents)
    BY <1>1, RangeIs
  <2>2. cut(k) = PlainChunks(ch, SubDoc(d, y)) /\ y \in Range(PlainChunks(parent, d))
        /\ Short(parent) /\ Short(ch)
    BY <2>1 DEF Cut
  <2> HIDE DEF parent, ch, y, cut
  <2> QED BY <2>2, CutSits
<1> HIDE DEF cut, N, parents
<1>3. \A k \in 1..N : cut(k) \in Seq(Range(cut(k)))
  BY <1>2
<1>4. PICK k \in 1..N : \E z \in Range(cut(k)) : x = Relabel(z, parents[k].path, k)
  BY <1>1, <1>3, ChildrenIn DEF cut, N, parents
<1>5. PICK z \in Range(cut(k)) : x = Relabel(z, parents[k].path, k)
  BY <1>4
<1>6. IsChunk(z) /\ Sits(d, n, F, L, z)
  BY <1>2
<1> DEFINE path == parents[k].path
<1> HIDE DEF path
<1>7. x.text = z.text /\ x.words = z.words /\ x.start = z.start /\ x.end = z.end
  <2>1. x = Relabel(z, path, k)
    BY <1>5 DEF path
  <2> QED BY <1>6, <2>1, RelabelIs
<1> QED BY <1>6, <1>7 DEF Sits, LocatedAt

\* SentencesFindable, of the sections of the document.
LEMMA FindableFrom ==
    ASSUME SentencesFindable, NEW n, NEW F, NEW L, NEW top, Paged(document, n, F, L, top)
    PROVE  DocFindable(document, n, F, L)
<1> SUFFICES ASSUME NEW i \in 1..n, NEW c, NEW m, F[i] <= L[i], CutOf(document.words, F[i], L[i], c, m)
             PROVE  Findable(document.words, F[i], L[i], c, m)
  BY DEF DocFindable
<1> DEFINE words == document.words
           a == F[i]
           b == L[i]
           text == document.sections[i].text
           len == Len(words)
           sentences == SplitSentences(words, text)
<1>1. /\ a \in Nat \ {0} /\ b \in Nat /\ a <= b /\ text = Run(a, b) /\ b <= len /\ len \in Nat
      /\ words \in Seq(Words) /\ i \in DOMAIN document.sections
  BY DEF Paged, Sectioned
<1>2. \A k \in DOMAIN sentences :
         Cardinality({j \in 0..Len(text) : OccursAt(words, sentences[k], words, text, j)}) = 1
  BY <1>1 DEF SentencesFindable
<1>3. \A x \in DOMAIN words : words[x] \notin Broken \cup Closed
  BY DEF SentencesFindable
<1>4. CutOf(words, a, b, c, m)
  OBVIOUS
<1> HIDE DEF words, a, b
<1>5. AsSpelt(words, a, b)
  <2>1. DOMAIN words = 1..len /\ words = [x \in DOMAIN words |-> words[x]]
    BY <1>1
  <2> HIDE DEF len
  <2>2. a..b \subseteq DOMAIN words
    BY <1>1, <2>1
  <2> QED BY <1>3, <2>1, <2>2 DEF AsSpelt
<1>6. Cuts(c, m, a - 1, b) /\ SplitSentences(words, Run(a, b)) = Between(c, m)
  <2>1. a - 1 <= b
    BY <1>1
  <2> QED BY <1>1, <1>4, <2>1, CutsOfIs DEF CutOf
<1>7. sentences = Between(c, m) /\ text = Run(a, b)
  BY <1>1, <1>6
<1> HIDE DEF text, sentences
<1>8. ASSUME NEW k \in 1..m PROVE OnlyAt(words, a, b, c[k - 1] + 1, c[k])
  <2> DEFINE f == c[k - 1] + 1
             t == c[k]
             u == c[k - 1]
  <2>1. k \in DOMAIN sentences /\ sentences[k] = Run(f, t) /\ u \in Nat /\ t \in Nat /\ u < t
    BY <1>6, <1>7, BetweenIs
  <2>2. u \in (a - 1)..b /\ t \in (a - 1)..b
    <3>1. m \in Nat
      BY <1>6 DEF Cuts
    <3>2. k - 1 \in 0..m /\ k \in 0..m
      BY <3>1
    <3> QED BY <1>6, <3>2, CutsGrow
  <2>3. f = u + 1
    OBVIOUS
  <2> HIDE DEF f, t, u
  <2>4. f \in Nat /\ a <= f /\ f <= t /\ t <= b
    BY <1>1, <2>1, <2>2, <2>3
  <2>5. Cardinality({j \in 0..Len(Run(a, b)) : OccursAt(words, Run(f, t), words, Run(a, b), j)}) = 1
    BY <1>2, <1>7, <2>1
  <2>6. OnlyAt(words, a, b, f, t)
    BY <1>1, <1>5, <2>1, <2>4, <2>5, OnlyOne
  <2> QED BY <2>6 DEF f, t
<1>9. Findable(words, a, b, c, m)
  BY <1>5, <1>8 DEF Findable
<1> QED BY <1>9 DEF words, a, b

-----------------------------------------------------------------------------
(* Where a chunk that is judged shares a run with the passage.             *)

\* Half of an odd number of characters, rounded up, is as many words.
LEMMA WordsOfChars ==
    ASSUME NEW n \in Nat, NEW k \in Int, 100 * (2 * k - 1) >= MinCoverage * (2 * n - 1)
    PROVE  100 * k >= MinCoverage * n
<1>1. MinCoverage \in 1..100
  BY CoverageAssumption
<1> DEFINE z == MinCoverage * n
<1>2. z \in Int /\ MinCoverage * (2 * n - 1) = 2 * z - MinCoverage
  BY <1>1
<1> HIDE DEF z
<1>3. 100 * (2 * k - 1) >= 2 * z - MinCoverage
  BY <1>2
<1>4. 100 * k >= z
  BY <1>1, <1>2, <1>3
<1> QED BY <1>4 DEF z

\* A chunk that holds a share of the passage holds it as Holds has it.
LEMMA HoldsPart ==
    ASSUME NEW x, NEW span, NEW s \in Nat \ {0}, NEW t \in Nat, s <= t,
           span.text = Run(s, t), NEW f \in Nat, NEW l \in Nat, s <= f, f <= l, l <= t,
           Occurs(span.words, Run(f, l), x.words, x.text),
           100 * (l - f + 1) >= MinCoverage * (t - s + 1)
    PROVE  Holds(x, span)
<1> DEFINE i == f - s + 1
           j == l - s + 1
<1>1. Len(span.text) = t - s + 1 /\ DOMAIN span.text = 1..(t - s + 1)
  <2>1. s \in Nat /\ t \in Int /\ s - 1 <= t
    OBVIOUS
  <2> QED BY <2>1, RunIs
<1>2. /\ i \in 1..(t - s + 1) /\ j \in i..(t - s + 1) /\ j - i + 1 = l - f + 1
      /\ i \in Nat \ {0} /\ j \in Nat /\ i - 1 <= j /\ j <= t - s + 1
      /\ s + i - 1 = f /\ s + j - 1 = l
  OBVIOUS
<1> HIDE DEF i, j
<1>3. SubSeq(span.text, i, j) = Run(f, l)
  <2>1. /\ s \in Nat /\ t \in Int /\ s - 1 <= t
        /\ i \in Nat \ {0} /\ j \in Nat /\ i - 1 <= j /\ j <= t - s + 1
    BY <1>2
  <2>2. SubSeq(Run(s, t), i, j) = Run(s + i - 1, s + j - 1)
    BY <2>1, RunPart
  <2> QED BY <1>2, <2>2
<1>4. 100 * (j - i + 1) >= MinCoverage * Len(span.text)
  BY <1>1, <1>2
<1> QED BY <1>1, <1>2, <1>3, <1>4 DEF Holds

\* By the offsets: what two chunks of a section have in common
LEMMA OffsetsHold ==
    ASSUME NEW start \in Int, NEW a \in Nat, NEW b \in Nat,
           NEW x, NEW p, NEW q, LocatedAt(start, a, b, x, p, q),
           NEW span, NEW s, NEW t, LocatedAt(start, a, b, span, s, t), x.words = span.words,
           NEW o, o = Min({x.end, span.end}) - Max({x.start, span.start}),
           o > 0, 100 * o >= MinCoverage * (span.end - span.start)
    PROVE  Holds(x, span)
<1> DEFINE xs == x.start
           xe == x.end
           ss == span.start
           se == span.end
           f == IF p >= s THEN p ELSE s
           l == IF q <= t THEN q ELSE t
           k == l - f + 1
           n == t - s + 1
<1>1. /\ p \in Nat \ {0} /\ q \in Nat /\ p <= q /\ x.text = Run(p, q)
      /\ s \in Nat \ {0} /\ t \in Nat /\ s <= t /\ span.text = Run(s, t)
      /\ xs = start + 2 * (p - a) /\ xe = xs + 2 * (q - p) + 1
      /\ ss = start + 2 * (s - a) /\ se = ss + 2 * (t - s) + 1
  BY DEF LocatedAt
<1>2. o = Min({xe, se}) - Max({xs, ss}) /\ 100 * o >= MinCoverage * (se - ss)
  OBVIOUS
<1> HIDE DEF xs, xe, ss, se
<1>3. xs \in Int /\ xe \in Int /\ ss \in Int /\ se \in Int
  BY <1>1
<1>4. /\ xe = start + 2 * (q - a) + 1 /\ se = start + 2 * (t - a) + 1 /\ se - ss = 2 * n - 1
      /\ n \in Nat
  BY <1>1
<1>5. /\ Min({xe, se}) = start + 2 * (l - a) + 1 /\ Max({xs, ss}) = start + 2 * (f - a)
      /\ f \in Nat /\ l \in Nat
  <2>1. Min({xe, se}) = IF xe <= se THEN xe ELSE se
    BY <1>3, MinOfTwo
  <2>2. Max({xs, ss}) = IF xs >= ss THEN xs ELSE ss
    BY <1>3, MaxOfTwo
  <2>3. Min({xe, se}) = start + 2 * (l - a) + 1
    BY <1>1, <1>4, <2>1
  <2>4. Max({xs, ss}) = start + 2 * (f - a)
    BY <1>1, <1>4, <2>2
  <2> QED BY <1>1, <2>3, <2>4
<1>6. /\ s <= f /\ l <= t /\ p <= f /\ l <= q
  BY <1>1
<1> HIDE DEF f, l
<1>7. o = 2 * k - 1 /\ k \in Int
  BY <1>2, <1>5
<1>8. f <= l
  BY <1>5, <1>7
<1>9. 100 * (2 * k - 1) >= MinCoverage * (2 * n - 1)
  BY <1>2, <1>4, <1>7
<1> HIDE DEF k, n
<1>10. 100 * k >= MinCoverage * n
  BY <1>4, <1>7, <1>9, WordsOfChars
<1>11. Occurs(span.words, Run(f, l), x.words, x.text)
  <2>1. p \in Nat /\ q \in Int /\ p - 1 <= q /\ l \in Int /\ f - 1 <= l
    BY <1>1, <1>5, <1>8
  <2> DEFINE ws == span.words
  <2>2. Occurs(ws, Run(f, l), ws, Run(p, q))
    <3>1. Matches(ws, ws, f, l, 0) /\ f + 0 = f /\ l + 0 = l /\ 0 \in Int /\ f <= f /\ l <= l
      <4>1. \A i \in f..l : i + 0 = i
        BY <1>5
      <4> QED BY <1>5, <4>1 DEF Matches
    <3> HIDE DEF ws
    <3> QED BY <1>5, <1>6, <2>1, <3>1, OccursRun
  <2> QED BY <1>1, <2>2
<1>12. 100 * (l - f + 1) >= MinCoverage * (t - s + 1)
  BY <1>10 DEF k, n
<1> QED BY <1>1, <1>5, <1>6, <1>8, <1>11, <1>12, HoldsPart

\* Chunks of different sections share no character.
LEMMA OffsetsApart ==
    ASSUME NEW start \in Int, NEW a \in Nat, NEW b \in Nat,
           NEW x, NEW p, NEW q, LocatedAt(start, a, b, x, p, q),
           NEW next \in Int, NEW e \in Nat, NEW g \in Nat,
           NEW y, NEW s, NEW t, LocatedAt(next, e, g, y, s, t),
           start + (2 * (b - a) + 1) <= next
    PROVE  /\ x.start \in Int /\ x.end \in Int /\ y.start \in Int /\ y.end \in Int
           /\ x.end <= y.start
<1> DEFINE xs == x.start
           xe == x.end
           ys == y.start
           ye == y.end
<1>1. /\ p \in Nat \ {0} /\ q \in Nat /\ q <= b
      /\ s \in Nat \ {0} /\ t \in Nat /\ e <= s
      /\ xs = start + 2 * (p - a) /\ xe = xs + 2 * (q - p) + 1
      /\ ys = next + 2 * (s - e) /\ ye = ys + 2 * (t - s) + 1
  BY DEF LocatedAt
<1> HIDE DEF xs, xe, ys, ye
<1>2. xs \in Int /\ xe \in Int /\ ys \in Int /\ ye \in Int /\ xe <= ys
  BY <1>1
<1> QED BY <1>2 DEF xs, xe, ys, ye

\* Ranges apart do not overlap.
LEMMA NoOverlap ==
    ASSUME NEW xs \in Int, NEW xe \in Int, NEW ys \in Int, NEW ye \in Int,
           xe <= ys \/ ye <= xs
    PROVE  ~(Min({xe, ye}) - Max({xs, ys}) > 0)
<1>1. Min({xe, ye}) = IF xe <= ye THEN xe ELSE ye
  BY MinOfTwo
<1>2. Max({xs, ys}) = IF xs >= ys THEN xs ELSE ys
  BY MaxOfTwo
<1> QED BY <1>1, <1>2

\* By the text: the passage, or enough of its first or last words
LEMMA TextHolds ==
    ASSUME NEW x, NEW span, NEW s \in Nat \ {0}, NEW t \in Nat, s <= t,
           span.text = Run(s, t), NEW p \in Nat, NEW q \in Nat, p <= q, x.text = Run(p, q),
           \/ Occurs(span.words, span.text, x.words, x.text)
           \/ 100 * PrefixCoverage(x, span) >= MinCoverage * Len(span.text)
    PROVE  Holds(x, span)
<1> DEFINE n == t - s + 1
           text == span.text
           ws == span.words
           vs == x.words
<1>1. text = Run(s, t) /\ Len(text) = n /\ n \in Nat \ {0} /\ MinCoverage \in 1..100
  <2>1. s \in Nat /\ t \in Int /\ s - 1 <= t
    OBVIOUS
  <2>2. Len(Run(s, t)) = n
    BY <2>1, RunIs
  <2> QED BY <2>2, CoverageAssumption
<1>2. CASE Occurs(ws, text, vs, x.text)
  <2>1. 100 * (t - s + 1) >= MinCoverage * (t - s + 1)
    <3> HIDE DEF n
    <3>1. 100 * n >= MinCoverage * n
      BY <1>1
    <3> QED BY <3>1 DEF n
  <2>2. Occurs(ws, Run(s, t), vs, x.text)
    BY <1>2
  <2>3. s \in Nat /\ s <= s /\ t <= t
    OBVIOUS
  <2> HIDE DEF n, text
  <2> QED BY <2>1, <2>2, <2>3, HoldsPart
<1>3. CASE 100 * PrefixCoverage(x, span) >= MinCoverage * Len(text)
  <2> DEFINE S == {k \in 0..n : \/ Occurs(ws, SubSeq(text, 1, k), vs, x.text)
                                \/ Occurs(ws, SubSeq(text, n - k + 1, n), vs, x.text)}
             k == Max(S)
  <2>1. PrefixCoverage(x, span) = k
    BY <1>1 DEF PrefixCoverage
  <2>2. SubSeq(text, 1, 0) = <<>> /\ Occurs(ws, <<>>, vs, x.text)
    <3>1. Run(s, t) \in Seq(Nat)
      <4>1. s \in Nat /\ t \in Int /\ s - 1 <= t
        OBVIOUS
      <4> QED BY <4>1, RunIs
    <3>2. SubSeq(Run(s, t), 1, 0) = <<>>
      <4> DEFINE r == Run(s, t)
      <4>1. r \in Seq(Nat)
        BY <3>1
      <4> HIDE DEF r
      <4>2. SubSeq(r, 1, 0) = <<>>
        BY <4>1
      <4> QED BY <4>2 DEF r
    <3>3. Occurs(ws, <<>>, vs, x.text)
      <4>1. Len(x.text) \in Nat
        <5>1. p \in Nat /\ q \in Int /\ p - 1 <= q
          OBVIOUS
        <5>2. Len(Run(p, q)) = q - p + 1 /\ q - p + 1 \in Nat
          BY <5>1, RunIs
        <5> QED BY <5>2
      <4> DEFINE e == <<>>
      <4>2. Len(e) = 0 /\ \A j \in DOMAIN e : FALSE
        OBVIOUS
      <4> HIDE DEF e
      <4>3. OccursAt(ws, e, vs, x.text, 0) /\ 0 \in 0..Len(x.text)
        BY <4>1, <4>2 DEF OccursAt
      <4> QED BY <4>3 DEF Occurs, e
    <3> QED BY <3>2, <3>3
  <2>3. S \subseteq 0..n /\ 0 \in S
    <3> HIDE DEF n, text
    <3>1. Occurs(ws, SubSeq(text, 1, 0), vs, x.text)
      BY <2>2
    <3>2. 0 \in 0..n
      BY <1>1
    <3>3. 0 \in S
      BY <3>1, <3>2
    <3> QED BY <3>3
  <2> HIDE DEF n, text
  <2>4. k \in S
    <3> HIDE DEF S
    <3>1. n \in Nat /\ S # {}
      BY <1>1, <2>3
    <3> QED BY <2>3, <3>1, MaxIs
  <2>5. k \in 0..n /\ (\/ Occurs(ws, SubSeq(text, 1, k), vs, x.text)
                      \/ Occurs(ws, SubSeq(text, n - k + 1, n), vs, x.text))
    <3> HIDE DEF k
    <3> QED BY <2>4
  <2> HIDE DEF k, S
  <2>6. 100 * k >= MinCoverage * n /\ k \in Nat
    BY <1>1, <1>3, <2>1, <2>5
  <2>7. k # 0
    <3> DEFINE z == MinCoverage * n
    <3>1. z \in Nat \ {0}
      BY <1>1
    <3>2. 100 * k >= z
      BY <2>6
    <3> HIDE DEF z
    <3> QED BY <3>1, <3>2
  <2>8. n = t - s + 1
    BY DEF n
  <2>9. CASE Occurs(ws, SubSeq(text, 1, k), vs, x.text)
    <3> DEFINE l == s + k - 1
    <3>1. l \in Nat /\ s <= l /\ l <= t /\ l - s + 1 = k /\ s <= s /\ s \in Nat
      BY <2>5, <2>6, <2>7, <2>8
    <3>2. SubSeq(Run(s, t), 1, k) = Run(s, l)
      <4>1. /\ 1 \in Nat \ {0} /\ k \in Nat /\ 1 - 1 <= k /\ k <= t - s + 1 /\ s + 1 - 1 = s
            /\ s \in Nat /\ t \in Int /\ s - 1 <= t
        BY <2>5, <2>6, <2>8
      <4>2. SubSeq(Run(s, t), 1, k) = Run(s + 1 - 1, s + k - 1)
        BY <4>1, RunPart
      <4> QED BY <4>1, <4>2
    <3> HIDE DEF l
    <3>3. Occurs(ws, Run(s, l), vs, x.text)
      BY <1>1, <2>9, <3>2
    <3>4. 100 * (l - s + 1) >= MinCoverage * (t - s + 1)
      BY <2>6, <2>8, <3>1
    <3> QED BY <3>1, <3>3, <3>4, HoldsPart
  <2>10. CASE Occurs(ws, SubSeq(text, n - k + 1, n), vs, x.text)
    <3> DEFINE f == t - k + 1
               lo == n - k + 1
    <3>1. f \in Nat /\ s <= f /\ f <= t /\ t - f + 1 = k /\ t <= t
      BY <2>5, <2>6, <2>7, <2>8
    <3>2. SubSeq(Run(s, t), lo, n) = Run(f, t)
      <4>1. /\ lo \in Nat \ {0} /\ n \in Nat /\ lo - 1 <= n /\ n <= t - s + 1
            /\ s \in Nat /\ t \in Int /\ s - 1 <= t
        BY <2>5, <2>6, <2>7, <2>8
      <4>3. s + lo - 1 = f /\ s + n - 1 = t
        BY <2>5, <2>6, <2>8
      <4> HIDE DEF lo, f, k
      <4>2. SubSeq(Run(s, t), lo, n) = Run(s + lo - 1, s + n - 1)
        <5> DEFINE hi == n
        <5>1. hi \in Nat /\ lo - 1 <= hi /\ hi <= t - s + 1
          BY <4>1
        <5> HIDE DEF hi
        <5>2. SubSeq(Run(s, t), lo, hi) = Run(s + lo - 1, s + hi - 1)
          BY <4>1, <5>1, RunPart
        <5> QED BY <5>2 DEF hi
      <4> QED BY <4>2, <4>3
    <3>3. Occurs(ws, Run(f, t), vs, x.text)
      BY <1>1, <2>10, <3>2
    <3> HIDE DEF f
    <3>4. 100 * (t - f + 1) >= MinCoverage * (t - s + 1)
      BY <2>6, <2>8, <3>1
    <3> QED BY <3>1, <3>3, <3>4, HoldsPart
  <2> QED BY <2>5, <2>9, <2>10
<1> QED BY <1>2, <1>3

\* A chunk that covers a passage shares enough of it, where both lie where they say.
LEMMA CoversHolds ==
    ASSUME NEW d, NEW n, NEW F, NEW L, NEW top, Paged(d, n, F, L, top),
           NEW x, Sits(d, n, F, L, x), NEW span, Sits(d, n, F, L, span),
           Covers(x, span)
    PROVE  Holds(x, span)
<1>1. PICK i \in 1..n : \E p, q : LocatedAt(d.sections[i].start, F[i], L[i], x, p, q)
  BY DEF Sits
<1>2. PICK p, q : LocatedAt(d.sections[i].start, F[i], L[i], x, p, q)
  BY <1>1
<1>3. PICK j \in 1..n : \E s, t : LocatedAt(d.sections[j].start, F[j], L[j], span, s, t)
  BY DEF Sits
<1>4. PICK s, t : LocatedAt(d.sections[j].start, F[j], L[j], span, s, t)
  BY <1>3
<1> DEFINE at(k) == d.sections[k].start
           o == Min({x.end, span.end}) - Max({x.start, span.start})
<1>5. ASSUME NEW k \in 1..n
      PROVE  at(k) \in Int /\ F[k] \in Nat \ {0} /\ L[k] \in Nat
  BY DEF Paged, Sectioned
<1>6. ASSUME NEW k \in 1..n, NEW l \in 1..n, k < l, F[k] <= L[k]
      PROVE  at(k) + (2 * (L[k] - F[k]) + 1) <= at(l)
  <2> DEFINE a == F[k]
             b == L[k]
             text == d.sections[k].text
  <2>1. text = Run(a, b) /\ at(k) + Width(text) <= at(l)
    BY <1>6 DEF Paged, Sectioned
  <2>2. a \in Nat /\ b \in Int /\ a - 1 <= b /\ a <= b
    BY <1>5, <1>6
  <2> HIDE DEF a, b, text
  <2>3. Width(Run(a, b)) = 2 * (b - a) + 1
    BY <2>2, WidthIs
  <2>4. at(k) + (2 * (b - a) + 1) <= at(l)
    BY <2>1, <2>3
  <2> QED BY <2>4 DEF a, b
<1>7. /\ p \in Nat \ {0} /\ q \in Nat /\ p <= q /\ x.text = Run(p, q) /\ F[i] <= L[i]
  <2> DEFINE a == F[i]
             b == L[i]
  <2>1. a \in Nat /\ b \in Nat
    BY <1>5
  <2>2. p \in Nat \ {0} /\ q \in Nat /\ p <= q /\ a <= p /\ q <= b /\ x.text = Run(p, q)
    BY <1>2 DEF LocatedAt
  <2> HIDE DEF a, b
  <2>3. a <= b
    BY <2>1, <2>2
  <2> QED BY <2>2, <2>3 DEF a, b
<1>8. /\ s \in Nat \ {0} /\ t \in Nat /\ s <= t /\ span.text = Run(s, t) /\ F[j] <= L[j]
  <2> DEFINE a == F[j]
             b == L[j]
  <2>1. a \in Nat /\ b \in Nat
    BY <1>5
  <2>2. s \in Nat \ {0} /\ t \in Nat /\ s <= t /\ a <= s /\ t <= b /\ span.text = Run(s, t)
    BY <1>4 DEF LocatedAt
  <2> HIDE DEF a, b
  <2>3. a <= b
    BY <2>1, <2>2
  <2> QED BY <2>2, <2>3 DEF a, b
<1> HIDE DEF at, o
<1>9. \/ o > 0 /\ 100 * o >= MinCoverage * (span.end - span.start)
      \/ Occurs(span.words, span.text, x.words, x.text)
      \/ 100 * PrefixCoverage(x, span) >= MinCoverage * Len(span.text)
  BY DEF Covers, o
<1>10. CASE \/ Occurs(span.words, span.text, x.words, x.text)
            \/ 100 * PrefixCoverage(x, span) >= MinCoverage * Len(span.text)
  <2>1. Holds(x, span)
    BY <1>7, <1>8, <1>10, TextHolds
  <2> QED BY <2>1
<1>11. CASE o > 0 /\ 100 * o >= MinCoverage * (span.end - span.start)
  <2>1. CASE i = j
    <3> DEFINE start == at(i)
               a == F[i]
               b == L[i]
    <3>1. /\ LocatedAt(start, a, b, x, p, q) /\ LocatedAt(start, a, b, span, s, t)
          /\ start \in Int /\ a \in Nat /\ b \in Nat /\ x.words = span.words
      BY <1>2, <1>4, <1>5, <2>1 DEF at, Sits
    <3> HIDE DEF start, a, b
    <3>2. o = Min({x.end, span.end}) - Max({x.start, span.start})
      BY DEF o
    <3>3. Holds(x, span)
      BY <1>11, <3>1, <3>2, OffsetsHold
    <3> QED BY <3>3
  <2>2. CASE i # j
    <3> DEFINE si == at(i)
               ai == F[i]
               bi == L[i]
               sj == at(j)
               aj == F[j]
               bj == L[j]
    <3>1. /\ si \in Int /\ ai \in Nat /\ bi \in Nat /\ sj \in Int /\ aj \in Nat /\ bj \in Nat
          /\ LocatedAt(si, ai, bi, x, p, q) /\ LocatedAt(sj, aj, bj, span, s, t)
      BY <1>2, <1>4, <1>5 DEF at
    <3>2. CASE i < j
      <4>1. si + (2 * (bi - ai) + 1) <= sj
        BY <1>6, <1>7, <3>2
      <4> HIDE DEF si, ai, bi, sj, aj, bj
      <4>2. /\ x.start \in Int /\ x.end \in Int /\ span.start \in Int /\ span.end \in Int
            /\ x.end <= span.start
        BY <3>1, <4>1, OffsetsApart
      <4>3. ~(o > 0)
        BY <4>2, NoOverlap DEF o
      <4> QED BY <1>11, <4>3
    <3>3. CASE j < i
      <4>1. sj + (2 * (bj - aj) + 1) <= si
        BY <1>6, <1>8, <3>3
      <4> HIDE DEF si, ai, bi, sj, aj, bj
      <4>2. /\ x.start \in Int /\ x.end \in Int /\ span.start \in Int /\ span.end \in Int
            /\ span.end <= x.start
        BY <3>1, <4>1, OffsetsApart
      <4>3. ~(o > 0)
        BY <4>2, NoOverlap DEF o
      <4> QED BY <1>11, <4>3
    <3>4. i < j \/ j < i
      <4>1. n \in Nat
        BY DEF Paged, Sectioned
      <4> QED BY <2>2, <4>1
    <3> QED BY <3>2, <3>3, <3>4
  <2> QED BY <2>1, <2>2
<1> QED BY <1>9, <1>10, <1>11

\* JudgedHoldsGold of queries that were projected.
LEMMA JudgedIsHeld ==
    ASSUME page \in Pages, chunker \in Chunkers, document = ExtractDocument(page),
           chunks = ChunksOf(chunker, document), gold \in Seq(Range(Units)),
           judged = [k \in DOMAIN gold |-> ProjectQuery(gold[k])]
    PROVE  JudgedHoldsGold
<1> SUFFICES ASSUME SentencesFindable, NoLongOverlap, \A c \in Stages : c.name # "fixed",
                    NEW k \in DOMAIN gold, NEW i \in judged[k]
             PROVE  Holds(chunks[i], gold[k])
  BY DEF JudgedHoldsGold
<1>1. PICK n, F, L, top : Paged(document, n, F, L, top)
  BY DocumentPaged
<1>3. DocFindable(document, n, F, L)
  BY <1>1, FindableFrom
<1>4. Short(GenerationChunker) /\ Units = PlainChunks(GenerationChunker, document)
  BY UnitsAre, GenerationAssumption DEF Short
<1>5. gold[k] \in Range(PlainChunks(GenerationChunker, document))
  BY <1>4, SeqFacts
<1>6. Sits(document, n, F, L, gold[k])
  BY <1>1, <1>3, <1>4, <1>5, PlainSits
<1>7. i \in DOMAIN chunks /\ Covers(chunks[i], gold[k])
  BY DEF ProjectQuery
<1>8. ASSUME NEW c, Plain(c), c \in Stages PROVE Short(c)
  <2>1. Brief(c) /\ c.name # "fixed"
    BY <1>8, BriefIs
  <2>2. CASE c.name = "sentence"
    <3> DEFINE o == c.overlap
    <3>1. c.max \in Int /\ o \in Nat /\ o <= 1
      BY <2>1, <2>2 DEF Brief, Plain
    <3> HIDE DEF o
    <3>2. o \in {0, 1}
      BY <3>1
    <3> QED BY <2>2, <3>1, <3>2 DEF Short, Cutter, o
  <2>3. CASE c.name = "semantic"
    BY <2>1, <2>3 DEF Brief, Plain, Short, Cutter
  <2> QED BY <2>1, <2>2, <2>3 DEF Brief, Plain
<1>9. chunks[i] \in Range(chunks)
  BY <1>7 DEF Range
<1>10. Sits(document, n, F, L, chunks[i])
  <2>1. CASE chunker.name # "parent_child"
    <3>1. Short(chunker)
      BY <1>8, <2>1, StagesAre
    <3>2. chunks[i] \in Range(PlainChunks(chunker, document))
      BY <1>9, <2>1 DEF ChunksOf
    <3> QED BY <1>1, <1>3, <3>1, <3>2, PlainSits
  <2>2. CASE chunker.name = "parent_child"
    <3>1. Short(chunker.parent) /\ Short(chunker.child)
      BY <1>8, <2>2, StagesAre
    <3>2. chunks[i] \in Range(Children(chunker, document))
      BY <1>9, <2>2 DEF ChunksOf
    <3> QED BY <1>1, <1>3, <3>1, <3>2, ChildrenSit
  <2> QED BY <2>1, <2>2
<1>11. Holds(chunks[i], gold[k])
  BY <1>1, <1>6, <1>7, <1>10, CoversHolds
<1> QED BY <1>11

\* A chunk is judged relevant only when it carries enough of the passage: its offsets are
\* where its words stand, as each sentence is found once, and the rest is a comparison of
\* the words themselves.
THEOREM JudgedHolds == Spec => []JudgedHoldsGold
<1>1. JInv => JudgedHoldsGold
  <2>1. CASE phase = "projected"
    <3>1. SUFFICES ASSUME JInv PROVE JudgedHoldsGold
      OBVIOUS
    <3> QED BY <2>1, <3>1, JudgedIsHeld DEF JInv, Chunked
  <2>2. CASE phase # "projected"
    BY <2>2 DEF JudgedHoldsGold
  <2> QED BY <2>1, <2>2
<1> QED BY <1>1, JudgingInvariant, PTL
=============================================================================
