-------------------------- MODULE ExperimentsProofs --------------------------
(***************************************************************************)
(* The comparisons of an experiment, and what a GET reads of what was      *)
(* stored. holm_bonferroni multiplies the p-value at each place of its     *)
(* order by how many come no earlier, and the running maximum of those is  *)
(* the largest Bonferroni p-value of a set: the closed test. cliffs_delta  *)
(* sums ranks, and a rank is what a score beats within its own list and in *)
(* the other: by induction, the sum is the dominance. Compare is then a    *)
(* function of the set of pairs, whose order and direction change nothing, *)
(* and a family that holds another has adjusted p-values that are no       *)
(* lower.                                                                  *)
(***************************************************************************)
EXTENDS Experiments, FiniteSetTheorems, WellFoundedInduction, TLAPS

-----------------------------------------------------------------------------
\* Numbers

\* What a sequence is.
LEMMA SeqFacts ==
    ASSUME NEW S, NEW s \in Seq(S)
    PROVE  DOMAIN s = 1..Len(s) /\ Len(s) \in Nat /\ \A k \in DOMAIN s : s[k] \in S
OBVIOUS

\* The positions of a sequence are finitely many.
LEMMA Positions ==
    ASSUME NEW n \in Nat
    PROVE  IsFiniteSet(1..n) /\ Cardinality(1..n) = n
<1>1. IsFiniteSet(1..n) /\ Cardinality(1..n) = IF 1 > n THEN 0 ELSE n - 1 + 1
  BY FS_Interval, 1 \in Int, n \in Int
<1> QED BY <1>1

Percent == 0..100

\* A p-value in hundredths is a number up to a hundred.
LEMMA PercentIs == \A x : x \in Percent <=> x \in Nat /\ x <= 100
BY DEF Percent

\* A set of numbers has a least one.
LEMMA Least ==
    ASSUME NEW S, S \subseteq Nat, S # {}
    PROVE  \E m \in S : \A n \in S : m <= n
<1> DEFINE R == OpToRel(<, Nat)
<1>1. IsWellFoundedOn(R, Nat)
  BY NatLessThanWellFounded
<1>2. PICK m \in S : \A n \in S : ~ (<<n, m>> \in R)
  BY <1>1, WFMin
<1>3. \A n \in S : ~(n < m)
  BY <1>2 DEF OpToRel
<1> QED BY <1>3

\* Min is the least of a set of numbers.
LEMMA MinIs ==
    ASSUME NEW S, S \subseteq Nat, S # {}
    PROVE  Min(S) \in S /\ \A n \in S : Min(S) <= n
<1>1. PICK m \in S : \A n \in S : m <= n
  BY Least
<1> QED BY <1>1 DEF Min

\* Max is the greatest of a bounded set of numbers.
LEMMA MaxIs ==
    ASSUME NEW S, NEW N \in Nat, S \subseteq 0..N, S # {}
    PROVE  Max(S) \in S /\ \A n \in S : Max(S) >= n
<1> DEFINE T == {k \in Nat : N - k \in S}
<1>1. T \subseteq Nat /\ T # {}
  <2>1. PICK n \in S : TRUE
    OBVIOUS
  <2>2. N - n \in Nat /\ N - (N - n) = n
    BY <2>1
  <2> QED BY <2>1, <2>2
<1>2. PICK m \in T : \A k \in T : m <= k
  BY <1>1, Least
<1>3. N - m \in S
  BY <1>2
<1>4. ASSUME NEW n \in S PROVE N - m >= n
  <2>1. N - n \in Nat /\ N - (N - n) = n
    OBVIOUS
  <2>2. m <= N - n
    BY <1>2, <2>1
  <2> QED BY <1>1, <1>2, <2>1, <2>2
<1> QED BY <1>3, <1>4 DEF Max

-----------------------------------------------------------------------------
\* Holm

Before(p, j) == {k \in DOMAIN p : p[k] < p[j] \/ (p[k] = p[j] /\ k <= j)}
After(p, j) == {k \in DOMAIN p : p[j] < p[k] \/ (p[j] = p[k] /\ j <= k)}

\* Holm multiplies the j-th p-value by how many come no earlier.
LEMMA BeforeAfter ==
    ASSUME NEW p \in Seq(Percent), NEW j \in DOMAIN p
    PROVE  /\ IsFiniteSet(Before(p, j)) /\ IsFiniteSet(After(p, j))
           /\ Cardinality(Before(p, j)) \in Nat /\ Cardinality(After(p, j)) \in Nat
           /\ Len(p) - Cardinality(Before(p, j)) + 1 = Cardinality(After(p, j))
<1>1. DOMAIN p = 1..Len(p) /\ Len(p) \in Nat /\ \A k \in DOMAIN p : p[k] \in Nat /\ p[k] <= 100
  BY SeqFacts, PercentIs
<1>2. IsFiniteSet(DOMAIN p) /\ Cardinality(DOMAIN p) = Len(p)
  BY <1>1, Positions
<1>3. Before(p, j) \subseteq DOMAIN p /\ After(p, j) \subseteq DOMAIN p
  BY DEF Before, After
<1>4. IsFiniteSet(Before(p, j)) /\ IsFiniteSet(After(p, j))
  BY <1>2, <1>3, FS_Subset
<1>5. Before(p, j) \cup After(p, j) = DOMAIN p /\ Before(p, j) \cap After(p, j) = {j}
  BY <1>1 DEF Before, After
<1>6. Cardinality(DOMAIN p) = Cardinality(Before(p, j)) + Cardinality(After(p, j)) - 1
  <2>1. Cardinality({j}) = 1
    BY FS_Singleton
  <2>2. Cardinality(Before(p, j) \cup After(p, j))
          = Cardinality(Before(p, j)) + Cardinality(After(p, j))
              - Cardinality(Before(p, j) \cap After(p, j))
    BY <1>4, FS_Union
  <2> QED BY <1>5, <2>1, <2>2
<1> QED BY <1>1, <1>2, <1>4, <1>6, FS_CardinalityType

\* Holm's adjusted value is the largest of the steps up to its own.
LEMMA HolmSteps ==
    ASSUME NEW p \in Seq(Percent), NEW i \in DOMAIN p
    PROVE  HolmBonferroni(p)[i]
             = Min({100, Max({Cardinality(After(p, j)) * p[j] : j \in Before(p, i)})})
<1> DEFINE m == Len(p)
           order == {<<p[k], k>> : k \in 1..m}
           step(x) == (m - Cardinality(UpTo(order, x)) + 1) * x[1]
<1>1. DOMAIN p = 1..m /\ m \in Nat /\ \A k \in DOMAIN p : p[k] \in Nat /\ p[k] <= 100
  BY SeqFacts, PercentIs
<1>2. ASSUME NEW j \in DOMAIN p
      PROVE  UpTo(order, <<p[j], j>>) = {<<p[k], k>> : k \in Before(p, j)}
  BY <1>1 DEF UpTo, Before
<1>3. ASSUME NEW j \in DOMAIN p
      PROVE  step(<<p[j], j>>) = Cardinality(After(p, j)) * p[j]
  <2> DEFINE B == Before(p, j)
             U == {<<p[k], k>> : k \in B}
             f == [k \in B |-> <<p[k], k>>]
  <2>1. f \in Bijection(B, U)
    BY DEF Bijection, Injection, Surjection, IsInjective
  <2>2. ExistsBijection(B, U)
    BY <2>1 DEF ExistsBijection
  <2>3. Cardinality(U) = Cardinality(B)
    BY <2>2, BeforeAfter, FS_Bijection
  <2>4. Cardinality(UpTo(order, <<p[j], j>>)) = Cardinality(B)
    BY <1>2, <2>3
  <2>5. m - Cardinality(B) + 1 = Cardinality(After(p, j))
    BY BeforeAfter
  <2> HIDE DEF B, U, f, order
  <2> QED BY <2>4, <2>5
<1>4. {step(x) : x \in UpTo(order, <<p[i], i>>)}
        = {Cardinality(After(p, j)) * p[j] : j \in Before(p, i)}
  <2>1. UpTo(order, <<p[i], i>>) = {<<p[j], j>> : j \in Before(p, i)}
    BY <1>2
  <2>2. Before(p, i) \subseteq DOMAIN p
    BY DEF Before
  <2> HIDE DEF step, order
  <2> QED BY <1>3, <2>1, <2>2
<1>5. HolmBonferroni(p)[i]
        = Min({100, Max({step(x) : x \in UpTo(order, <<p[i], i>>)})})
  BY <1>1 DEF HolmBonferroni
<1> QED BY <1>4, <1>5

\* A p-value is capped at a hundred hundredths.
LEMMA Capped ==
    ASSUME NEW x \in Nat
    PROVE  Min({100, x}) = IF x <= 100 THEN x ELSE 100
<1>1. Min({100, x}) \in {100, x} /\ Min({100, x}) <= 100 /\ Min({100, x}) <= x
  BY MinIs
<1> QED BY <1>1

\* The p-value that Bonferroni gives to the hypothesis that nothing in S differs.
Jointly(p, S) == Min({100, Cardinality(S) * Min({p[j] : j \in S})})

\* The least of a set of p-values has the whole set after it, and makes its Bonferroni
\* p-value.
LEMMA JointlyIs ==
    ASSUME NEW p \in Seq(Percent), NEW S \in SUBSET DOMAIN p, S # {}
    PROVE  /\ Jointly(p, S) \in 0..100
           /\ \E j \in S : /\ S \subseteq After(p, j)
                          /\ Jointly(p, S) = Min({100, Cardinality(S) * p[j]})
<1>1. DOMAIN p = 1..Len(p) /\ Len(p) \in Nat /\ \A k \in DOMAIN p : p[k] \in Nat /\ p[k] <= 100
  BY SeqFacts, PercentIs
<1> DEFINE v == Min({p[j] : j \in S})
           T == {j \in S : p[j] = v}
<1>2. v \in {p[j] : j \in S} /\ \A j \in S : v <= p[j]
  <2> DEFINE P == {p[j] : j \in S}
  <2>1. P \subseteq Nat /\ P # {}
    BY <1>1
  <2>2. Min(P) \in P /\ \A x \in P : Min(P) <= x
    <3> HIDE DEF P
    <3> QED BY <2>1, MinIs
  <2> QED BY <2>2
<1> HIDE DEF v
<1>3. T \subseteq Nat /\ T # {}
  BY <1>1, <1>2
<1>4. PICK j \in T : \A k \in T : j <= k
  BY <1>3, Least
<1>5. j \in S /\ p[j] = v
  BY <1>4
<1>6. S \subseteq After(p, j)
  BY <1>1, <1>2, <1>4, <1>5 DEF After
<1>7. Cardinality(S) \in Nat
  BY <1>1, Positions, FS_Subset, FS_CardinalityType
<1>8. Cardinality(S) * p[j] \in Nat
  <2>1. \A a, b \in Nat : a * b \in Nat
    OBVIOUS
  <2> QED BY <1>1, <1>5, <1>7, <2>1
<1>9. Jointly(p, S) = Min({100, Cardinality(S) * p[j]})
  BY <1>5 DEF Jointly, v
<1>10. Min({100, Cardinality(S) * p[j]}) \in 0..100
  <2>1. \A x \in Nat : Min({100, x}) \in 0..100
    <3> TAKE x \in Nat
    <3>1. Min({100, x}) = IF x <= 100 THEN x ELSE 100
      BY Capped
    <3>2. CASE x <= 100
      BY <3>1, <3>2
    <3>3. CASE ~(x <= 100)
      <4>1. Min({100, x}) = 100
        BY <3>1, <3>3
      <4> QED BY <4>1
    <3> QED BY <3>2, <3>3
  <2> QED BY <1>8, <2>1
<1> QED BY <1>5, <1>6, <1>9, <1>10

(* Holm's method is the closed test. *)
LEMMA HolmIsClosed ==
    ASSUME NEW p \in Seq(Percent), NEW i \in DOMAIN p
    PROVE  /\ HolmBonferroni(p)[i] \in 0..100
           /\ \E S \in SUBSET DOMAIN p : i \in S /\ HolmBonferroni(p)[i] = Jointly(p, S)
           /\ \A S \in SUBSET DOMAIN p : i \in S => Jointly(p, S) <= HolmBonferroni(p)[i]
           /\ HolmBonferroni(p)[i]
                = Max({Jointly(p, S) : S \in {T \in SUBSET DOMAIN p : i \in T}})
<1> DEFINE w(j) == Cardinality(After(p, j)) * p[j]
           W == {w(j) : j \in Before(p, i)}
           Sets == {T \in SUBSET DOMAIN p : i \in T}
           J == {Jointly(p, S) : S \in Sets}
           h == HolmBonferroni(p)[i]
<1>1. DOMAIN p = 1..Len(p) /\ Len(p) \in Nat /\ \A k \in DOMAIN p : p[k] \in Nat /\ p[k] <= 100
  BY SeqFacts, PercentIs
<1>2. ASSUME NEW j \in DOMAIN p
      PROVE  Cardinality(After(p, j)) \in 0..Len(p) /\ w(j) \in 0..(Len(p) * 100)
  <2>1. Cardinality(After(p, j)) \in 0..Len(p)
    <3>1. After(p, j) \subseteq DOMAIN p
      BY DEF After
    <3> QED BY <1>1, <3>1, Positions, FS_Subset, FS_CardinalityType
  <2>2. \A a \in 0..Len(p), b \in 0..100 : a * b \in 0..(Len(p) * 100)
    BY <1>1
  <2>3. p[j] \in 0..100
    <3>1. p[j] \in Percent
      BY SeqFacts
    <3> QED BY <3>1 DEF Percent
  <2> QED BY <2>1, <2>2, <2>3
<1>3. Before(p, i) \subseteq DOMAIN p /\ i \in Before(p, i)
  BY <1>1 DEF Before
<1>4. W \subseteq 0..(Len(p) * 100) /\ W # {} /\ Len(p) * 100 \in Nat
  BY <1>1, <1>2, <1>3
<1>5. Max(W) \in W /\ \A x \in W : Max(W) >= x
  <2> HIDE DEF W
  <2> QED BY <1>4, MaxIs
<1>6. Max(W) \in Nat
  <2>1. W \subseteq Nat
    BY <1>4
  <2> HIDE DEF W
  <2> QED BY <1>5, <2>1
<1>7. h = IF Max(W) <= 100 THEN Max(W) ELSE 100
  <2>1. h = Min({100, Max(W)})
    BY HolmSteps
  <2> HIDE DEF W, h
  <2>2. PICK x \in Nat : x = Max(W)
    BY <1>6
  <2>3. Min({100, x}) = IF x <= 100 THEN x ELSE 100
    BY Capped
  <2> QED BY <2>1, <2>2, <2>3
<1>8. J \subseteq 0..100
  BY JointlyIs
<1>9. h \in J
  <2>1. PICK j \in Before(p, i) : Max(W) = w(j)
    BY <1>5
  <2>2. /\ j \in DOMAIN p /\ i \in After(p, j) /\ j \in After(p, j)
        /\ After(p, j) \subseteq DOMAIN p
    BY <1>1, <2>1 DEF Before, After
  <2>3. Min({p[k] : k \in After(p, j)}) = p[j]
    <3> DEFINE P == {p[k] : k \in After(p, j)}
    <3>1. P \subseteq Nat /\ p[j] \in P /\ \A x \in P : p[j] <= x
      BY <1>1, <2>2 DEF After
    <3> HIDE DEF P
    <3>2. Min(P) \in P /\ Min(P) <= p[j]
      BY <3>1, MinIs
    <3>3. PICK x \in Nat : x = Min(P) /\ x <= p[j] /\ p[j] <= x /\ p[j] \in Nat
      BY <3>1, <3>2
    <3>4. Min(P) = p[j]
      BY <3>3
    <3> QED BY <3>4 DEF P
  <2>4. Jointly(p, After(p, j)) = Min({100, w(j)})
    BY <2>3 DEF Jointly
  <2>5. w(j) \in Nat
    BY <1>2, <2>2
  <2>6. h = Jointly(p, After(p, j))
    BY <1>7, <2>1, <2>4, <2>5, Capped
  <2> QED BY <2>2, <2>6
<1>10. ASSUME NEW S \in Sets PROVE Jointly(p, S) <= h
  <2>1. PICK j \in S : /\ S \subseteq After(p, j)
                      /\ Jointly(p, S) = Min({100, Cardinality(S) * p[j]})
    BY JointlyIs
  <2>2. j \in Before(p, i) /\ j \in DOMAIN p
    BY <1>1, <2>1 DEF Before, After
  <2>3. Cardinality(S) \in Nat /\ Cardinality(S) <= Cardinality(After(p, j))
    BY <2>1, <2>2, BeforeAfter, FS_Subset, FS_CardinalityType
  <2>4. w(j) \in W /\ w(j) <= Max(W)
    BY <1>5, <2>2
  <2>5. Cardinality(S) * p[j] <= w(j) /\ Cardinality(S) * p[j] \in Nat
    <3>1. p[j] \in Nat /\ Cardinality(After(p, j)) \in Nat
      BY <1>1, <1>2, <2>2
    <3>2. \A a, b, c \in Nat : a <= b => a * c <= b * c /\ a * c \in Nat
      OBVIOUS
    <3> QED BY <2>3, <3>1, <3>2
  <2>6. Jointly(p, S) = IF Cardinality(S) * p[j] <= 100 THEN Cardinality(S) * p[j] ELSE 100
    BY <2>1, <2>5, Capped
  <2>7. w(j) \in Nat
    BY <1>2, <2>2
  <2> HIDE DEF W, h
  <2>8. PICK x \in Nat : x = Max(W)
    BY <1>6
  <2> HIDE DEF w
  <2>9. PICK y \in Nat : y = Cardinality(S) * p[j]
    BY <2>5
  <2> QED BY <1>7, <2>4, <2>5, <2>6, <2>7, <2>8, <2>9
<1>11. h \in 0..100
  BY <1>8, <1>9
<1>12. h = Max(J)
  <2>1. Max(J) \in J /\ \A x \in J : Max(J) >= x
    <3> HIDE DEF J
    <3> QED BY <1>8, <1>9, MaxIs
  <2>2. Max(J) <= h
    BY <1>10, <2>1
  <2>3. Max(J) \in 0..100 /\ Max(J) >= h
    BY <1>8, <1>9, <2>1
  <2>4. \A x, y \in 0..100 : x <= y /\ x >= y => x = y
    OBVIOUS
  <2> HIDE DEF J, h
  <2> QED BY <1>11, <2>2, <2>3, <2>4
<1> QED BY <1>9, <1>10, <1>11, <1>12

-----------------------------------------------------------------------------
\* Induction

\* Induction up to a number, for a set
LEMMA Climb ==
    ASSUME NEW N \in Nat, NEW S, 0 \in S, \A n \in 0..(N - 1) : n \in S => n + 1 \in S
    PROVE  0..N \subseteq S
<1> SUFFICES ASSUME NEW k \in 0..N, k \notin S PROVE FALSE
  OBVIOUS
<1> DEFINE T == {n \in 0..N : n \notin S}
<1>1. T \subseteq Nat /\ T # {}
  OBVIOUS
<1>2. PICK m \in T : \A n \in T : m <= n
  BY <1>1, Least
<1>3. m # 0 /\ m \in 1..N /\ m - 1 \in 0..(N - 1) /\ m - 1 \in 0..N
  BY <1>2
<1>4. m - 1 \in S
  BY <1>2, <1>3
<1>5. (m - 1) + 1 \in S /\ (m - 1) + 1 = m
  BY <1>3, <1>4
<1> QED BY <1>2, <1>5

-----------------------------------------------------------------------------
\* Cliff's delta

\* Sets that share nothing
LEMMA Apart ==
    ASSUME NEW S, NEW T, IsFiniteSet(S), IsFiniteSet(T), S \cap T = {}
    PROVE  /\ IsFiniteSet(S \cup T)
           /\ Cardinality(S) \in Nat /\ Cardinality(T) \in Nat
           /\ Cardinality(S \cup T) = Cardinality(S) + Cardinality(T)
<1>1. Cardinality(S \cap T) = 0
  BY FS_EmptySet
<1>2. Cardinality(S) \in Nat /\ Cardinality(T) \in Nat
  BY FS_CardinalityType
<1>3. /\ IsFiniteSet(S \cup T)
      /\ Cardinality(S \cup T) = Cardinality(S) + Cardinality(T) - Cardinality(S \cap T)
  BY FS_Union
<1> QED BY <1>1, <1>2, <1>3

\* As many images as arguments
LEMMA Images ==
    ASSUME NEW S, NEW T, IsFiniteSet(S), NEW f \in [S -> T],
           \A x, y \in S : f[x] = f[y] => x = y, \A y \in T : \E x \in S : f[x] = y
    PROVE  IsFiniteSet(T) /\ Cardinality(T) = Cardinality(S)
<1>1. f \in Bijection(S, T)
  BY DEF Bijection, Injection, Surjection, IsInjective
<1>2. ExistsBijection(S, T)
  BY <1>1 DEF ExistsBijection
<1> QED BY <1>2, FS_Bijection

Below(s, x) == {i \in DOMAIN s : s[i] < x}
Level(s, x) == {i \in DOMAIN s : s[i] = x}
Above(s, x) == {i \in DOMAIN s : s[i] > x}

\* A list is what is below a number, at it and above it.
LEMMA Thirds ==
    ASSUME NEW s \in Seq(Int), NEW x \in Int
    PROVE  /\ Cardinality(Below(s, x)) \in Nat /\ Cardinality(Level(s, x)) \in Nat
           /\ Cardinality(Above(s, x)) \in Nat /\ Len(s) \in Nat
           /\ Cardinality(Below(s, x)) + Cardinality(Level(s, x))
                + Cardinality(Above(s, x)) = Len(s)
           /\ IsFiniteSet(Below(s, x)) /\ IsFiniteSet(Level(s, x))
           /\ IsFiniteSet(Above(s, x))
<1>1. DOMAIN s = 1..Len(s) /\ Len(s) \in Nat /\ \A i \in DOMAIN s : s[i] \in Int
  BY SeqFacts
<1>2. IsFiniteSet(DOMAIN s) /\ Cardinality(DOMAIN s) = Len(s)
  BY <1>1, Positions
<1>3. /\ Below(s, x) \subseteq DOMAIN s /\ Level(s, x) \subseteq DOMAIN s
      /\ Above(s, x) \subseteq DOMAIN s
  BY DEF Below, Level, Above
<1>4. IsFiniteSet(Below(s, x)) /\ IsFiniteSet(Level(s, x)) /\ IsFiniteSet(Above(s, x))
  BY <1>2, <1>3, FS_Subset
<1>5. /\ Below(s, x) \cap Level(s, x) = {}
      /\ (Below(s, x) \cup Level(s, x)) \cap Above(s, x) = {}
      /\ (Below(s, x) \cup Level(s, x)) \cup Above(s, x) = DOMAIN s
  BY <1>1 DEF Below, Level, Above
<1>6. /\ Cardinality(Below(s, x) \cup Level(s, x))
           = Cardinality(Below(s, x)) + Cardinality(Level(s, x))
      /\ IsFiniteSet(Below(s, x) \cup Level(s, x))
  BY <1>4, <1>5, Apart
<1>7. Cardinality((Below(s, x) \cup Level(s, x)) \cup Above(s, x))
        = Cardinality(Below(s, x) \cup Level(s, x)) + Cardinality(Above(s, x))
  BY <1>4, <1>5, <1>6, Apart
<1> QED BY <1>1, <1>2, <1>4, <1>5, <1>6, <1>7, FS_CardinalityType

\* Places of a first list and of a second one are those of both, one after the other.
LEMMA Joined ==
    ASSUME NEW a \in Seq(Int), NEW b \in Seq(Int), NEW S, NEW T, NEW R,
           S \subseteq DOMAIN a, T \subseteq DOMAIN b,
           R = S \cup {i + Len(a) : i \in T}
    PROVE  Cardinality(R) = Cardinality(S) + Cardinality(T)
<1> DEFINE n == Len(a)
           U == {i + n : i \in T}
           f == [i \in T |-> i + n]
<1>1. DOMAIN a = 1..n /\ n \in Nat /\ DOMAIN b = 1..Len(b) /\ Len(b) \in Nat
  BY SeqFacts
<1>2. IsFiniteSet(S) /\ IsFiniteSet(T)
  BY <1>1, Positions, FS_Subset
<1>3. T \subseteq Nat \ {0}
  BY <1>1
<1>4. IsFiniteSet(U) /\ Cardinality(U) = Cardinality(T)
  <2> HIDE DEF n
  <2>1. /\ f \in [T -> U] /\ \A x, y \in T : f[x] = f[y] => x = y
        /\ \A y \in U : \E x \in T : f[x] = y
    BY <1>1, <1>3
  <2> HIDE DEF f, U
  <2> QED BY <1>2, <2>1, Images
<1>5. S \cap U = {}
  <2> HIDE DEF n
  <2> QED BY <1>1, <1>3
<1> HIDE DEF U
<1>6. Cardinality(S \cup U) = Cardinality(S) + Cardinality(U)
  BY <1>2, <1>4, <1>5, Apart
<1> QED BY <1>4, <1>6 DEF U

\* Two lists have what each has below a number, and at it.
LEMMA Concatenated ==
    ASSUME NEW a \in Seq(Int), NEW b \in Seq(Int), NEW x \in Int
    PROVE  /\ Cardinality(Below(a \o b, x))
                = Cardinality(Below(a, x)) + Cardinality(Below(b, x))
           /\ Cardinality(Level(a \o b, x))
                = Cardinality(Level(a, x)) + Cardinality(Level(b, x))
<1> DEFINE n == Len(a)
           m == Len(b)
           c == a \o b
<1>1. /\ n \in Nat /\ m \in Nat /\ DOMAIN a = 1..n /\ DOMAIN b = 1..m
      /\ DOMAIN c = 1..(n + m)
      /\ \A i \in 1..n : c[i] = a[i]
      /\ \A i \in 1..m : c[i + n] = b[i]
  OBVIOUS
<1>2. \A i \in 1..(n + m) : i \in 1..n \/ \E j \in 1..m : i = j + n
  <2> SUFFICES ASSUME NEW i \in 1..(n + m), i \notin 1..n PROVE \E j \in 1..m : i = j + n
    OBVIOUS
  <2>1. i - n \in 1..m /\ i = (i - n) + n
    BY <1>1
  <2> QED BY <2>1
<1>3. \A i \in 1..n : i \in 1..(n + m)
  BY <1>1
<1>4. \A i \in 1..m : i + n \in 1..(n + m)
  BY <1>1
<1> HIDE DEF c
<1>5. Below(c, x) = Below(a, x) \cup {i + n : i \in Below(b, x)}
  <2>1. ASSUME NEW i \in Below(c, x)
        PROVE  i \in Below(a, x) \cup {j + n : j \in Below(b, x)}
    <3>1. CASE i \in 1..n
      BY <1>1, <2>1, <3>1 DEF Below
    <3>2. CASE i \notin 1..n
      <4>1. PICK j \in 1..m : i = j + n
        BY <1>1, <1>2, <2>1, <3>2 DEF Below
      <4>2. j \in Below(b, x)
        BY <1>1, <2>1, <4>1 DEF Below
      <4> QED BY <4>1, <4>2
    <3> QED BY <3>1, <3>2
  <2>2. Below(a, x) \subseteq Below(c, x)
    BY <1>1, <1>3 DEF Below
  <2>3. ASSUME NEW i \in Below(b, x) PROVE i + n \in Below(c, x)
    BY <1>1, <1>4 DEF Below
  <2> QED BY <2>1, <2>2, <2>3
<1>6. Level(c, x) = Level(a, x) \cup {i + n : i \in Level(b, x)}
  <2>1. ASSUME NEW i \in Level(c, x)
        PROVE  i \in Level(a, x) \cup {j + n : j \in Level(b, x)}
    <3>1. CASE i \in 1..n
      BY <1>1, <2>1, <3>1 DEF Level
    <3>2. CASE i \notin 1..n
      <4>1. PICK j \in 1..m : i = j + n
        BY <1>1, <1>2, <2>1, <3>2 DEF Level
      <4>2. j \in Level(b, x)
        BY <1>1, <2>1, <4>1 DEF Level
      <4> QED BY <4>1, <4>2
    <3> QED BY <3>1, <3>2
  <2>2. Level(a, x) \subseteq Level(c, x)
    BY <1>1, <1>3 DEF Level
  <2>3. ASSUME NEW i \in Level(b, x) PROVE i + n \in Level(c, x)
    BY <1>1, <1>4 DEF Level
  <2> QED BY <2>1, <2>2, <2>3
<1>7. /\ Below(a, x) \subseteq DOMAIN a /\ Below(b, x) \subseteq DOMAIN b
      /\ Level(a, x) \subseteq DOMAIN a /\ Level(b, x) \subseteq DOMAIN b
  BY DEF Below, Level
<1>8. Cardinality(Below(c, x)) = Cardinality(Below(a, x)) + Cardinality(Below(b, x))
  BY <1>5, <1>7, Joined
<1>9. Cardinality(Level(c, x)) = Cardinality(Level(a, x)) + Cardinality(Level(b, x))
  BY <1>6, <1>7, Joined
<1> QED BY <1>8, <1>9 DEF c

Won(a, s, k) == {c \in (1..k) \X DOMAIN s : a[c[1]] > s[c[2]]}
Lost(a, s, k) == {c \in (1..k) \X DOMAIN s : a[c[1]] < s[c[2]]}

\* W is P, over the rows of K, with a row k more, that of E
Rows(K, D, k, E, P, W) ==
    /\ IsFiniteSet(K) /\ IsFiniteSet(D) /\ k \notin K
    /\ E \subseteq D /\ P \subseteq K \X D
    /\ \A w : w \in W <=> w \in P \/ \E j \in E : w = <<k, j>>

\* A row adds what it has to what the rows before it have.
LEMMA Row ==
    ASSUME NEW K, NEW D, NEW k, NEW E, NEW P, NEW W, Rows(K, D, k, E, P, W)
    PROVE  /\ IsFiniteSet(W)
           /\ Cardinality(P) \in Nat /\ Cardinality(E) \in Nat
           /\ Cardinality(W) = Cardinality(P) + Cardinality(E)
<1> USE DEF Rows
<1> DEFINE U == {<<k, j>> : j \in E}
           f == [j \in E |-> <<k, j>>]
<1>1. IsFiniteSet(P)
  <2>1. IsFiniteSet(K \X D)
    BY FS_Product
  <2> QED BY <2>1, FS_Subset
<1>2. IsFiniteSet(E)
  BY FS_Subset
<1>3. IsFiniteSet(U) /\ Cardinality(U) = Cardinality(E)
  <2>1. /\ f \in [E -> U] /\ \A x, y \in E : f[x] = f[y] => x = y
        /\ \A y \in U : \E x \in E : f[x] = y
    OBVIOUS
  <2> HIDE DEF f, U
  <2> QED BY <1>2, <2>1, Images
<1>4. P \cap U = {}
  OBVIOUS
<1> HIDE DEF U
<1>5. /\ IsFiniteSet(P \cup U) /\ Cardinality(P) \in Nat /\ Cardinality(U) \in Nat
      /\ Cardinality(P \cup U) = Cardinality(P) + Cardinality(U)
  BY <1>1, <1>3, <1>4, Apart
<1>6. W = P \cup U
  BY DEF U
<1> QED BY <1>3, <1>5, <1>6

\* The pairs won, and those lost, by one score more
LEMMA NextRow ==
    ASSUME NEW a \in Seq(Int), NEW s \in Seq(Int), NEW k \in 1..Len(a)
    PROVE  /\ Cardinality(Won(a, s, k)) \in Nat /\ Cardinality(Lost(a, s, k)) \in Nat
           /\ Cardinality(Won(a, s, k - 1)) \in Nat /\ Cardinality(Lost(a, s, k - 1)) \in Nat
           /\ Cardinality(Won(a, s, k))
                = Cardinality(Won(a, s, k - 1)) + Cardinality(Below(s, a[k]))
           /\ Cardinality(Lost(a, s, k))
                = Cardinality(Lost(a, s, k - 1)) + Cardinality(Above(s, a[k]))
<1>1. /\ Len(a) \in Nat /\ Len(s) \in Nat /\ DOMAIN a = 1..Len(a) /\ DOMAIN s = 1..Len(s)
      /\ a[k] \in Int /\ \A j \in DOMAIN s : s[j] \in Int
  BY SeqFacts
<1>2. k \in Nat \ {0} /\ k - 1 \in Nat /\ \A i : i \in 1..k <=> i \in 1..(k - 1) \/ i = k
  BY <1>1
<1>3. IsFiniteSet(DOMAIN s)
  BY <1>1, Positions
<1>4. /\ Below(s, a[k]) \in SUBSET DOMAIN s /\ Above(s, a[k]) \in SUBSET DOMAIN s
      /\ Won(a, s, k - 1) \in SUBSET ((1..(k - 1)) \X DOMAIN s)
      /\ Lost(a, s, k - 1) \in SUBSET ((1..(k - 1)) \X DOMAIN s)
  BY DEF Below, Above, Won, Lost
<1>5. Won(a, s, k) = Won(a, s, k - 1) \cup {<<k, j>> : j \in Below(s, a[k])}
  <2>1. ASSUME NEW c \in Won(a, s, k)
        PROVE  c \in Won(a, s, k - 1) \cup {<<k, j>> : j \in Below(s, a[k])}
    <3>1. /\ c \in (1..k) \X DOMAIN s /\ a[c[1]] > s[c[2]]
          /\ c = <<c[1], c[2]>> /\ c[1] \in 1..k /\ c[2] \in DOMAIN s
      BY DEF Won
    <3>2. CASE c[1] = k
      BY <1>1, <3>1, <3>2 DEF Below
    <3>3. CASE c[1] \in 1..(k - 1)
      BY <3>1, <3>3 DEF Won
    <3> QED BY <1>2, <3>1, <3>2, <3>3
  <2>2. ASSUME NEW j \in Below(s, a[k]) PROVE <<k, j>> \in Won(a, s, k)
    BY <1>1, <1>2 DEF Won, Below
  <2>3. Won(a, s, k - 1) \subseteq Won(a, s, k)
    BY <1>2 DEF Won
  <2> QED BY <2>1, <2>2, <2>3
<1>6. Lost(a, s, k) = Lost(a, s, k - 1) \cup {<<k, j>> : j \in Above(s, a[k])}
  <2>1. ASSUME NEW c \in Lost(a, s, k)
        PROVE  c \in Lost(a, s, k - 1) \cup {<<k, j>> : j \in Above(s, a[k])}
    <3>1. /\ c \in (1..k) \X DOMAIN s /\ a[c[1]] < s[c[2]]
          /\ c = <<c[1], c[2]>> /\ c[1] \in 1..k /\ c[2] \in DOMAIN s
      BY DEF Lost
    <3>2. CASE c[1] = k
      BY <1>1, <3>1, <3>2 DEF Above
    <3>3. CASE c[1] \in 1..(k - 1)
      BY <3>1, <3>3 DEF Lost
    <3> QED BY <1>2, <3>1, <3>2, <3>3
  <2>2. ASSUME NEW j \in Above(s, a[k]) PROVE <<k, j>> \in Lost(a, s, k)
    BY <1>1, <1>2 DEF Lost, Above
  <2>3. Lost(a, s, k - 1) \subseteq Lost(a, s, k)
    BY <1>2 DEF Lost
  <2> QED BY <2>1, <2>2, <2>3
<1>7. /\ IsFiniteSet(Won(a, s, k))
      /\ Cardinality(Won(a, s, k - 1)) \in Nat /\ Cardinality(Below(s, a[k])) \in Nat
      /\ Cardinality(Won(a, s, k))
           = Cardinality(Won(a, s, k - 1)) + Cardinality(Below(s, a[k]))
  <2> DEFINE W == Won(a, s, k)
             P == Won(a, s, k - 1)
             E == Below(s, a[k])
             D == DOMAIN s
             K == 1..(k - 1)
  <2>1. /\ E \subseteq D /\ P \subseteq K \X D
        /\ IsFiniteSet(D)
        /\ \A w : w \in W <=> w \in P \/ \E j \in E : w = <<k, j>>
    BY <1>3, <1>4, <1>5
  <2>2. IsFiniteSet(K) /\ k \notin K
    BY <1>2, Positions
  <2> HIDE DEF W, P, E, D, K
  <2>3. IsFiniteSet(W) /\ Cardinality(P) \in Nat /\ Cardinality(E) \in Nat
        /\ Cardinality(W) = Cardinality(P) + Cardinality(E)
    <3>1. Rows(K, D, k, E, P, W)
      BY <2>1, <2>2 DEF Rows
    <3> QED BY <3>1, Row
  <2> QED BY <2>3 DEF W, P, E
<1>8. /\ IsFiniteSet(Lost(a, s, k))
      /\ Cardinality(Lost(a, s, k - 1)) \in Nat /\ Cardinality(Above(s, a[k])) \in Nat
      /\ Cardinality(Lost(a, s, k))
           = Cardinality(Lost(a, s, k - 1)) + Cardinality(Above(s, a[k]))
  <2> DEFINE W == Lost(a, s, k)
             P == Lost(a, s, k - 1)
             E == Above(s, a[k])
             D == DOMAIN s
             K == 1..(k - 1)
  <2>1. /\ E \subseteq D /\ P \subseteq K \X D
        /\ IsFiniteSet(D)
        /\ \A w : w \in W <=> w \in P \/ \E j \in E : w = <<k, j>>
    BY <1>3, <1>4, <1>6
  <2>2. IsFiniteSet(K) /\ k \notin K
    BY <1>2, Positions
  <2> HIDE DEF W, P, E, D, K
  <2>3. IsFiniteSet(W) /\ Cardinality(P) \in Nat /\ Cardinality(E) \in Nat
        /\ Cardinality(W) = Cardinality(P) + Cardinality(E)
    <3>1. Rows(K, D, k, E, P, W)
      BY <2>1, <2>2 DEF Rows
    <3> QED BY <3>1, Row
  <2> QED BY <2>3 DEF W, P, E
<1> QED BY <1>7, <1>8, FS_CardinalityType

Recursive(f, N, V, base, step) ==
    f \in [0..N -> V] /\ f[0] = base /\ \A n \in 1..N : f[n] = step[n][f[n - 1]]

\* A function on 0..N may be defined by recursion over a set.
LEMMA RecursionExists ==
    ASSUME NEW N \in Nat, NEW V, NEW base \in V, NEW step \in [1..N -> [V -> V]]
    PROVE  \E f : Recursive(f, N, V, base, step)
<1> DEFINE S == {m \in 0..N : \E f \in [0..m -> V] :
                    f[0] = base /\ \A n \in 1..m : f[n] = step[n][f[n - 1]]}
<1>1. 0 \in S
  <2> DEFINE f == [n \in 0..0 |-> base]
  <2>1. f \in [0..0 -> V] /\ f[0] = base /\ \A n \in 1..0 : f[n] = step[n][f[n - 1]]
    OBVIOUS
  <2>2. 0 \in 0..N
    OBVIOUS
  <2> HIDE DEF f
  <2> QED BY <2>1, <2>2
<1>2. ASSUME NEW m \in 0..(N - 1), m \in S
      PROVE  m + 1 \in S
  <2>1. PICK f \in [0..m -> V] : f[0] = base /\ \A n \in 1..m : f[n] = step[n][f[n - 1]]
    BY <1>2
  <2> DEFINE g == [n \in 0..(m + 1) |-> IF n = m + 1 THEN step[m + 1][f[m]] ELSE f[n]]
  <2>2. m + 1 \in 1..N /\ m \in 0..m /\ m + 1 \in 0..N /\ m + 1 \in 0..(m + 1)
    OBVIOUS
  <2>3. step[m + 1][f[m]] \in V
    BY <2>1, <2>2
  <2>4. \A n \in 0..(m + 1) : n = m + 1 \/ n \in 0..m
    OBVIOUS
  <2>5. g \in [0..(m + 1) -> V]
    BY <2>1, <2>3, <2>4
  <2>6. 0 \in 0..(m + 1) /\ g[0] = base
    BY <2>1
  <2>7. ASSUME NEW n \in 1..(m + 1) PROVE g[n] = step[n][g[n - 1]]
    <3>1. CASE n = m + 1
      <4>1. n - 1 = m /\ m \in 0..(m + 1) /\ m # m + 1
        BY <3>1
      <4>2. g[n - 1] = f[m] /\ g[n] = step[m + 1][f[m]]
        BY <2>2, <3>1, <4>1
      <4> QED BY <3>1, <4>2
    <3>2. CASE n # m + 1
      <4>1. n \in 1..m /\ n - 1 \in 0..m /\ n \in 0..(m + 1) /\ n - 1 \in 0..(m + 1)
            /\ n - 1 # m + 1
        BY <3>2
      <4>2. g[n] = f[n] /\ g[n - 1] = f[n - 1]
        BY <3>2, <4>1
      <4> QED BY <2>1, <4>1, <4>2
    <3> QED BY <3>1, <3>2
  <2> HIDE DEF g
  <2> QED BY <2>2, <2>5, <2>6, <2>7
<1> HIDE DEF S
<1>3. 0..N \subseteq S
  BY <1>1, <1>2, Climb
<1>4. N \in S
  BY <1>3
<1> QED BY <1>4 DEF S, Recursive


Rank(a, b, x) == 2 * Cardinality(Below(a \o b, x)) + Cardinality(Level(a \o b, x)) + 1

\* The sum of the ranks of the first k
LEMMA RankSums ==
    ASSUME NEW a \in Seq(Int), NEW b \in Seq(Int)
    PROVE  \E f : /\ f[0] = 0
                  /\ \A k \in 1..Len(a) : f[k] = f[k - 1] + Rank(a, b, a[k])
                  /\ CliffsDelta(a, b) = (f[Len(a)] - Len(a) * (Len(a) + 1)) - Len(a) * Len(b)
<1> DEFINE N == Len(a)
           r(k) == Rank(a, b, a[k])
           step == [n \in 1..N |-> [v \in Int |-> v + r(n)]]
           Fixed(f) == f = [k \in 0..N |-> IF k = 0 THEN 0 ELSE f[k - 1] + r(k)]
<1>1. N \in Nat /\ 0 \in Int /\ DOMAIN a = 1..N /\ \A k \in 1..N : a[k] \in Int
  BY SeqFacts
<1>2. \A k \in 1..N : r(k) \in Int
  <2>1. ASSUME NEW x \in Int PROVE Rank(a, b, x) \in Int
    <3>1. /\ Cardinality(Below(a, x)) \in Nat /\ Cardinality(Below(b, x)) \in Nat
          /\ Cardinality(Level(a, x)) \in Nat /\ Cardinality(Level(b, x)) \in Nat
      BY Thirds
    <3>2. Cardinality(Below(a \o b, x)) \in Nat /\ Cardinality(Level(a \o b, x)) \in Nat
      BY <3>1, Concatenated
    <3> QED BY <3>2 DEF Rank
  <2> QED BY <1>1, <2>1
<1>3. step \in [1..N -> [Int -> Int]]
  <2> HIDE DEF r
  <2> QED BY <1>2
<1>4. \E f : Fixed(f)
  <2> HIDE DEF step, N
  <2>1. PICK f : Recursive(f, N, Int, 0, step)
    BY <1>1, <1>3, RecursionExists
  <2>2. /\ f \in [0..N -> Int]
        /\ f[0] = 0 /\ \A n \in 1..N : f[n] = step[n][f[n - 1]]
    BY <2>1 DEF Recursive
  <2> HIDE DEF r
  <2>3. ASSUME NEW n \in 0..N
        PROVE  f[n] = IF n = 0 THEN 0 ELSE f[n - 1] + r(n)
    <3>1. CASE n = 0
      BY <2>2, <3>1
    <3>2. CASE n # 0
      <4>1. n \in 1..N /\ n - 1 \in 0..N
        BY <1>1, <3>2
      <4>2. step[n][f[n - 1]] = f[n - 1] + r(n)
        BY <2>2, <4>1 DEF step
      <4> QED BY <2>2, <3>2, <4>1, <4>2
    <3> QED BY <3>1, <3>2
  <2>4. Fixed(f)
    BY <2>2, <2>3
  <2> QED BY <2>4
<1> DEFINE f == CHOOSE f : Fixed(f)
<1>5. Fixed(f)
  BY <1>4
<1>6. CliffsDelta(a, b) = (f[N] - N * (N + 1)) - N * Len(b)
  BY DEF CliffsDelta, Rank, Below, Level
<1> HIDE DEF f, r
<1>7. f[0] = 0 /\ \A n \in 1..N : f[n] = f[n - 1] + r(n)
  <2>1. \A n \in 0..N : f[n] = IF n = 0 THEN 0 ELSE f[n - 1] + r(n)
    BY <1>5
  <2> HIDE DEF N
  <2>2. 0 \in 0..N /\ \A n \in 1..N : n \in 0..N /\ n # 0
    BY <1>1
  <2> QED BY <2>1, <2>2
<1> QED BY <1>6, <1>7 DEF r

\* Against itself a run wins as often as it loses.
LEMMA NoneAgainstItself ==
    ASSUME NEW a \in Seq(Int)
    PROVE  /\ Cardinality(Won(a, a, Len(a))) = Cardinality(Lost(a, a, Len(a)))
           /\ Cardinality(Won(a, a, Len(a))) \in Nat
<1> DEFINE W == Won(a, a, Len(a))
           L == Lost(a, a, Len(a))
           f == [c \in W |-> <<c[2], c[1]>>]
<1>1. DOMAIN a = 1..Len(a) /\ Len(a) \in Nat /\ \A k \in DOMAIN a : a[k] \in Int
  BY SeqFacts
<1>2. IsFiniteSet(W)
  <2>1. IsFiniteSet((1..Len(a)) \X DOMAIN a)
    BY <1>1, Positions, FS_Product
  <2>2. W \subseteq (1..Len(a)) \X DOMAIN a
    BY DEF Won
  <2> QED BY <2>1, <2>2, FS_Subset
<1>3. \A c \in W : c = <<c[1], c[2]>> /\ <<c[2], c[1]>> \in L
  BY <1>1 DEF Won, Lost
<1>4. \A c \in L : c = <<c[1], c[2]>> /\ <<c[2], c[1]>> \in W
  BY <1>1 DEF Won, Lost
<1> HIDE DEF W, L
<1>5. f \in [W -> L] /\ \A x, y \in W : f[x] = f[y] => x = y
  BY <1>3
<1>6. ASSUME NEW y \in L PROVE \E x \in W : f[x] = y
  <2>1. <<y[2], y[1]>> \in W /\ f[<<y[2], y[1]>>] = <<y[1], y[2]>>
    BY <1>4
  <2> QED BY <1>4, <2>1
<1> HIDE DEF f
<1>7. Cardinality(L) = Cardinality(W) /\ Cardinality(W) \in Nat
  BY <1>2, <1>5, <1>6, Images, FS_CardinalityType
<1> QED BY <1>7 DEF W, L

\* What the first k of a win less what they lose
Lead(a, s, k) == Cardinality(Won(a, s, k)) - Cardinality(Lost(a, s, k))

\* By one score more, the lead within the list and over the other grows by its rank.
LEMMA LeadGrows ==
    ASSUME NEW a \in Seq(Int), NEW b \in Seq(Int), NEW k \in 1..Len(a)
    PROVE  /\ Lead(a, a, k) \in Int /\ Lead(a, b, k) \in Int
           /\ Lead(a, a, k - 1) \in Int /\ Lead(a, b, k - 1) \in Int
           /\ Rank(a, b, a[k]) \in Int
           /\ Lead(a, a, k) + Lead(a, b, k) + (Len(a) + Len(b) + 1)
                = Lead(a, a, k - 1) + Lead(a, b, k - 1) + Rank(a, b, a[k])
<1>1. a[k] \in Int /\ Len(a) \in Nat /\ Len(b) \in Nat
  BY SeqFacts
<1> DEFINE x == a[k]
<1>2. /\ Cardinality(Below(a, x)) \in Nat /\ Cardinality(Level(a, x)) \in Nat
      /\ Cardinality(Above(a, x)) \in Nat
      /\ Cardinality(Below(a, x)) + Cardinality(Level(a, x))
           + Cardinality(Above(a, x)) = Len(a)
  BY <1>1, Thirds
<1>3. /\ Cardinality(Below(b, x)) \in Nat /\ Cardinality(Level(b, x)) \in Nat
      /\ Cardinality(Above(b, x)) \in Nat
      /\ Cardinality(Below(b, x)) + Cardinality(Level(b, x))
           + Cardinality(Above(b, x)) = Len(b)
  BY <1>1, Thirds
<1>4. Rank(a, b, x) = 2 * (Cardinality(Below(a, x)) + Cardinality(Below(b, x)))
                        + (Cardinality(Level(a, x)) + Cardinality(Level(b, x))) + 1
  BY <1>1, Concatenated DEF Rank
<1>5. /\ Cardinality(Won(a, a, k)) \in Nat /\ Cardinality(Lost(a, a, k)) \in Nat
      /\ Cardinality(Won(a, a, k - 1)) \in Nat /\ Cardinality(Lost(a, a, k - 1)) \in Nat
      /\ Cardinality(Won(a, a, k)) = Cardinality(Won(a, a, k - 1)) + Cardinality(Below(a, x))
      /\ Cardinality(Lost(a, a, k)) = Cardinality(Lost(a, a, k - 1)) + Cardinality(Above(a, x))
  BY NextRow
<1>6. /\ Cardinality(Won(a, b, k)) \in Nat /\ Cardinality(Lost(a, b, k)) \in Nat
      /\ Cardinality(Won(a, b, k - 1)) \in Nat /\ Cardinality(Lost(a, b, k - 1)) \in Nat
      /\ Cardinality(Won(a, b, k)) = Cardinality(Won(a, b, k - 1)) + Cardinality(Below(b, x))
      /\ Cardinality(Lost(a, b, k)) = Cardinality(Lost(a, b, k - 1)) + Cardinality(Above(b, x))
  BY NextRow
<1> HIDE DEF x
<1> SUFFICES /\ Lead(a, a, k) \in Int /\ Lead(a, b, k) \in Int
             /\ Lead(a, a, k - 1) \in Int /\ Lead(a, b, k - 1) \in Int
             /\ Rank(a, b, x) \in Int
             /\ Lead(a, a, k) + Lead(a, b, k) + (Len(a) + Len(b) + 1)
                  = Lead(a, a, k - 1) + Lead(a, b, k - 1) + Rank(a, b, x)
  BY DEF x
<1>7. PICK n \in Nat, al \in Nat, ae \in Nat, ag \in Nat :
         /\ n = Len(a) /\ al = Cardinality(Below(a, x)) /\ ae = Cardinality(Level(a, x))
         /\ ag = Cardinality(Above(a, x)) /\ al + ae + ag = n
  BY <1>1, <1>2
<1>8. PICK m \in Nat, bl \in Nat, be \in Nat, bg \in Nat :
         /\ m = Len(b) /\ bl = Cardinality(Below(b, x)) /\ be = Cardinality(Level(b, x))
         /\ bg = Cardinality(Above(b, x)) /\ bl + be + bg = m
  BY <1>1, <1>3
<1>9. PICK aw \in Nat, as \in Nat, bw \in Nat, bs \in Nat :
         /\ aw = Cardinality(Won(a, a, k - 1)) /\ as = Cardinality(Lost(a, a, k - 1))
         /\ bw = Cardinality(Won(a, b, k - 1)) /\ bs = Cardinality(Lost(a, b, k - 1))
  BY <1>5, <1>6
<1>10. /\ Cardinality(Won(a, a, k)) = aw + al /\ Cardinality(Lost(a, a, k)) = as + ag
       /\ Cardinality(Won(a, b, k)) = bw + bl /\ Cardinality(Lost(a, b, k)) = bs + bg
  BY <1>5, <1>6, <1>7, <1>8, <1>9
<1>11. /\ Lead(a, a, k - 1) = aw - as /\ Lead(a, b, k - 1) = bw - bs
       /\ Lead(a, a, k) = (aw + al) - (as + ag) /\ Lead(a, b, k) = (bw + bl) - (bs + bg)
  BY <1>9, <1>10 DEF Lead
<1>12. Rank(a, b, x) = 2 * (al + bl) + (ae + be) + 1
  BY <1>4, <1>7, <1>8
<1>13. /\ aw - as \in Int /\ bw - bs \in Int
       /\ (aw + al) - (as + ag) \in Int /\ (bw + bl) - (bs + bg) \in Int
       /\ 2 * (al + bl) + (ae + be) + 1 \in Int
  OBVIOUS
<1>14. ((aw + al) - (as + ag)) + ((bw + bl) - (bs + bg)) + (n + m + 1)
         = (aw - as) + (bw - bs) + (2 * (al + bl) + (ae + be) + 1)
  <2>1. ((aw + al) - (as + ag)) + ((bw + bl) - (bs + bg))
             + ((al + ae + ag) + (bl + be + bg) + 1)
          = (aw - as) + (bw - bs) + (2 * (al + bl) + (ae + be) + 1)
    OBVIOUS
  <2>2. al + ae + ag = n /\ bl + be + bg = m
    BY <1>7, <1>8
  <2> QED BY <2>1, <2>2
<1> QED BY <1>7, <1>8, <1>11, <1>12, <1>13, <1>14

\* The midranks count the pairs won less the pairs lost.
LEMMA CliffIsDominance ==
    ASSUME NEW a \in Seq(Int), NEW b \in Seq(Int)
    PROVE  CliffsDelta(a, b) = Dominance(a, b)
<1>1. PICK f : /\ f[0] = 0
               /\ \A k \in 1..Len(a) : f[k] = f[k - 1] + Rank(a, b, a[k])
               /\ CliffsDelta(a, b)
                    = (f[Len(a)] - Len(a) * (Len(a) + 1)) - Len(a) * Len(b)
  BY RankSums
<1>2. PICK n \in Nat : n = Len(a)
  BY SeqFacts
<1>3. PICK m \in Nat : m = Len(b)
  BY SeqFacts
<1> DEFINE S == {k \in 0..n : /\ Lead(a, a, k) \in Int /\ Lead(a, b, k) \in Int
                              /\ f[k] = k * (n + m + 1) + (Lead(a, a, k) + Lead(a, b, k))}
<1>4. 0 \in S
  <2>1. /\ Won(a, a, 0) = {} /\ Lost(a, a, 0) = {}
        /\ Won(a, b, 0) = {} /\ Lost(a, b, 0) = {}
    BY DEF Won, Lost
  <2>2. Lead(a, a, 0) = 0 /\ Lead(a, b, 0) = 0
    <3>1. Cardinality({}) = 0 /\ 0 - 0 = 0
      BY FS_EmptySet
    <3> QED BY <2>1, <3>1 DEF Lead
  <2> QED BY <1>1, <2>2
<1>5. ASSUME NEW k \in 0..(n - 1), k \in S PROVE k + 1 \in S
  <2>1. k + 1 \in 1..n /\ (k + 1) - 1 = k /\ k + 1 \in 0..n
    OBVIOUS
  <2>2. /\ Lead(a, a, k + 1) \in Int /\ Lead(a, b, k + 1) \in Int
        /\ Lead(a, a, k) \in Int /\ Lead(a, b, k) \in Int
        /\ Rank(a, b, a[k + 1]) \in Int
        /\ Lead(a, a, k + 1) + Lead(a, b, k + 1) + (n + m + 1)
             = Lead(a, a, k) + Lead(a, b, k) + Rank(a, b, a[k + 1])
    BY <1>2, <1>3, <2>1, LeadGrows
  <2>3. f[k + 1] = f[k] + Rank(a, b, a[k + 1])
    BY <1>1, <1>2, <2>1
  <2>4. f[k] = k * (n + m + 1) + (Lead(a, a, k) + Lead(a, b, k))
    BY <1>5
  <2>5. (k + 1) * (n + m + 1) = k * (n + m + 1) + (n + m + 1)
    OBVIOUS
  <2>6. PICK q \in Int : q = k * (n + m + 1)
    OBVIOUS
  <2>7. PICK u \in Int, v \in Int, w \in Int, x \in Int, y \in Int :
           /\ u = Lead(a, a, k + 1) /\ v = Lead(a, b, k + 1)
           /\ w = Lead(a, a, k) /\ x = Lead(a, b, k) /\ y = Rank(a, b, a[k + 1])
    BY <2>2
  <2>8. f[k + 1] = (k + 1) * (n + m + 1) + (Lead(a, a, k + 1) + Lead(a, b, k + 1))
    <3>1. u + v + (n + m + 1) = w + x + y
      BY <2>2, <2>7
    <3>2. f[k + 1] = q + (w + x) + y
      BY <2>3, <2>4, <2>7, <2>6
    <3>3. (k + 1) * (n + m + 1) + (u + v) = q + (n + m + 1) + (u + v)
      BY <2>5, <2>6
    <3>4. q + (w + x) + y = q + (n + m + 1) + (u + v)
      BY <3>1
    <3> QED BY <2>7, <3>2, <3>3, <3>4
  <2> QED BY <2>1, <2>2, <2>8
<1>6. n \in S
  <2> HIDE DEF S
  <2>1. 0..n \subseteq S
    BY <1>4, <1>5, Climb
  <2> QED BY <2>1
<1>7. Lead(a, a, n) = 0
  <2>1. /\ Cardinality(Won(a, a, n)) = Cardinality(Lost(a, a, n))
        /\ Cardinality(Won(a, a, n)) \in Nat
    BY <1>2, NoneAgainstItself
  <2>2. \A c \in Nat : c - c = 0
    OBVIOUS
  <2> QED BY <2>1, <2>2 DEF Lead
<1>8. Dominance(a, b) = Lead(a, b, n)
  BY <1>2, SeqFacts DEF Dominance, Lead, Won, Lost
<1>9. f[n] = n * (n + m + 1) + Lead(a, b, n) /\ Lead(a, b, n) \in Int
  BY <1>6, <1>7
<1>10. n * (n + m + 1) = n * (n + 1) + n * m /\ n * (n + 1) \in Int /\ n * m \in Int
  OBVIOUS
<1>11. CliffsDelta(a, b) = (f[n] - n * (n + 1)) - n * m
  BY <1>1, <1>2, <1>3
<1> QED BY <1>8, <1>9, <1>10, <1>11

-----------------------------------------------------------------------------
\* Lists

\* SetToSeq lists a finite set once through.
LEMMA Listed ==
    ASSUME NEW S, IsFiniteSet(S)
    PROVE  /\ Cardinality(S) \in Nat
           /\ SetToSeq(S) \in [1..Cardinality(S) -> S]
           /\ \A i, j \in 1..Cardinality(S) : SetToSeq(S)[i] = SetToSeq(S)[j] => i = j
<1>1. PICK n \in Nat : ExistsBijection(1..n, S)
  BY FS_NatBijection
<1>2. Cardinality(S) = n
  BY <1>1, FS_CountingElements
<1>3. PICK f : f \in Bijection(1..n, S)
  BY <1>1 DEF ExistsBijection
<1>4. f \in [1..n -> S] /\ IsInjective(f)
  BY <1>3 DEF Bijection, Injection
<1>5. SetToSeq(S) \in [1..n -> S] /\ IsInjective(SetToSeq(S))
  BY <1>2, <1>4 DEF SetToSeq
<1>6. DOMAIN SetToSeq(S) = 1..n
  BY <1>5
<1> QED BY <1>2, <1>5, <1>6 DEF IsInjective

Cells(ss, n) == {c \in (1..n) \X Nat : c[2] \in 1..Len(ss[c[1]])}

\* A flattened list holds what is in each place of each list, once for each.
Placed(s, ss, n) ==
    \E at \in [1..Len(s) -> Cells(ss, n)] :
        /\ \A k \in 1..Len(s) : s[k] = ss[at[k][1]][at[k][2]]
        /\ \A j, k \in 1..Len(s) : at[j] = at[k] => j = k
        /\ \A c \in Cells(ss, n) : \E k \in 1..Len(s) : at[k] = c

\* FlattenSeq lists what its lists hold, in their order, each once.
LEMMA FlattenLists ==
    ASSUME NEW T, NEW ss \in Seq(Seq(T))
    PROVE  FlattenSeq(ss) \in Seq(T) /\ Placed(FlattenSeq(ss), ss, Len(ss))
<1> DEFINE N == Len(ss)
           V == Seq(T)
           step == [n \in 1..N |-> [s \in V |-> s \o ss[n]]]
           Fixed(f) == f = [n \in 1..N |-> IF n = 1 THEN ss[n] ELSE f[n - 1] \o ss[n]]
<1>1. N \in Nat /\ <<>> \in V /\ \A n \in 1..N : ss[n] \in V
  <2>1. DOMAIN ss = 1..N
    BY SeqFacts
  <2> QED BY <2>1, SeqFacts
<1>2. step \in [1..N -> [V -> V]]
  <2>1. \A n \in 1..N, s \in V : s \o ss[n] \in V
    BY <1>1
  <2> HIDE DEF V
  <2> QED BY <2>1
<1>3. PICK g : Recursive(g, N, V, <<>>, step)
  <2> HIDE DEF step, N
  <2> QED BY <1>1, <1>2, RecursionExists
<1>4. /\ g \in [0..N -> V] /\ g[0] = <<>>
      /\ \A n \in 1..N : g[n] = g[n - 1] \o ss[n]
  <2> HIDE DEF V, N
  <2>1. g \in [0..N -> V] /\ g[0] = <<>> /\ \A n \in 1..N : g[n] = step[n][g[n - 1]]
    BY <1>3 DEF Recursive
  <2>2. \A n \in 1..N : n - 1 \in 0..N
    BY <1>1
  <2> QED BY <2>1, <2>2
<1>5. N # 0 => FlattenSeq(ss) = g[N]
  <2> SUFFICES ASSUME N # 0 PROVE FlattenSeq(ss) = g[N]
    OBVIOUS
  <2> DEFINE h == [n \in 1..N |-> g[n]]
  <2>1. Fixed(h)
    <3>1. ASSUME NEW n \in 1..N
          PROVE  g[n] = IF n = 1 THEN ss[n] ELSE h[n - 1] \o ss[n]
      <4>1. CASE n = 1
        <5>1. g[1] = <<>> \o ss[1] /\ ss[1] \in V
          <6>1. 1 \in 1..N /\ 1 - 1 = 0
            BY <4>1
          <6>2. g[1] = g[1 - 1] \o ss[1] /\ ss[1] \in V
            BY <1>1, <1>4, <6>1
          <6> QED BY <1>4, <6>1, <6>2
        <5>2. \A s \in V : <<>> \o s = s
          OBVIOUS
        <5> QED BY <4>1, <5>1, <5>2
      <4>2. CASE n # 1
        <5>1. n - 1 \in 1..N
          BY <1>1, <4>2
        <5> HIDE DEF N
        <5> QED BY <1>4, <4>2, <5>1
      <4> QED BY <4>1, <4>2
    <3> QED BY <3>1
  <2> HIDE DEF h
  <2> DEFINE f == CHOOSE f : Fixed(f)
  <2>2. Fixed(f)
    BY <2>1
  <2>3. FlattenSeq(ss) = f[N]
    BY DEF FlattenSeq
  <2> HIDE DEF f
  <2>4. \A n \in 1..N : f[n] = IF n = 1 THEN ss[n] ELSE f[n - 1] \o ss[n]
    BY <2>2
  <2> HIDE DEF Fixed
  <2> DEFINE S == {n \in 0..N : n = 0 \/ f[n] = g[n]}
  <2>5. ASSUME NEW n \in 0..(N - 1), n \in S PROVE n + 1 \in S
    <3>1. n + 1 \in 1..N /\ n + 1 \in 0..N /\ (n + 1) - 1 = n
      BY <1>1
    <3>2. CASE n = 0
      <4>1. g[1] = <<>> \o ss[1] /\ ss[1] \in V
        <5>1. 1 \in 1..N /\ 1 - 1 = 0
          BY <3>1, <3>2
        <5>2. g[1] = g[1 - 1] \o ss[1] /\ ss[1] \in V
          BY <1>1, <1>4, <5>1
        <5> QED BY <1>4, <5>1, <5>2
      <4>2. \A s \in V : <<>> \o s = s
        OBVIOUS
      <4>3. f[1] = ss[1]
        BY <2>4, <3>1, <3>2
      <4> QED BY <3>1, <3>2, <4>1, <4>2, <4>3
    <3>3. CASE n # 0
      <4>1. f[n] = g[n] /\ n + 1 # 1
        BY <2>5, <3>3
      <4>2. f[n + 1] = f[n] \o ss[n + 1]
        BY <2>4, <3>1, <4>1
      <4>3. g[n + 1] = g[n] \o ss[n + 1]
        BY <1>4, <3>1
      <4> QED BY <3>1, <4>1, <4>2, <4>3
    <3> QED BY <3>2, <3>3
  <2>6. 0 \in S
    BY <1>1
  <2>7. N \in S
    <3> HIDE DEF S, N
    <3>1. 0..N \subseteq S
      BY <1>1, <2>5, <2>6, Climb
    <3> QED BY <1>1, <3>1
  <2> QED BY <2>3, <2>7
<1>6. N = 0 => FlattenSeq(ss) = g[N]
  <2>1. N = 0 => ss = <<>>
    OBVIOUS
  <2> QED BY <1>4, <2>1 DEF FlattenSeq
<1> HIDE DEF step
<1> DEFINE S == {n \in 0..N : Placed(g[n], ss, n)}
<1>7. 0 \in S
  <2>1. Cells(ss, 0) = {} /\ 1..Len(<<>>) = {}
    BY DEF Cells
  <2>2. Placed(<<>>, ss, 0)
    <3> DEFINE at == [k \in 1..Len(<<>>) |-> 0]
    <3>1. at \in [1..Len(<<>>) -> Cells(ss, 0)]
      BY <2>1
    <3> HIDE DEF at
    <3> QED BY <2>1, <3>1 DEF Placed
  <2> QED BY <1>1, <1>4, <2>2
<1>8. ASSUME NEW n \in 0..(N - 1), n \in S PROVE n + 1 \in S
  <2>1. n + 1 \in 1..N /\ n + 1 \in 0..N /\ n \in 0..N /\ (n + 1) - 1 = n /\ n \in Nat
    BY <1>1
  <2>2. PICK s \in V : s = g[n]
    BY <1>4, <2>1
  <2>3. PICK t \in V : t = ss[n + 1]
    BY <1>1, <2>1
  <2>4. g[n + 1] = s \o t
    BY <1>4, <2>1, <2>2, <2>3
  <2>5. PICK at \in [1..Len(s) -> Cells(ss, n)] :
           /\ \A k \in 1..Len(s) : s[k] = ss[at[k][1]][at[k][2]]
           /\ \A j, k \in 1..Len(s) : at[j] = at[k] => j = k
           /\ \A c \in Cells(ss, n) : \E k \in 1..Len(s) : at[k] = c
    <3>1. Placed(s, ss, n)
      BY <1>8, <2>2
    <3> QED BY <3>1 DEF Placed
  <2>6. PICK l \in Nat, m \in Nat : l = Len(s) /\ m = Len(t)
    BY SeqFacts
  <2>7. /\ Len(s \o t) = l + m
        /\ \A k \in 1..l : (s \o t)[k] = s[k]
        /\ \A k \in 1..m : (s \o t)[k + l] = t[k]
    BY <2>6
  <2>8. Cells(ss, n) \subseteq Cells(ss, n + 1) /\ \A c \in Cells(ss, n) : c[1] # n + 1
    BY <2>1 DEF Cells
  <2>9. \A k \in 1..m : <<n + 1, k>> \in Cells(ss, n + 1)
    BY <2>1, <2>3, <2>6 DEF Cells
  <2>10. \A c \in Cells(ss, n + 1) : c \in Cells(ss, n) \/ \E k \in 1..m : c = <<n + 1, k>>
    <3> SUFFICES ASSUME NEW c \in Cells(ss, n + 1)
                 PROVE  c \in Cells(ss, n) \/ \E k \in 1..m : c = <<n + 1, k>>
      OBVIOUS
    <3>1. c \in (1..(n + 1)) \X Nat /\ c[2] \in 1..Len(ss[c[1]])
      BY DEF Cells
    <3>2. c = <<c[1], c[2]>> /\ c[1] \in 1..(n + 1) /\ c[2] \in Nat
      BY <3>1
    <3>3. CASE c[1] = n + 1
      BY <2>3, <2>6, <3>1, <3>2, <3>3
    <3>4. CASE c[1] # n + 1
      <4>1. c[1] \in 1..n
        BY <2>1, <3>2, <3>4
      <4> QED BY <3>1, <3>2, <4>1 DEF Cells
    <3> QED BY <3>3, <3>4
  <2>11. \A k \in 1..(l + m) : \/ k \in 1..l
                               \/ k \notin 1..l /\ k - l \in 1..m /\ (k - l) + l = k
    OBVIOUS
  <2> DEFINE to == [k \in 1..(l + m) |-> IF k \in 1..l THEN at[k] ELSE <<n + 1, k - l>>]
  <2>12. to \in [1..(l + m) -> Cells(ss, n + 1)]
    <3>1. ASSUME NEW k \in 1..(l + m)
          PROVE  (IF k \in 1..l THEN at[k] ELSE <<n + 1, k - l>>) \in Cells(ss, n + 1)
      <4>1. CASE k \in 1..l
        BY <2>5, <2>6, <2>8, <4>1
      <4>2. CASE k \notin 1..l
        BY <2>9, <2>11, <4>2
      <4> QED BY <4>1, <4>2
    <3> QED BY <3>1
  <2>13. /\ \A k \in 1..l : k \in 1..(l + m) /\ to[k] = at[k] /\ at[k] \in Cells(ss, n)
         /\ \A k \in 1..m : /\ k + l \in 1..(l + m) /\ k + l \notin 1..l
                            /\ to[k + l] = <<n + 1, k>>
    <3>1. \A k \in 1..m : k + l \in 1..(l + m) /\ k + l \notin 1..l /\ (k + l) - l = k
      OBVIOUS
    <3>2. \A k \in 1..l : k \in 1..(l + m)
      OBVIOUS
    <3> QED BY <2>5, <2>6, <3>1, <3>2
  <2> HIDE DEF to
  <2>14. \A k \in 1..(l + m) : (s \o t)[k] = ss[to[k][1]][to[k][2]]
    <3> SUFFICES ASSUME NEW k \in 1..(l + m)
                 PROVE  (s \o t)[k] = ss[to[k][1]][to[k][2]]
      OBVIOUS
    <3>1. CASE k \in 1..l
      BY <2>5, <2>6, <2>7, <2>13, <3>1
    <3>2. CASE k \notin 1..l
      <4>1. PICK i \in 1..m : i + l = k
        BY <2>11, <3>2
      <4>2. (s \o t)[k] = t[i] /\ to[k] = <<n + 1, i>>
        BY <2>7, <2>13, <4>1
      <4> QED BY <2>3, <4>2
    <3> QED BY <3>1, <3>2
  <2>15. \A j, k \in 1..(l + m) : to[j] = to[k] => j = k
    <3>1. \A k \in 1..l : to[k][1] # n + 1
      BY <2>8, <2>13
    <3>2. \A k \in 1..m : to[k + l][1] = n + 1 /\ to[k + l][2] = k
      BY <2>13
    <3> SUFFICES ASSUME NEW j \in 1..(l + m), NEW k \in 1..(l + m), to[j] = to[k]
                 PROVE  j = k
      OBVIOUS
    <3>3. CASE j \in 1..l /\ k \in 1..l
      BY <2>5, <2>6, <2>13, <3>3
    <3>4. CASE j \notin 1..l /\ k \notin 1..l
      <4>1. PICK i \in 1..m, h \in 1..m : i + l = j /\ h + l = k
        BY <2>11, <3>4
      <4> QED BY <3>2, <4>1
    <3>5. CASE j \in 1..l /\ k \notin 1..l
      <4>1. PICK h \in 1..m : h + l = k
        BY <2>11, <3>5
      <4> QED BY <3>1, <3>2, <3>5, <4>1
    <3>6. CASE j \notin 1..l /\ k \in 1..l
      <4>1. PICK h \in 1..m : h + l = j
        BY <2>11, <3>6
      <4> QED BY <3>1, <3>2, <3>6, <4>1
    <3> QED BY <3>3, <3>4, <3>5, <3>6
  <2>16. \A c \in Cells(ss, n + 1) : \E k \in 1..(l + m) : to[k] = c
    <3> SUFFICES ASSUME NEW c \in Cells(ss, n + 1) PROVE \E k \in 1..(l + m) : to[k] = c
      OBVIOUS
    <3>1. CASE c \in Cells(ss, n)
      <4>1. PICK k \in 1..l : at[k] = c
        BY <2>5, <2>6, <3>1
      <4> QED BY <2>13, <4>1
    <3>2. CASE \E k \in 1..m : c = <<n + 1, k>>
      BY <2>13, <3>2
    <3> QED BY <2>10, <3>1, <3>2
  <2>17. Placed(s \o t, ss, n + 1)
    <3>1. PICK x : x = s \o t
      OBVIOUS
    <3>2. /\ Len(x) = l + m /\ to \in [1..Len(x) -> Cells(ss, n + 1)]
          /\ \A k \in 1..Len(x) : x[k] = ss[to[k][1]][to[k][2]]
          /\ \A j, k \in 1..Len(x) : to[j] = to[k] => j = k
          /\ \A c \in Cells(ss, n + 1) : \E k \in 1..Len(x) : to[k] = c
      BY <2>7, <2>12, <2>14, <2>15, <2>16, <3>1
    <3>3. Placed(x, ss, n + 1)
      BY <3>2 DEF Placed
    <3> QED BY <3>1, <3>3
  <2> QED BY <2>1, <2>4, <2>17
<1>9. N \in S
  <2> HIDE DEF S, N
  <2>1. 0..N \subseteq S
    BY <1>1, <1>7, <1>8, Climb
  <2> QED BY <1>1, <2>1
<1>10. FlattenSeq(ss) = g[N] /\ g[N] \in V
  BY <1>1, <1>4, <1>5, <1>6
<1> QED BY <1>9, <1>10

-----------------------------------------------------------------------------
\* The pairs compared

\* The places of the pairs of a list of names: of two names, or of one and the baseline
Games(names, baseline) ==
    {c \in (1..Len(names)) \X (0..Len(names)) :
        IF baseline = 0 THEN c[1] < c[2] ELSE c[2] = 0 /\ names[c[1]] # baseline}

Game(names, baseline, c) ==
    <<names[c[1]], IF baseline = 0 THEN names[c[2]] ELSE baseline>>

\* A list of pairs is that of the games, each once, at such places.
ListsGames(pairs, at, names, baseline) ==
    /\ at \in [1..Len(pairs) -> Games(names, baseline)]
    /\ \A k \in 1..Len(pairs) : pairs[k] = Game(names, baseline, at[k])
    /\ \A j, k \in 1..Len(pairs) : at[j] = at[k] => j = k
    /\ \A c \in Games(names, baseline) : \E k \in 1..Len(pairs) : at[k] = c

\* Pairs lists the games, each once.
LEMMA PairsListGames ==
    ASSUME NEW T, NEW names \in Seq(T), NEW baseline, baseline # 0 => baseline \in T
    PROVE  /\ Pairs(names, baseline) \in Seq(T \X T)
           /\ \E at : ListsGames(Pairs(names, baseline), at, names, baseline)
<1> DEFINE n == Len(names)
           of(i) == IF baseline = 0 THEN [j \in 1..(n - i) |-> <<names[i], names[i + j]>>]
                    ELSE IF names[i] = baseline THEN <<>> ELSE <<<<names[i], baseline>>>>
           ss == [i \in 1..n |-> of(i)]
           P == FlattenSeq(ss)
<1>1. n \in Nat /\ \A i \in 1..n : names[i] \in T
  BY SeqFacts
<1>2. ASSUME NEW i \in 1..n
      PROVE  /\ of(i) \in Seq(T \X T)
             /\ baseline = 0 => /\ Len(of(i)) = n - i
                                /\ \A j \in 1..(n - i) : of(i)[j] = <<names[i], names[i + j]>>
             /\ baseline # 0 => /\ Len(of(i)) = IF names[i] = baseline THEN 0 ELSE 1
                                /\ names[i] # baseline => of(i)[1] = <<names[i], baseline>>
  <2>1. CASE baseline = 0
    <3> DEFINE f == [j \in 1..(n - i) |-> <<names[i], names[i + j]>>]
    <3>1. n - i \in Nat
      BY <1>1
    <3>2. \A j \in 1..(n - i) : i + j \in 1..n
      BY <1>1
    <3>3. \A j \in 1..(n - i) : <<names[i], names[i + j]>> \in T \X T
      <4> HIDE DEF n
      <4> QED BY <1>1, <3>2
    <3>4. f \in [1..(n - i) -> T \X T]
      <4> HIDE DEF n
      <4> QED BY <3>3
    <3>5. f \in Seq(T \X T) /\ Len(f) = n - i
      <4>1. PICK m \in Nat : m = n - i
        BY <3>1
      <4>2. \A h \in [1..m -> T \X T] : h \in Seq(T \X T) /\ Len(h) = m
        OBVIOUS
      <4> HIDE DEF f, n
      <4> QED BY <3>4, <4>1, <4>2
    <3>6. of(i) = f
      BY <2>1
    <3>7. \A j \in 1..(n - i) : f[j] = <<names[i], names[i + j]>>
      OBVIOUS
    <3> HIDE DEF f, of
    <3> QED BY <2>1, <3>5, <3>6, <3>7
  <2>2. CASE baseline # 0
    <3>1. CASE names[i] = baseline
      BY <2>2, <3>1
    <3>2. CASE names[i] # baseline
      <4>1. of(i) = <<<<names[i], baseline>>>> /\ <<names[i], baseline>> \in T \X T
        BY <1>1, <2>2, <3>2
      <4>2. \A e \in T \X T : <<e>> \in Seq(T \X T) /\ Len(<<e>>) = 1 /\ <<e>>[1] = e
        OBVIOUS
      <4> HIDE DEF of
      <4> QED BY <2>2, <3>2, <4>1, <4>2
    <3> QED BY <3>1, <3>2
  <2> QED BY <2>1, <2>2
<1> HIDE DEF of
<1>3. ss \in Seq(Seq(T \X T)) /\ Len(ss) = n /\ \A i \in 1..n : ss[i] = of(i)
  <2>1. ss \in [1..n -> Seq(T \X T)]
    <3> HIDE DEF n
    <3> QED BY <1>2
  <2>2. PICK m \in Nat : m = n
    BY <1>1
  <2>3. \A h \in [1..m -> Seq(T \X T)] : h \in Seq(Seq(T \X T)) /\ Len(h) = m
    OBVIOUS
  <2>4. \A i \in 1..n : ss[i] = of(i)
    OBVIOUS
  <2> HIDE DEF ss, n
  <2> QED BY <2>1, <2>2, <2>3, <2>4
<1>4. Pairs(names, baseline) = P
  BY DEF Pairs, of
<1> HIDE DEF ss
<1>5. P \in Seq(T \X T) /\ Placed(P, ss, n)
  BY <1>3, FlattenLists
<1> HIDE DEF P
<1>6. PICK at \in [1..Len(P) -> Cells(ss, n)] :
            /\ \A k \in 1..Len(P) : P[k] = ss[at[k][1]][at[k][2]]
            /\ \A j, k \in 1..Len(P) : at[j] = at[k] => j = k
            /\ \A c \in Cells(ss, n) : \E k \in 1..Len(P) : at[k] = c
  BY <1>5 DEF Placed
<1> DEFINE game(c) == <<c[1], IF baseline = 0 THEN c[1] + c[2] ELSE 0>>
           to == [k \in 1..Len(P) |-> game(at[k])]
<1>7. ASSUME NEW c \in Cells(ss, n)
      PROVE  /\ c = <<c[1], c[2]>> /\ c[1] \in 1..n /\ c[2] \in 1..Len(of(c[1]))
             /\ c[2] \in Nat
             /\ game(c) \in Games(names, baseline)
             /\ ss[c[1]][c[2]] = Game(names, baseline, game(c))
  <2>1. c \in (1..n) \X Nat /\ c[2] \in 1..Len(ss[c[1]])
    BY DEF Cells
  <2>2. c = <<c[1], c[2]>> /\ c[1] \in 1..n /\ c[2] \in Nat
    BY <2>1
  <2>3. PICK i \in 1..n, j \in Nat : i = c[1] /\ j = c[2]
    BY <2>2
  <2>4. ss[i] = of(i) /\ j \in 1..Len(of(i))
    BY <1>3, <2>1, <2>3
  <2>5. CASE baseline = 0
    <3>1. j \in 1..(n - i) /\ of(i)[j] = <<names[i], names[i + j]>>
      BY <1>2, <2>4, <2>5
    <3>2. i + j \in 0..n /\ i < i + j
      BY <1>1, <3>1
    <3>3. game(c) = <<i, i + j>>
      BY <2>3, <2>5
    <3>4. <<i, i + j>> \in Games(names, baseline)
      BY <2>5, <3>2 DEF Games
    <3>5. Game(names, baseline, <<i, i + j>>) = <<names[i], names[i + j]>>
      BY <2>5 DEF Game
    <3> HIDE DEF game
    <3> QED BY <2>2, <2>3, <2>4, <3>1, <3>3, <3>4, <3>5
  <2>6. CASE baseline # 0
    <3>1. names[i] # baseline /\ j = 1 /\ of(i)[1] = <<names[i], baseline>>
      <4>1. names[i] = baseline => Len(of(i)) = 0
        BY <1>2, <2>6
      <4>2. names[i] # baseline => Len(of(i)) = 1 /\ of(i)[1] = <<names[i], baseline>>
        BY <1>2, <2>6
      <4>3. names[i] # baseline
        <5>1. 1..0 = {}
          OBVIOUS
        <5> QED BY <2>4, <4>1, <5>1
      <4>4. 1..1 = {1}
        OBVIOUS
      <4> QED BY <2>4, <4>2, <4>3, <4>4
    <3>2. game(c) = <<i, 0>>
      BY <2>3, <2>6
    <3>3. <<i, 0>> \in Games(names, baseline)
      BY <1>1, <2>6, <3>1 DEF Games
    <3>4. Game(names, baseline, <<i, 0>>) = <<names[i], baseline>>
      BY <2>6 DEF Game
    <3> HIDE DEF game
    <3> QED BY <2>2, <2>3, <2>4, <3>1, <3>2, <3>3, <3>4
  <2> QED BY <2>5, <2>6
<1>8. ASSUME NEW c \in Cells(ss, n), NEW d \in Cells(ss, n), game(c) = game(d) PROVE c = d
  <2>1. PICK i \in 1..n, j \in Nat : c = <<i, j>> /\ j \in 1..Len(of(i))
    BY <1>7
  <2>2. PICK k \in 1..n, l \in Nat : d = <<k, l>> /\ l \in 1..Len(of(k))
    BY <1>7
  <2>3. CASE baseline = 0
    <3>1. i = k /\ i + j = k + l
      BY <1>8, <2>1, <2>2, <2>3
    <3>2. j = l
      BY <3>1
    <3> QED BY <2>1, <2>2, <3>1, <3>2
  <2>4. CASE baseline # 0
    <3>1. i = k
      BY <1>8, <2>1, <2>2, <2>4
    <3>2. Len(of(i)) = 0 \/ Len(of(i)) = 1
      <4>1. Len(of(i)) = IF names[i] = baseline THEN 0 ELSE 1
        BY <1>2, <2>4
      <4> QED BY <4>1
    <3>3. 1..0 = {} /\ 1..1 = {1}
      OBVIOUS
    <3>4. j = 1 /\ l = 1
      BY <2>1, <2>2, <3>1, <3>2, <3>3
    <3> QED BY <2>1, <2>2, <3>1, <3>4
  <2> QED BY <2>3, <2>4
<1>9. ASSUME NEW g \in Games(names, baseline)
      PROVE  \E c \in Cells(ss, n) : game(c) = g
  <2>1. PICK i \in 1..n, h \in 0..n : g = <<i, h>>
    BY DEF Games
  <2>2. CASE baseline = 0
    <3>1. i < h
      BY <2>1, <2>2 DEF Games
    <3>2. h - i \in 1..(n - i) /\ i + (h - i) = h /\ h - i \in Nat
      BY <1>1, <3>1
    <3>3. ss[i] = of(i) /\ Len(of(i)) = n - i
      BY <1>2, <1>3, <2>2
    <3>4. <<i, h - i>> \in Cells(ss, n)
      BY <3>2, <3>3 DEF Cells
    <3>5. game(<<i, h - i>>) = g
      BY <2>1, <2>2, <3>2
    <3> QED BY <3>4, <3>5
  <2>3. CASE baseline # 0
    <3>1. h = 0 /\ names[i] # baseline
      BY <2>1, <2>3 DEF Games
    <3>2. ss[i] = of(i) /\ Len(of(i)) = 1
      BY <1>2, <1>3, <2>3, <3>1
    <3>3. <<i, 1>> \in Cells(ss, n)
      <4>1. <<i, 1>> \in (1..n) \X Nat /\ 1 \in 1..1 /\ <<i, 1>>[1] = i /\ <<i, 1>>[2] = 1
        OBVIOUS
      <4> QED BY <3>2, <4>1 DEF Cells
    <3>4. game(<<i, 1>>) = g
      BY <2>1, <2>3, <3>1
    <3> QED BY <3>3, <3>4
  <2> QED BY <2>2, <2>3
<1> HIDE DEF game
<1>10. \A k \in 1..Len(P) : to[k] = game(at[k]) /\ at[k] \in Cells(ss, n)
  BY <1>6
<1>11. to \in [1..Len(P) -> Games(names, baseline)]
  BY <1>7, <1>10
<1> HIDE DEF to
<1>12. \A k \in 1..Len(P) : P[k] = Game(names, baseline, to[k])
  BY <1>6, <1>7, <1>10
<1>13. \A j, k \in 1..Len(P) : to[j] = to[k] => j = k
  BY <1>6, <1>8, <1>10
<1>14. \A c \in Games(names, baseline) : \E k \in 1..Len(P) : to[k] = c
  BY <1>6, <1>9, <1>10
<1>15. ListsGames(P, to, names, baseline)
  BY <1>11, <1>12, <1>13, <1>14 DEF ListsGames
<1> QED BY <1>4, <1>5, <1>15

-----------------------------------------------------------------------------
\* The comparisons

Scored == [Conditions -> UNION {[Q -> {0, 1}] : Q \in SUBSET Queries}]

Vector(scores, c) ==
    LET ids == SetToSeq(Shared(scores)) IN [i \in DOMAIN ids |-> scores[c][ids[i]]]

Raw(scores, pair) ==
    ComparePaired(Vector(scores, pair[1]), Vector(scores, pair[2]), pair[1], pair[2])

PValues(scores, pairs) == [i \in 1..Len(pairs) |-> Raw(scores, pairs[i]).p]

\* The conditions are those of the grid, and numbers.
LEMMA ConditionsAre ==
    /\ Conditions \subseteq Nat \ {0} /\ Conditions # {}
    /\ Grid \in Seq(Conditions) /\ Len(Grid) \in Nat \ {0}
    /\ \A c \in Conditions : \E i \in 1..Len(Grid) : Grid[i] = c
<1>1. /\ Len(Grid) \in Nat /\ DOMAIN Grid = 1..Len(Grid)
      /\ \A i \in 1..Len(Grid) : Grid[i] \in Nat \ {0}
  <2>1. Grid \in Seq(Nat \ {0})
    BY GridAssumption
  <2> QED BY <2>1, SeqFacts
<1>2. Len(Grid) >= 2
  BY GridAssumption
<1>3. \A i \in 1..Len(Grid) : Grid[i] \in Conditions
  BY <1>1 DEF Conditions, Range
<1>4. Grid \in Seq(Conditions)
  <2>1. Grid \in Seq(Nat \ {0})
    BY GridAssumption
  <2> HIDE DEF Conditions
  <2> QED BY <1>3, <2>1
<1>5. 1 \in 1..Len(Grid)
  BY <1>1, <1>2
<1>6. \A c \in Conditions : \E i \in 1..Len(Grid) : Grid[i] = c
  BY <1>1 DEF Conditions, Range
<1>7. Conditions \subseteq Nat \ {0}
  BY <1>1, <1>6
<1>8. Len(Grid) \in Nat \ {0}
  BY <1>1, <1>2
<1>9. Conditions # {}
  BY <1>3, <1>5
<1> QED BY <1>4, <1>6, <1>7, <1>8, <1>9

\* A vector has a score for each query shared, no more than there are queries.
LEMMA VectorIs ==
    ASSUME NEW scores \in Scored, NEW c \in Conditions
    PROVE  /\ Vector(scores, c) \in Seq(Int)
           /\ Len(Vector(scores, c)) = Cardinality(Shared(scores))
           /\ Cardinality(Shared(scores)) \in 0..Cardinality(Queries)
           /\ Cardinality(Queries) \in Nat
<1> DEFINE S == Shared(scores)
           ids == SetToSeq(S)
<1>1. DOMAIN scores = Conditions
  BY DEF Scored
<1>2. ASSUME NEW d \in Conditions
      PROVE  /\ DOMAIN scores[d] \subseteq Queries
             /\ \A q \in DOMAIN scores[d] : scores[d][q] \in Int
  <2>1. scores[d] \in UNION {[Q -> {0, 1}] : Q \in SUBSET Queries}
    BY DEF Scored
  <2>2. PICK Q \in SUBSET Queries : scores[d] \in [Q -> {0, 1}]
    BY <2>1
  <2> QED BY <2>2
<1>3. S \subseteq DOMAIN scores[c] /\ S \subseteq Queries
  <2>1. S \subseteq DOMAIN scores[c]
    BY <1>1 DEF Shared
  <2> QED BY <1>2, <2>1
<1>4. IsFiniteSet(Queries) /\ IsFiniteSet(S) /\ Cardinality(S) <= Cardinality(Queries)
  BY <1>3, OutcomesAssumption, FS_Subset
<1>5. Cardinality(S) \in Nat /\ Cardinality(Queries) \in Nat
  BY <1>4, FS_CardinalityType
<1>6. ids \in [1..Cardinality(S) -> S]
  BY <1>4, Listed
<1>7. Vector(scores, c) = [i \in 1..Cardinality(S) |-> scores[c][ids[i]]]
  BY <1>6 DEF Vector
<1> HIDE DEF ids
<1>8. Vector(scores, c) \in [1..Cardinality(S) -> Int]
  BY <1>2, <1>3, <1>6, <1>7
<1>9. PICK n \in Nat : n = Cardinality(S)
  BY <1>5
<1>10. \A h \in [1..n -> Int] : h \in Seq(Int) /\ Len(h) = n
  OBVIOUS
<1> QED BY <1>4, <1>5, <1>8, <1>9, <1>10

IsPaired(x, y, a, b) ==
    LET c == ComparePaired(x, y, a, b)
        wins == Cardinality({i \in DOMAIN x : x[i] > y[i]})
        losses == Cardinality({i \in DOMAIN x : x[i] < y[i]})
    IN /\ wins \in Nat /\ losses \in Nat
       /\ c = [a |-> a, b |-> b, n |-> Len(x), diff |-> wins - losses,
               p |-> IF wins + losses = 0 THEN 100 ELSE PValue(Len(x), wins, losses),
               adjusted |-> 0, effect |-> Dominance(x, y)]
       /\ (IF wins + losses = 0 THEN 100 ELSE PValue(Len(x), wins, losses)) \in Percent

\* compare_paired: the p-value is one, and the effect size is the dominance.
LEMMA ComparePairedIs ==
    ASSUME NEW x \in Seq(Int), NEW y \in Seq(Int), Len(x) = Len(y),
           Len(x) <= Cardinality(Queries), NEW a, NEW b
    PROVE  IsPaired(x, y, a, b)
<1> DEFINE W == {i \in DOMAIN x : x[i] > y[i]}
           L == {i \in DOMAIN x : x[i] < y[i]}
           N == Cardinality(Queries)
<1>1. DOMAIN x = 1..Len(x) /\ Len(x) \in Nat
  BY SeqFacts
<1>2. N \in Nat
  BY OutcomesAssumption, FS_CardinalityType
<1>3. IsFiniteSet(DOMAIN x) /\ Cardinality(DOMAIN x) = Len(x)
  BY <1>1, Positions
<1>4. W \subseteq DOMAIN x /\ L \subseteq DOMAIN x
  OBVIOUS
<1> HIDE DEF W, L
<1>5. /\ Cardinality(W) \in Nat /\ Cardinality(W) <= Len(x)
      /\ Cardinality(L) \in Nat /\ Cardinality(L) <= Len(x)
  BY <1>3, <1>4, FS_Subset, FS_CardinalityType
<1>6. Cardinality(W) \in 0..N /\ Cardinality(L) \in 0..N
  <2> HIDE DEF N
  <2>1. Len(x) <= N
    BY DEF N
  <2> QED BY <1>1, <1>2, <1>5, <2>1
<1>7. PICK w \in 0..N, l \in 0..N : w = Cardinality(W) /\ l = Cardinality(L)
  BY <1>6
<1>70. Len(x) \in 0..N
  <2> DEFINE k == Len(x)
  <2>1. k \in Nat /\ k <= N
    BY <1>1
  <2> HIDE DEF N, k
  <2>2. k \in 0..N
    BY <1>2, <2>1
  <2> QED BY <2>2 DEF k
<1>71. PICK n \in 0..N : n = Len(x)
  BY <1>70
<1>8. (IF w + l = 0 THEN 100 ELSE PValue(n, w, l)) \in Percent
  <2>1. CASE w + l = 0
    BY <2>1 DEF Percent
  <2>2. CASE w + l # 0
    <3>1. w + l > 0
      BY <1>2, <2>2
    <3> QED BY <2>2, <3>1, PValueAssumption DEF Percent
  <2> QED BY <2>1, <2>2
<1>9. CliffsDelta(x, y) = Dominance(x, y)
  BY CliffIsDominance
<1> QED BY <1>5, <1>7, <1>71, <1>8, <1>9 DEF ComparePaired, W, L, IsPaired

\* What compare_runs reports of a pair
LEMMA RawIs ==
    ASSUME NEW scores \in Scored, NEW pair \in Conditions \X Conditions
    PROVE  /\ Raw(scores, pair) = [a |-> pair[1], b |-> pair[2],
                                   n |-> Cardinality(Shared(scores)),
                                   diff |-> Raw(scores, pair).diff,
                                   p |-> Raw(scores, pair).p, adjusted |-> 0,
                                   effect |-> Dominance(Vector(scores, pair[1]),
                                                        Vector(scores, pair[2]))]
           /\ Raw(scores, pair).p \in Percent
<1> DEFINE x == Vector(scores, pair[1])
           y == Vector(scores, pair[2])
<1>1. pair[1] \in Conditions /\ pair[2] \in Conditions
  OBVIOUS
<1>2. /\ x \in Seq(Int) /\ y \in Seq(Int) /\ Len(x) = Len(y)
      /\ Len(x) = Cardinality(Shared(scores)) /\ Len(x) <= Cardinality(Queries)
  BY <1>1, VectorIs
<1> HIDE DEF x, y
<1>3. PICK wins, losses :
         LET c == ComparePaired(x, y, pair[1], pair[2])
             p == IF wins + losses = 0 THEN 100 ELSE PValue(Len(x), wins, losses)
         IN /\ c = [a |-> pair[1], b |-> pair[2], n |-> Len(x), diff |-> wins - losses,
                    p |-> p, adjusted |-> 0, effect |-> Dominance(x, y)]
            /\ p \in Percent
  <2>1. IsPaired(x, y, pair[1], pair[2])
    BY <1>2, ComparePairedIs
  <2> QED BY <2>1 DEF IsPaired
<1> QED BY <1>2, <1>3 DEF Raw, x, y

\* compare_runs: every pair is compared, with the adjusted p-value of its place.
LEMMA CompareIs ==
    ASSUME NEW scores \in Scored, NEW names \in Seq(Conditions),
           NEW baseline \in {0} \cup Conditions
    PROVE  LET pairs == Pairs(names, baseline)
               ps == PValues(scores, pairs)
               c == Compare(scores, names, baseline)
           IN /\ pairs \in Seq(Conditions \X Conditions)
              /\ ps \in Seq(Percent) /\ Len(ps) = Len(pairs)
              /\ DOMAIN c = 1..Len(pairs)
              /\ \A k \in 1..Len(pairs) :
                    c[k] = [a |-> pairs[k][1], b |-> pairs[k][2],
                            n |-> Cardinality(Shared(scores)),
                            diff |-> Raw(scores, pairs[k]).diff,
                            p |-> ps[k], adjusted |-> HolmBonferroni(ps)[k],
                            effect |-> Dominance(Vector(scores, pairs[k][1]),
                                                 Vector(scores, pairs[k][2]))]
<1> DEFINE pairs == Pairs(names, baseline)
           raw == [i \in DOMAIN pairs |-> Raw(scores, pairs[i])]
           ps == PValues(scores, pairs)
<1>1. pairs \in Seq(Conditions \X Conditions)
  BY PairsListGames
<1> HIDE DEF pairs
<1>2. /\ DOMAIN pairs = 1..Len(pairs) /\ Len(pairs) \in Nat
      /\ \A k \in 1..Len(pairs) : pairs[k] \in Conditions \X Conditions
  BY <1>1, SeqFacts
<1>3. ps \in Seq(Percent) /\ Len(ps) = Len(pairs)
  <2>1. ps \in [1..Len(pairs) -> Percent]
    BY <1>2, RawIs DEF PValues
  <2>2. PICK m \in Nat : m = Len(pairs)
    BY <1>2
  <2>3. \A h \in [1..m -> Percent] : h \in Seq(Percent) /\ Len(h) = m
    OBVIOUS
  <2> HIDE DEF ps
  <2> QED BY <2>1, <2>2, <2>3
<1>4. [i \in DOMAIN raw |-> raw[i].p] = ps
  BY <1>2 DEF PValues
<1>5. Compare(scores, names, baseline) = ApplyCorrection(raw)
  <2>1. DOMAIN scores = Conditions
    BY DEF Scored
  <2>2. \A i \in DOMAIN pairs : pairs[i][1] \in Conditions /\ pairs[i][2] \in Conditions
    BY <1>2
  <2> DEFINE ids == SetToSeq(Shared(scores))
             vector == [c \in DOMAIN scores |-> [i \in DOMAIN ids |-> scores[c][ids[i]]]]
  <2>3. \A c \in Conditions : vector[c] = Vector(scores, c)
    BY <2>1 DEF Vector
  <2>4. Compare(scores, names, baseline)
          = ApplyCorrection([i \in DOMAIN pairs |->
               ComparePaired(vector[pairs[i][1]], vector[pairs[i][2]],
                             pairs[i][1], pairs[i][2])])
    BY DEF Compare, pairs
  <2> HIDE DEF vector
  <2>5. [i \in DOMAIN pairs |->
               ComparePaired(vector[pairs[i][1]], vector[pairs[i][2]],
                             pairs[i][1], pairs[i][2])] = raw
    BY <2>2, <2>3 DEF Raw
  <2> QED BY <2>4, <2>5
<1>6. ApplyCorrection(raw)
        = [i \in DOMAIN raw |-> [raw[i] EXCEPT !.adjusted = HolmBonferroni(ps)[i]]]
  <2> HIDE DEF raw, ps
  <2> QED BY <1>4 DEF ApplyCorrection
<1>7. DOMAIN raw = 1..Len(pairs)
  BY <1>2
<1>8. ASSUME NEW k \in 1..Len(pairs)
      PROVE  [raw[k] EXCEPT !.adjusted = HolmBonferroni(ps)[k]]
               = [a |-> pairs[k][1], b |-> pairs[k][2],
                  n |-> Cardinality(Shared(scores)),
                  diff |-> Raw(scores, pairs[k]).diff,
                  p |-> ps[k], adjusted |-> HolmBonferroni(ps)[k],
                  effect |-> Dominance(Vector(scores, pairs[k][1]),
                                       Vector(scores, pairs[k][2]))]
  <2>1. raw[k] = [a |-> pairs[k][1], b |-> pairs[k][2],
                  n |-> Cardinality(Shared(scores)),
                  diff |-> Raw(scores, pairs[k]).diff,
                  p |-> Raw(scores, pairs[k]).p, adjusted |-> 0,
                  effect |-> Dominance(Vector(scores, pairs[k][1]),
                                       Vector(scores, pairs[k][2]))]
    BY <1>2, <1>7, RawIs
  <2>2. ps[k] = Raw(scores, pairs[k]).p
    BY DEF PValues
  <2> HIDE DEF raw, ps
  <2> QED BY <2>1, <2>2
<1> HIDE DEF raw, ps
<1>9. Compare(scores, names, baseline)
        = [i \in 1..Len(pairs) |-> [raw[i] EXCEPT !.adjusted = HolmBonferroni(ps)[i]]]
  BY <1>5, <1>6, <1>7
<1>10. /\ DOMAIN Compare(scores, names, baseline) = 1..Len(pairs)
       /\ \A k \in 1..Len(pairs) :
             Compare(scores, names, baseline)[k]
               = [raw[k] EXCEPT !.adjusted = HolmBonferroni(ps)[k]]
  BY <1>9
<1> QED BY <1>1, <1>3, <1>8, <1>10 DEF pairs, ps

-----------------------------------------------------------------------------
\* The comparisons of an experiment

ClosedAt(c, scores, i) ==
    /\ c[i].adjusted = Max({Bonferroni(S, c) : S \in {T \in SUBSET DOMAIN c : i \in T}})
    /\ c[i].effect = Dominance(Vector(scores, c[i].a), Vector(scores, c[i].b))

\* Every comparison made has the p-value of the closed test, and the dominance.
LEMMA CompareClosed ==
    ASSUME NEW scores \in Scored, NEW names \in Seq(Conditions),
           NEW baseline \in {0} \cup Conditions, NEW c, c = Compare(scores, names, baseline),
           NEW i \in DOMAIN c
    PROVE  ClosedAt(c, scores, i)
<1> DEFINE pairs == Pairs(names, baseline)
           ps == PValues(scores, pairs)
<1>1. /\ ps \in Seq(Percent) /\ Len(ps) = Len(pairs) /\ DOMAIN c = 1..Len(pairs)
      /\ \A k \in 1..Len(pairs) :
            c[k] = [a |-> pairs[k][1], b |-> pairs[k][2],
                    n |-> Cardinality(Shared(scores)),
                    diff |-> Raw(scores, pairs[k]).diff,
                    p |-> ps[k], adjusted |-> HolmBonferroni(ps)[k],
                    effect |-> Dominance(Vector(scores, pairs[k][1]),
                                         Vector(scores, pairs[k][2]))]
  BY CompareIs
<1> HIDE DEF pairs, ps
<1>2. DOMAIN ps = DOMAIN c /\ i \in DOMAIN ps /\ i \in 1..Len(pairs)
  BY <1>1, SeqFacts
<1>3. \A k \in DOMAIN c : c[k].p = ps[k] /\ c[k].adjusted = HolmBonferroni(ps)[k]
  BY <1>1
<1>4. c[i].effect = Dominance(Vector(scores, c[i].a), Vector(scores, c[i].b))
  BY <1>1, <1>2
<1>5. ASSUME NEW S \in SUBSET DOMAIN c PROVE Bonferroni(S, c) = Jointly(ps, S)
  <2>1. {c[j].p : j \in S} = {ps[j] : j \in S}
    BY <1>3
  <2> QED BY <2>1 DEF Bonferroni, Jointly
<1>6. {Bonferroni(S, c) : S \in {T \in SUBSET DOMAIN c : i \in T}}
        = {Jointly(ps, S) : S \in {T \in SUBSET DOMAIN ps : i \in T}}
  BY <1>2, <1>5
<1>7. HolmBonferroni(ps)[i] = Max({Jointly(ps, S) : S \in {T \in SUBSET DOMAIN ps : i \in T}})
  BY <1>1, <1>2, HolmIsClosed
<1> QED BY <1>2, <1>3, <1>4, <1>6, <1>7 DEF ClosedAt

\* What is compared is what was scored, with a baseline that is one.
Compared ==
    /\ cli = [at |-> cli.at, scores |-> cli.scores, baseline |-> cli.baseline,
              comparisons |-> cli.comparisons]
    /\ cli.at # "idle" => cli.scores \in Outcomes /\ cli.baseline \in Baselines
    /\ cli.at # "compared" => cli.comparisons = <<>>
    /\ cli.at = "compared" =>
          /\ Shared(cli.scores) # {} /\ cli.baseline \in {0} \cup Conditions
          /\ cli.comparisons = Compare(cli.scores, Grid, cli.baseline)

\* No experiment is being run at first.
LEMMA InitCompared == Init => Compared
  BY DEF Init, Compared, NoRun

\* Every step of every command and request keeps what is compared what was scored.
LEMMA NextCompared == Compared /\ [Next]_vars => Compared'
<1> SUFFICES ASSUME Compared, [Next]_vars PROVE Compared'
  OBVIOUS
<1>1. CASE UNCHANGED cli
  BY <1>1 DEF Compared
<1>2. ASSUME NEW s \in Outcomes, NEW b \in Baselines, RunAll(s, b) PROVE Compared'
  BY <1>2 DEF RunAll, Compared
<1>3. ASSUME CompareRuns PROVE Compared'
  <2>1. CASE Shared(cli.scores) = {} \/ cli.baseline \notin {0} \cup Conditions
    BY <1>3, <2>1 DEF CompareRuns, Compared, NoRun
  <2>2. CASE ~(Shared(cli.scores) = {} \/ cli.baseline \notin {0} \cup Conditions)
    <3>1. cli' = [at |-> "compared", scores |-> cli.scores, baseline |-> cli.baseline,
                  comparisons |-> Compare(cli.scores, Grid, cli.baseline)]
      BY <1>3, <2>2 DEF CompareRuns, Compared
    <3>2. cli.scores \in Outcomes /\ cli.baseline \in Baselines
      BY <1>3 DEF CompareRuns, Compared
    <3> QED BY <2>2, <3>1, <3>2 DEF Compared
  <2> QED BY <2>1, <2>2
<1>4. ASSUME NEW n \in Names, PersistRuns(n) PROVE Compared'
  BY <1>4 DEF PersistRuns, Compared, NoRun
<1>5. ASSUME NEW o \in Orgs, CreateOrg(o) PROVE Compared'
  BY <1>1, <1>5 DEF CreateOrg
<1>6. ASSUME NEW n \in Names, NEW o \in Orgs, NEW b \in Baselines, GetExperiment(n, o, b)
      PROVE  Compared'
  BY <1>1, <1>6 DEF GetExperiment
<1> QED BY <1>1, <1>2, <1>3, <1>4, <1>5, <1>6 DEF Next, vars

\* So the comparisons at hand are those of the closed test.
LEMMA ComparedClosed == Compared => FamilyWise
<1> SUFFICES ASSUME Compared, NEW i \in DOMAIN cli.comparisons
             PROVE  ClosedAt(cli.comparisons, cli.scores, i)
  BY DEF FamilyWise, Vector, ClosedAt
<1>1. PICK c, scores, baseline :
         c = cli.comparisons /\ scores = cli.scores /\ baseline = cli.baseline
  OBVIOUS
<1>2. cli.at = "compared"
  <2>1. DOMAIN <<>> = {}
    OBVIOUS
  <2> QED BY <2>1 DEF Compared
<1>3. /\ scores \in Outcomes /\ baseline \in {0} \cup Conditions
      /\ c = Compare(scores, Grid, baseline)
  BY <1>1, <1>2 DEF Compared
<1>4. scores \in Scored /\ Grid \in Seq(Conditions)
  BY <1>3, OutcomesAssumption, ConditionsAre DEF Scored
<1>5. i \in DOMAIN c
  BY <1>1
<1>6. ClosedAt(c, scores, i)
  BY <1>3, <1>4, <1>5, CompareClosed
<1> QED BY <1>1, <1>6

\* In every reachable state the comparisons at hand control the family: each adjusted
\* p-value is that of the closed test, though holm_bonferroni sorts, and each effect size
\* the dominance of the scores, though cliffs_delta ranks, for any grid, scores and test.
THEOREM FamilyHolds == Spec => []FamilyWise
BY InitCompared, NextCompared, ComparedClosed, PTL DEF Spec

-----------------------------------------------------------------------------
\* The rows read

\* Of pairs whose second parts differ each has its place in the order.
LEMMA Places ==
    ASSUME NEW order, IsFiniteSet(order), order \subseteq Nat \X Nat
    PROVE  /\ \A x \in order : Cardinality(UpTo(order, x)) \in 1..Cardinality(order)
           /\ \A x, y \in order :
                 Cardinality(UpTo(order, x)) = Cardinality(UpTo(order, y)) => x = y
           /\ \A k \in 1..Cardinality(order) :
                 \E x \in order : Cardinality(UpTo(order, x)) = k
<1> DEFINE place(x) == Cardinality(UpTo(order, x))
           m == Cardinality(order)
<1>1. m \in Nat
  BY FS_CardinalityType
<1>2. ASSUME NEW x \in order
      PROVE  /\ UpTo(order, x) \subseteq order /\ x \in UpTo(order, x)
             /\ IsFiniteSet(UpTo(order, x)) /\ place(x) \in 1..m
  <2>1. x[1] \in Nat /\ x[2] \in Nat
    OBVIOUS
  <2>2. UpTo(order, x) \subseteq order /\ x \in UpTo(order, x)
    BY <2>1 DEF UpTo
  <2>3. IsFiniteSet(UpTo(order, x)) /\ place(x) <= m /\ place(x) \in Nat
    BY <2>2, FS_Subset, FS_CardinalityType
  <2>4. place(x) # 0
    BY <2>2, <2>3, FS_EmptySet
  <2> HIDE DEF place, m
  <2> QED BY <1>1, <2>2, <2>3, <2>4
<1>3. ASSUME NEW x \in order, NEW y \in order, x # y,
             x[1] < y[1] \/ (x[1] = y[1] /\ x[2] <= y[2])
      PROVE  place(x) < place(y)
  <2>1. /\ x[1] \in Nat /\ x[2] \in Nat /\ y[1] \in Nat /\ y[2] \in Nat
        /\ x = <<x[1], x[2]>> /\ y = <<y[1], y[2]>>
    OBVIOUS
  <2>2. y \notin UpTo(order, x)
    BY <1>3, <2>1 DEF UpTo
  <2>3. UpTo(order, x) \subseteq UpTo(order, y)
    <3> SUFFICES ASSUME NEW z \in UpTo(order, x) PROVE z \in UpTo(order, y)
      OBVIOUS
    <3>1. z \in order /\ (z[1] < x[1] \/ (z[1] = x[1] /\ z[2] <= x[2]))
      BY DEF UpTo
    <3>2. z[1] \in Nat /\ z[2] \in Nat
      BY <3>1
    <3>3. z[1] < y[1] \/ (z[1] = y[1] /\ z[2] <= y[2])
      BY <1>3, <2>1, <3>1, <3>2
    <3> QED BY <3>1, <3>3 DEF UpTo
  <2>4. place(x) <= place(y) /\ place(x) # place(y)
    BY <1>2, <2>2, <2>3, FS_Subset
  <2>5. place(x) \in 1..m /\ place(y) \in 1..m
    BY <1>2
  <2> HIDE DEF place, m
  <2> QED BY <1>1, <2>4, <2>5
<1>4. ASSUME NEW x \in order, NEW y \in order, place(x) = place(y) PROVE x = y
  <2> SUFFICES ASSUME x # y PROVE FALSE
    OBVIOUS
  <2>1. /\ x[1] \in Nat /\ x[2] \in Nat /\ y[1] \in Nat /\ y[2] \in Nat
    OBVIOUS
  <2>2. \/ x[1] < y[1] \/ (x[1] = y[1] /\ x[2] <= y[2])
        \/ y[1] < x[1] \/ (y[1] = x[1] /\ y[2] <= x[2])
    BY <2>1
  <2>3. place(x) < place(y) \/ place(y) < place(x)
    BY <1>3, <2>2
  <2>4. place(x) \in 1..m /\ place(y) \in 1..m
    BY <1>2
  <2> HIDE DEF place, m
  <2> QED BY <1>1, <1>4, <2>3, <2>4
<1>5. ASSUME NEW k \in 1..m PROVE \E x \in order : place(x) = k
  <2> DEFINE f == [x \in order |-> place(x)]
  <2>1. f \in [order -> 1..m] /\ \A x, y \in order : f[x] = f[y] => x = y
    <3> HIDE DEF place, m
    <3> QED BY <1>2, <1>4
  <2>2. \A x \in order : f[x] = place(x)
    OBVIOUS
  <2> HIDE DEF f
  <2>3. f \in Injection(order, 1..m)
    BY <2>1 DEF Injection, IsInjective
  <2>4. IsFiniteSet(1..m) /\ Cardinality(1..m) = m
    BY <1>1, Positions
  <2>5. f \in Surjection(order, 1..m)
    BY <2>3, <2>4, FS_Injection
  <2>6. \E x \in order : f[x] = k
    BY <2>5 DEF Surjection
  <2> QED BY <2>2, <2>6
<1> QED BY <1>2, <1>4, <1>5

\* The places of the rows asked for
Asked(name, org) == {i \in DOMAIN rows : rows[i].experiment = name /\ rows[i].org = org}

\* A list of the rows at some places, each once
ListsRows(s, places, m) ==
    /\ m \in Nat /\ DOMAIN s = 1..m /\ s = [k \in 1..m |-> s[k]]
    /\ \E at \in [1..m -> places] :
          /\ \A k \in 1..m : s[k] = rows[at[k]]
          /\ \A j, k \in 1..m : at[j] = at[k] => j = k
          /\ \A i \in places : \E k \in 1..m : at[k] = i

\* The rows read are those asked for, each once, whatever their order.
LEMMA SelectedLists ==
    ASSUME NEW name, NEW org,
           DOMAIN rows = 1..Len(rows), Len(rows) \in Nat,
           \A i \in DOMAIN rows : rows[i].condition \in Nat
    PROVE  ListsRows(Selected(name, org), Asked(name, org), Cardinality(Asked(name, org)))
<1>1. PICK found : found = Asked(name, org)
  OBVIOUS
<1> DEFINE order == {<<rows[i].condition, i>> : i \in found}
           m == Cardinality(found)
           nth(k) == CHOOSE x \in order : Cardinality(UpTo(order, x)) = k
           at == [k \in 1..m |-> nth(k)[2]]
<1>2. /\ found \subseteq DOMAIN rows /\ found \subseteq Nat /\ IsFiniteSet(found) /\ m \in Nat
  <2>1. found \subseteq DOMAIN rows /\ found \subseteq Nat
    BY <1>1 DEF Asked
  <2>2. IsFiniteSet(DOMAIN rows)
    BY Positions
  <2> QED BY <2>1, <2>2, FS_Subset, FS_CardinalityType
<1>3. order \subseteq Nat \X Nat
  BY <1>2
<1>4. IsFiniteSet(order) /\ Cardinality(order) = m
  <2> DEFINE f == [i \in found |-> <<rows[i].condition, i>>]
  <2>1. /\ f \in [found -> order] /\ \A x, y \in found : f[x] = f[y] => x = y
        /\ \A y \in order : \E x \in found : f[x] = y
    OBVIOUS
  <2>2. f \in Bijection(found, order)
    <3> HIDE DEF f, order
    <3> QED BY <2>1 DEF Bijection, Injection, Surjection, IsInjective
  <2>3. ExistsBijection(found, order)
    BY <2>2 DEF ExistsBijection
  <2> HIDE DEF order
  <2> QED BY <1>2, <2>3, FS_Bijection
<1>5. \A x \in order : x[2] \in found /\ x = <<rows[x[2]].condition, x[2]>>
  OBVIOUS
<1>6. \A i \in found : <<rows[i].condition, i>> \in order
  OBVIOUS
<1>7. Selected(name, org) = [k \in 1..m |-> rows[nth(k)[2]]]
  BY <1>1 DEF Selected, Asked
<1> HIDE DEF order, m
<1>8. /\ \A x \in order : Cardinality(UpTo(order, x)) \in 1..m
      /\ \A x, y \in order :
            Cardinality(UpTo(order, x)) = Cardinality(UpTo(order, y)) => x = y
      /\ \A k \in 1..m : \E x \in order : Cardinality(UpTo(order, x)) = k
  BY <1>3, <1>4, Places
<1>9. \A k \in 1..m : nth(k) \in order /\ Cardinality(UpTo(order, nth(k))) = k
  BY <1>8
<1> HIDE DEF nth
<1>10. at \in [1..m -> found] /\ \A k \in 1..m : at[k] = nth(k)[2]
  BY <1>5, <1>9
<1> HIDE DEF at
<1>11. \A k \in 1..m : Selected(name, org)[k] = rows[at[k]]
  BY <1>7, <1>10
<1>12. ASSUME NEW j \in 1..m, NEW k \in 1..m, at[j] = at[k] PROVE j = k
  <2>1. nth(j) = nth(k)
    BY <1>5, <1>9, <1>10, <1>12
  <2> QED BY <1>9, <2>1
<1>13. ASSUME NEW i \in found PROVE \E k \in 1..m : at[k] = i
  <2>1. PICK x \in order : x[2] = i
    BY <1>6
  <2>2. PICK k \in 1..m : k = Cardinality(UpTo(order, x))
    BY <1>8
  <2>3. nth(k) = x
    BY <1>8, <1>9, <2>2
  <2> QED BY <1>10, <2>1, <2>3
<1>14. ListsRows(Selected(name, org), found, m)
  <2>1. PICK s : s = Selected(name, org)
    OBVIOUS
  <2>2. m \in Nat /\ DOMAIN s = 1..m /\ s = [k \in 1..m |-> s[k]]
    BY <1>2, <1>7, <2>1 DEF m
  <2>3. \A k \in 1..m : s[k] = rows[at[k]]
    BY <1>11, <2>1
  <2> QED BY <1>10, <1>12, <1>13, <2>1, <2>2, <2>3 DEF ListsRows
<1> QED BY <1>1, <1>14 DEF m

-----------------------------------------------------------------------------
\* Directions

\* A pair won by the one side is lost by the other.
LEMMA Swapped ==
    ASSUME NEW x \in Seq(Int), NEW y \in Seq(Int)
    PROVE  LET won == {k \in (DOMAIN x) \X (DOMAIN y) : x[k[1]] > y[k[2]]}
               lost == {k \in (DOMAIN y) \X (DOMAIN x) : y[k[1]] < x[k[2]]}
           IN Cardinality(won) = Cardinality(lost) /\ Cardinality(won) \in Nat
<1> DEFINE W == {k \in (DOMAIN x) \X (DOMAIN y) : x[k[1]] > y[k[2]]}
           L == {k \in (DOMAIN y) \X (DOMAIN x) : y[k[1]] < x[k[2]]}
           f == [c \in W |-> <<c[2], c[1]>>]
<1>1. /\ DOMAIN x = 1..Len(x) /\ Len(x) \in Nat /\ \A k \in DOMAIN x : x[k] \in Int
      /\ DOMAIN y = 1..Len(y) /\ Len(y) \in Nat /\ \A k \in DOMAIN y : y[k] \in Int
  BY SeqFacts
<1>2. IsFiniteSet(W)
  <2>1. IsFiniteSet(DOMAIN x) /\ IsFiniteSet(DOMAIN y)
    BY <1>1, Positions
  <2>2. IsFiniteSet((DOMAIN x) \X (DOMAIN y))
    BY <2>1, FS_Product
  <2>3. W \subseteq (DOMAIN x) \X (DOMAIN y)
    OBVIOUS
  <2> HIDE DEF W
  <2> QED BY <2>2, <2>3, FS_Subset
<1>3. \A c \in W : c = <<c[1], c[2]>> /\ <<c[2], c[1]>> \in L
  BY <1>1
<1>4. \A c \in L : c = <<c[1], c[2]>> /\ <<c[2], c[1]>> \in W
  BY <1>1
<1> HIDE DEF W, L
<1>5. f \in [W -> L] /\ \A u, v \in W : f[u] = f[v] => u = v
  BY <1>3
<1>6. ASSUME NEW v \in L PROVE \E u \in W : f[u] = v
  <2>1. <<v[2], v[1]>> \in W /\ f[<<v[2], v[1]>>] = <<v[1], v[2]>>
    BY <1>4
  <2> QED BY <1>4, <2>1
<1> HIDE DEF f
<1>7. Cardinality(L) = Cardinality(W) /\ Cardinality(W) \in Nat
  BY <1>2, <1>5, <1>6, Images, FS_CardinalityType
<1> QED BY <1>7 DEF W, L

\* The dominance of the other side is the opposite.
LEMMA DominanceReversed ==
    ASSUME NEW x \in Seq(Int), NEW y \in Seq(Int)
    PROVE  Dominance(x, y) \in Int /\ Dominance(y, x) = -Dominance(x, y)
<1>1. PICK w \in Nat :
         /\ Cardinality({k \in (DOMAIN x) \X (DOMAIN y) : x[k[1]] > y[k[2]]}) = w
         /\ Cardinality({k \in (DOMAIN y) \X (DOMAIN x) : y[k[1]] < x[k[2]]}) = w
  BY Swapped
<1>2. PICK l \in Nat :
         /\ Cardinality({k \in (DOMAIN y) \X (DOMAIN x) : y[k[1]] > x[k[2]]}) = l
         /\ Cardinality({k \in (DOMAIN x) \X (DOMAIN y) : x[k[1]] < y[k[2]]}) = l
  BY Swapped
<1>3. Dominance(x, y) = w - l /\ Dominance(y, x) = l - w
  BY <1>1, <1>2 DEF Dominance
<1> QED BY <1>3

\* The comparison the other way round has the opposite difference, and the same p-value.
LEMMA RawReversed ==
    ASSUME NEW scores \in Scored, NEW a \in Conditions, NEW b \in Conditions
    PROVE  /\ Raw(scores, <<a, b>>).diff \in Int
           /\ Raw(scores, <<b, a>>).diff = -Raw(scores, <<a, b>>).diff
           /\ Raw(scores, <<b, a>>).p = Raw(scores, <<a, b>>).p
<1> DEFINE x == Vector(scores, a)
           y == Vector(scores, b)
           N == Cardinality(Queries)
           w == Cardinality({i \in DOMAIN x : x[i] > y[i]})
           l == Cardinality({i \in DOMAIN x : x[i] < y[i]})
           v == Cardinality({i \in DOMAIN y : y[i] > x[i]})
           m == Cardinality({i \in DOMAIN y : y[i] < x[i]})
<1>1. /\ x \in Seq(Int) /\ y \in Seq(Int) /\ Len(x) = Len(y)
      /\ Len(x) <= Cardinality(Queries) /\ N \in Nat
  BY VectorIs
<1> HIDE DEF x, y
<1>2. /\ DOMAIN x = 1..Len(x) /\ DOMAIN y = DOMAIN x /\ Len(x) \in Nat
      /\ \A i \in DOMAIN x : x[i] \in Int /\ y[i] \in Int
  BY <1>1, SeqFacts
<1>3. {i \in DOMAIN y : y[i] > x[i]} = {i \in DOMAIN x : x[i] < y[i]}
  BY <1>2
<1>4. {i \in DOMAIN y : y[i] < x[i]} = {i \in DOMAIN x : x[i] > y[i]}
  BY <1>2
<1>5. v = l /\ m = w
  BY <1>3, <1>4
<1>6. /\ w \in Nat /\ l \in Nat
      /\ ComparePaired(x, y, a, b).diff = w - l
      /\ ComparePaired(x, y, a, b).p = IF w + l = 0 THEN 100 ELSE PValue(Len(x), w, l)
  <2>1. IsPaired(x, y, a, b)
    BY <1>1, ComparePairedIs
  <2> QED BY <2>1 DEF IsPaired
<1>7. /\ ComparePaired(y, x, b, a).diff = v - m
      /\ ComparePaired(y, x, b, a).p = IF v + m = 0 THEN 100 ELSE PValue(Len(y), v, m)
  <2>1. IsPaired(y, x, b, a)
    <3>1. Len(y) = Len(x) /\ Len(y) <= Cardinality(Queries)
      BY <1>1
    <3> QED BY <1>1, <3>1, ComparePairedIs
  <2> QED BY <2>1 DEF IsPaired
<1>8. w <= N /\ l <= N
  <2>1. IsFiniteSet(DOMAIN x) /\ Cardinality(DOMAIN x) = Len(x)
    BY <1>2, Positions
  <2>2. {i \in DOMAIN x : x[i] > y[i]} \subseteq DOMAIN x
    OBVIOUS
  <2>3. {i \in DOMAIN x : x[i] < y[i]} \subseteq DOMAIN x
    OBVIOUS
  <2>4. w <= Len(x)
    BY <2>1, <2>2, FS_Subset
  <2>5. l <= Len(x)
    BY <2>1, <2>3, FS_Subset
  <2> HIDE DEF w, l
  <2> QED BY <1>1, <1>2, <1>6, <2>4, <2>5
<1> HIDE DEF v, m, w, l
<1>9. /\ Raw(scores, <<a, b>>) = ComparePaired(x, y, a, b)
      /\ Raw(scores, <<b, a>>) = ComparePaired(y, x, b, a)
  BY DEF Raw, x, y
<1>10. PICK i \in 0..N, j \in 0..N : i = w /\ j = l
  BY <1>1, <1>6, <1>8
<1>101. PICK n \in 0..N : n = Len(x) /\ n = Len(y)
  <2> DEFINE k == Len(x)
  <2>1. k \in Nat /\ k <= N /\ k = Len(y)
    BY <1>1, <1>2
  <2> HIDE DEF N, k
  <2>2. k \in 0..N
    BY <1>1, <2>1
  <2> QED BY <2>1, <2>2 DEF k
<1>11. (i - j) \in Int /\ j - i = -(i - j) /\ i + j = j + i
  BY <1>10
<1>12. i + j # 0 => PValue(n, i, j) = PValue(n, j, i)
  <2> SUFFICES ASSUME i + j # 0 PROVE PValue(n, i, j) = PValue(n, j, i)
    OBVIOUS
  <2>1. i + j > 0
    BY <1>1
  <2> HIDE DEF N
  <2> QED BY <2>1, PValueAssumption DEF N
<1>13. Raw(scores, <<a, b>>).diff = i - j /\ Raw(scores, <<b, a>>).diff = j - i
  BY <1>5, <1>6, <1>7, <1>9, <1>10
<1>14. /\ Raw(scores, <<a, b>>).p = IF i + j = 0 THEN 100 ELSE PValue(n, i, j)
       /\ Raw(scores, <<b, a>>).p = IF j + i = 0 THEN 100 ELSE PValue(n, j, i)
  BY <1>5, <1>6, <1>7, <1>9, <1>10, <1>101
<1> QED BY <1>11, <1>12, <1>13, <1>14

-----------------------------------------------------------------------------
\* A family within another

\* The p-values p are among q, at the places that e gives.
Carries(e, p, q) ==
    /\ p \in Seq(Percent) /\ q \in Seq(Percent) /\ e \in [DOMAIN p -> DOMAIN q]
    /\ \A j, k \in DOMAIN p : e[j] = e[k] => j = k
    /\ \A k \in DOMAIN p : q[e[k]] = p[k]

CarriedTo(e, S) == {e[k] : k \in S}

\* A set of p-values has the same Bonferroni p-value where it is carried to.
LEMMA JointlyCarried ==
    ASSUME NEW e, NEW p, NEW q, Carries(e, p, q), NEW S \in SUBSET DOMAIN p
    PROVE  Jointly(q, CarriedTo(e, S)) = Jointly(p, S)
<1> USE DEF Carries
<1> DEFINE T == CarriedTo(e, S)
<1> DEFINE f == [k \in S |-> e[k]]
<1>1. IsFiniteSet(S)
  BY SeqFacts, Positions, FS_Subset
<1>2. /\ f \in [S -> T] /\ \A x, y \in S : f[x] = f[y] => x = y
      /\ \A y \in T : \E x \in S : f[x] = y
  BY DEF CarriedTo
<1>3. Cardinality(T) = Cardinality(S)
  <2> HIDE DEF f, T
  <2> QED BY <1>1, <1>2, Images
<1>4. {q[j] : j \in T} = {p[j] : j \in S}
  BY DEF CarriedTo
<1> HIDE DEF T
<1>5. PICK X, n : X = {p[j] : j \in S} /\ n = Cardinality(S)
  OBVIOUS
<1>6. Jointly(p, S) = Min({100, n * Min(X)})
  BY <1>5 DEF Jointly
<1>7. {q[j] : j \in T} = X /\ Cardinality(T) = n
  BY <1>3, <1>4, <1>5
<1>8. Jointly(q, T) = Min({100, n * Min(X)})
  BY <1>7 DEF Jointly
<1> QED BY <1>6, <1>8 DEF T

\* Among more p-values, an adjusted one is no lower.
LEMMA NoLower ==
    ASSUME NEW e, NEW p, NEW q, Carries(e, p, q), NEW i \in DOMAIN p
    PROVE  HolmBonferroni(q)[e[i]] >= HolmBonferroni(p)[i]
<1>1. p \in Seq(Percent) /\ q \in Seq(Percent) /\ e \in [DOMAIN p -> DOMAIN q]
  BY DEF Carries
<1>2. PICK S \in SUBSET DOMAIN p : i \in S /\ HolmBonferroni(p)[i] = Jointly(p, S)
  BY <1>1, HolmIsClosed
<1>3. PICK T : T = CarriedTo(e, S)
  OBVIOUS
<1>4. T \in SUBSET DOMAIN q /\ e[i] \in T /\ e[i] \in DOMAIN q
  BY <1>1, <1>2, <1>3 DEF CarriedTo
<1>5. Jointly(q, T) = Jointly(p, S)
  BY <1>3, JointlyCarried
<1>6. Jointly(q, T) <= HolmBonferroni(q)[e[i]]
  BY <1>1, <1>4, HolmIsClosed
<1>7. HolmBonferroni(p)[i] \in 0..100 /\ HolmBonferroni(q)[e[i]] \in 0..100
  BY <1>1, <1>4, HolmIsClosed
<1> QED BY <1>2, <1>5, <1>6, <1>7

-----------------------------------------------------------------------------
\* The same comparisons, of two lists of names

Covering(names) ==
    names \in Seq(Conditions) /\ \A c \in Conditions : \E i \in 1..Len(names) : names[i] = c

Once(names) == \A i, j \in 1..Len(names) : names[i] = names[j] => i = j

\* The sides of a pair, whichever is first
Sides(pair) == {pair[1], pair[2]}

\* Pairs with the same sides are the same one way or the other.
LEMMA SidesIs ==
    ASSUME NEW x, NEW y, Sides(x) = Sides(y)
    PROVE  (x[1] = y[1] /\ x[2] = y[2]) \/ (x[1] = y[2] /\ x[2] = y[1])
BY DEF Sides

\* Pairs of conditions are listed, whatever names are given.
LEMMA Compares ==
    ASSUME NEW names \in Seq(Conditions), NEW baseline \in {0} \cup Conditions,
           NEW pairs, pairs = Pairs(names, baseline)
    PROVE  /\ pairs \in Seq(Conditions \X Conditions)
           /\ \E at : ListsGames(pairs, at, names, baseline)
<1>1. baseline # 0 => baseline \in Conditions
  OBVIOUS
<1> QED BY <1>1, PairsListGames

\* The pairs of the names, and those of others, the same ones if not each once
Twice(names, others, baseline, pairs, again) ==
    /\ Covering(names) /\ Once(names) /\ Covering(others)
    /\ baseline \in {0} \cup Conditions
    /\ pairs = Pairs(names, baseline) /\ again = Pairs(others, baseline)

\* Every pair is met again.
Faced(pairs, again) ==
    \A i \in 1..Len(pairs) : \E k \in 1..Len(again) : Sides(again[k]) = Sides(pairs[i])

\* Names given again are compared again, and none with itself.
LEMMA Found ==
    ASSUME NEW names, NEW others, NEW baseline, NEW pairs, NEW again,
           Twice(names, others, baseline, pairs, again)
    PROVE  Faced(pairs, again) /\ \A i \in 1..Len(pairs) : pairs[i][1] # pairs[i][2]
<1> USE DEF Twice
<1> SUFFICES ASSUME NEW i \in 1..Len(pairs)
             PROVE  /\ pairs[i][1] # pairs[i][2]
                    /\ \E k \in 1..Len(again) : Sides(again[k]) = Sides(pairs[i])
  BY DEF Faced
<1>1. /\ names \in Seq(Conditions) /\ others \in Seq(Conditions)
      /\ \A c \in Conditions : \E k \in 1..Len(others) : others[k] = c
  BY DEF Covering
<1>2. PICK at : ListsGames(pairs, at, names, baseline)
  BY <1>1, Compares
<1>3. PICK to : ListsGames(again, to, others, baseline)
  BY <1>1, Compares
<1>4. at[i] \in Games(names, baseline) /\ pairs[i] = Game(names, baseline, at[i])
  BY <1>2 DEF ListsGames
<1>5. PICK u \in 1..Len(names), v \in 0..Len(names) : at[i] = <<u, v>>
  BY <1>4 DEF Games
<1>6. /\ Len(names) \in Nat /\ \A k \in 1..Len(names) : names[k] \in Conditions
      /\ Len(others) \in Nat
  BY <1>1, SeqFacts
<1>7. CASE baseline = 0
  <2>1. u < v
    BY <1>4, <1>5, <1>7 DEF Games
  <2>2. v \in 1..Len(names) /\ u # v
    BY <1>6, <2>1
  <2>3. pairs[i] = <<names[u], names[v]>>
    BY <1>4, <1>5, <1>7 DEF Game
  <2>4. names[u] # names[v]
    BY <2>2 DEF Once
  <2>5. PICK a \in 1..Len(others) : others[a] = names[u]
    BY <1>1, <1>6
  <2>6. PICK b \in 1..Len(others) : others[b] = names[v]
    BY <1>1, <1>6, <2>2
  <2>7. a < b \/ b < a
    BY <2>4, <2>5, <2>6
  <2>8. CASE a < b
    <3>1. <<a, b>> \in Games(others, baseline)
      BY <1>6, <1>7, <2>8 DEF Games
    <3>2. PICK k \in 1..Len(again) : to[k] = <<a, b>>
      BY <1>3, <3>1 DEF ListsGames
    <3>3. again[k] = <<names[u], names[v]>>
      BY <1>3, <1>7, <2>5, <2>6, <3>2 DEF ListsGames, Game
    <3>4. Sides(again[k]) = Sides(pairs[i])
      BY <2>3, <3>3
    <3>5. pairs[i][1] # pairs[i][2]
      BY <2>3, <2>4
    <3> QED BY <3>4, <3>5
  <2>9. CASE b < a
    <3>1. <<b, a>> \in Games(others, baseline)
      BY <1>6, <1>7, <2>9 DEF Games
    <3>2. PICK k \in 1..Len(again) : to[k] = <<b, a>>
      BY <1>3, <3>1 DEF ListsGames
    <3>3. again[k] = <<names[v], names[u]>>
      BY <1>3, <1>7, <2>5, <2>6, <3>2 DEF ListsGames, Game
    <3>4. Sides(again[k]) = Sides(pairs[i])
      BY <2>3, <3>3 DEF Sides
    <3> QED BY <2>3, <2>4, <3>4
  <2> QED BY <2>7, <2>8, <2>9
<1>8. CASE baseline # 0
  <2>1. v = 0 /\ names[u] # baseline
    BY <1>4, <1>5, <1>8 DEF Games
  <2>2. pairs[i] = <<names[u], baseline>>
    BY <1>4, <1>5, <1>8 DEF Game
  <2>3. PICK a \in 1..Len(others) : others[a] = names[u]
    BY <1>1, <1>6
  <2>4. <<a, 0>> \in Games(others, baseline)
    BY <1>6, <1>8, <2>1, <2>3 DEF Games
  <2>5. PICK k \in 1..Len(again) : to[k] = <<a, 0>>
    BY <1>3, <2>4 DEF ListsGames
  <2>6. again[k] = <<names[u], baseline>>
    BY <1>3, <1>8, <2>3, <2>5 DEF ListsGames, Game
  <2> QED BY <2>1, <2>2, <2>6
<1> QED BY <1>7, <1>8

\* Names given once each make every pair once.
LEMMA Distinct ==
    ASSUME NEW names, Covering(names), Once(names), NEW baseline \in {0} \cup Conditions,
           NEW pairs, pairs = Pairs(names, baseline),
           NEW i \in 1..Len(pairs), NEW j \in 1..Len(pairs), Sides(pairs[i]) = Sides(pairs[j])
    PROVE  i = j
<1>1. names \in Seq(Conditions)
  BY DEF Covering
<1>2. PICK at : ListsGames(pairs, at, names, baseline)
  BY <1>1, Compares
<1>3. Len(names) \in Nat
  BY <1>1, SeqFacts
<1>4. /\ at[i] \in Games(names, baseline) /\ pairs[i] = Game(names, baseline, at[i])
      /\ at[j] \in Games(names, baseline) /\ pairs[j] = Game(names, baseline, at[j])
  BY <1>2 DEF ListsGames
<1>5. PICK u \in 1..Len(names), v \in 0..Len(names) : at[i] = <<u, v>>
  BY <1>4 DEF Games
<1>6. PICK x \in 1..Len(names), y \in 0..Len(names) : at[j] = <<x, y>>
  BY <1>4 DEF Games
<1>7. CASE baseline = 0
  <2>1. u < v /\ x < y
    BY <1>4, <1>5, <1>6, <1>7 DEF Games
  <2>2. v \in 1..Len(names) /\ y \in 1..Len(names)
    BY <1>3, <2>1
  <2>3. pairs[i] = <<names[u], names[v]>> /\ pairs[j] = <<names[x], names[y]>>
    BY <1>4, <1>5, <1>6, <1>7 DEF Game
  <2>4. \/ names[u] = names[x] /\ names[v] = names[y]
        \/ names[u] = names[y] /\ names[v] = names[x]
    BY <2>3, SidesIs
  <2>5. (u = x /\ v = y) \/ (u = y /\ v = x)
    BY <2>2, <2>4 DEF Once
  <2>6. u = x /\ v = y
    BY <1>3, <2>1, <2>5
  <2> QED BY <1>2, <1>5, <1>6, <2>6 DEF ListsGames
<1>8. CASE baseline # 0
  <2>1. v = 0 /\ y = 0 /\ names[u] # baseline /\ names[x] # baseline
    BY <1>4, <1>5, <1>6, <1>8 DEF Games
  <2>2. pairs[i] = <<names[u], baseline>> /\ pairs[j] = <<names[x], baseline>>
    BY <1>4, <1>5, <1>6, <1>8 DEF Game
  <2>3. names[u] = names[x]
    BY <2>1, <2>2, SidesIs
  <2>4. u = x
    BY <2>3 DEF Once
  <2> QED BY <1>2, <1>5, <1>6, <2>1, <2>4 DEF ListsGames
<1> QED BY <1>7, <1>8

\* Two comparisons with the same sides differ in their direction at most.
LEMMA SameSides ==
    ASSUME NEW scores \in Scored, NEW x \in Conditions \X Conditions,
           NEW y \in Conditions \X Conditions, Sides(x) = Sides(y)
    PROVE  Raw(scores, x).p = Raw(scores, y).p
<1>1. /\ x = <<x[1], x[2]>> /\ y = <<y[1], y[2]>> /\ x[1] \in Conditions /\ x[2] \in Conditions
  OBVIOUS
<1>2. (x[1] = y[1] /\ x[2] = y[2]) \/ (x[1] = y[2] /\ x[2] = y[1])
  BY SidesIs
<1>3. CASE x = y
  BY <1>3
<1>4. CASE x # y
  <2>1. y = <<x[2], x[1]>>
    BY <1>1, <1>2, <1>4
  <2>2. Raw(scores, <<x[2], x[1]>>).p = Raw(scores, <<x[1], x[2]>>).p
    BY <1>1, RawReversed
  <2> QED BY <1>1, <2>1, <2>2
<1> QED BY <1>3, <1>4

\* Every comparison of the names is among those of the others, and no more significant.
LEMMA Embedded ==
    ASSUME NEW scores \in Scored, NEW names, NEW others,
           NEW baseline, NEW pairs, NEW again, Twice(names, others, baseline, pairs, again),
           NEW i \in 1..Len(pairs), NEW k \in 1..Len(again), Sides(again[k]) = Sides(pairs[i])
    PROVE  /\ PValues(scores, again)[k] = PValues(scores, pairs)[i]
           /\ HolmBonferroni(PValues(scores, again))[k]
                >= HolmBonferroni(PValues(scores, pairs))[i]
<1>1. /\ names \in Seq(Conditions) /\ others \in Seq(Conditions)
      /\ baseline \in {0} \cup Conditions
      /\ pairs = Pairs(names, baseline) /\ again = Pairs(others, baseline)
      /\ Covering(names) /\ Once(names)
  BY DEF Covering, Twice
<1>2. PICK p, q : p = PValues(scores, pairs) /\ q = PValues(scores, again)
  OBVIOUS
<1>3. /\ pairs \in Seq(Conditions \X Conditions) /\ again \in Seq(Conditions \X Conditions)
      /\ p \in Seq(Percent) /\ Len(p) = Len(pairs)
      /\ q \in Seq(Percent) /\ Len(q) = Len(again)
  BY <1>1, <1>2, CompareIs
<1>4. /\ DOMAIN p = 1..Len(pairs) /\ DOMAIN q = 1..Len(again)
      /\ \A j \in 1..Len(pairs) : pairs[j] \in Conditions \X Conditions
      /\ \A j \in 1..Len(again) : again[j] \in Conditions \X Conditions
  BY <1>3, SeqFacts
<1>5. ASSUME NEW x \in 1..Len(pairs), NEW y \in 1..Len(again), Sides(again[y]) = Sides(pairs[x])
      PROVE  q[y] = p[x]
  <2>1. Raw(scores, again[y]).p = Raw(scores, pairs[x]).p
    BY <1>4, <1>5, SameSides
  <2> QED BY <1>2, <2>1 DEF PValues
<1> DEFINE m(x) == CHOOSE y \in 1..Len(again) : Sides(again[y]) = Sides(pairs[x])
           e == [x \in 1..Len(pairs) |-> IF x = i THEN k ELSE m(x)]
<1>6. \A x \in 1..Len(pairs) : m(x) \in 1..Len(again) /\ Sides(again[m(x)]) = Sides(pairs[x])
  <2>1. \A x \in 1..Len(pairs) :
           \E y \in 1..Len(again) : Sides(again[y]) = Sides(pairs[x])
    BY Found DEF Faced
  <2> QED BY <2>1
<1> HIDE DEF m
<1>7. /\ e \in [1..Len(pairs) -> 1..Len(again)] /\ e[i] = k
      /\ \A x \in 1..Len(pairs) : Sides(again[e[x]]) = Sides(pairs[x])
  BY <1>6
<1> HIDE DEF e
<1>8. ASSUME NEW x \in 1..Len(pairs), NEW y \in 1..Len(pairs), e[x] = e[y] PROVE x = y
  <2>1. Sides(pairs[x]) = Sides(pairs[y])
    BY <1>7, <1>8
  <2> QED BY <1>1, <2>1, Distinct
<1>9. Carries(e, p, q)
  <2>1. \A x \in 1..Len(pairs) : q[e[x]] = p[x]
    BY <1>5, <1>7
  <2> QED BY <1>3, <1>4, <1>7, <1>8, <2>1 DEF Carries
<1>10. HolmBonferroni(q)[e[i]] >= HolmBonferroni(p)[i]
  BY <1>4, <1>9, NoLower
<1> QED BY <1>2, <1>5, <1>7, <1>10

\* What compare_runs reports at place k
IsAt(c, k, scores, pairs) ==
    c[k] = [a |-> pairs[k][1], b |-> pairs[k][2], n |-> Cardinality(Shared(scores)),
            diff |-> Raw(scores, pairs[k]).diff, p |-> PValues(scores, pairs)[k],
            adjusted |-> HolmBonferroni(PValues(scores, pairs))[k],
            effect |-> Dominance(Vector(scores, pairs[k][1]), Vector(scores, pairs[k][2]))]

\* What compare_runs reports, place by place
LEMMA CompareAt ==
    ASSUME NEW scores \in Scored, NEW names, Covering(names),
           NEW baseline \in {0} \cup Conditions, NEW pairs, pairs = Pairs(names, baseline),
           NEW c, c = Compare(scores, names, baseline)
    PROVE  /\ DOMAIN c = 1..Len(pairs) /\ Len(pairs) \in Nat
           /\ \A k \in 1..Len(pairs) : pairs[k] \in Conditions \X Conditions
           /\ \A k \in 1..Len(pairs) : IsAt(c, k, scores, pairs)
           /\ \A k \in 1..Len(pairs) : HolmBonferroni(PValues(scores, pairs))[k] \in 0..100
<1>1. names \in Seq(Conditions)
  BY DEF Covering
<1>2. PICK p : p = PValues(scores, pairs)
  OBVIOUS
<1>3. /\ pairs \in Seq(Conditions \X Conditions) /\ p \in Seq(Percent) /\ Len(p) = Len(pairs)
      /\ DOMAIN c = 1..Len(pairs)
      /\ \A k \in 1..Len(pairs) : IsAt(c, k, scores, pairs)
  BY <1>1, <1>2, CompareIs DEF IsAt
<1>4. /\ DOMAIN p = 1..Len(pairs) /\ Len(pairs) \in Nat
      /\ \A k \in 1..Len(pairs) : pairs[k] \in Conditions \X Conditions
  BY <1>3, SeqFacts
<1>5. \A k \in 1..Len(pairs) : HolmBonferroni(p)[k] \in 0..100
  BY <1>3, <1>4, HolmIsClosed
<1> QED BY <1>2, <1>3, <1>4, <1>5

\* Two comparisons of the same sides differ in their direction alone, when no name is
\* given twice.
LEMMA UndirectedSame ==
    ASSUME NEW scores \in Scored, NEW names, NEW others,
           NEW baseline, NEW pairs, NEW again,
           Twice(names, others, baseline, pairs, again), Once(others),
           NEW c, c = Compare(scores, names, baseline),
           NEW d, d = Compare(scores, others, baseline),
           NEW i \in 1..Len(pairs), NEW k \in 1..Len(again), Sides(again[k]) = Sides(pairs[i])
    PROVE  Undirected(c[i]) = Undirected(d[k])
<1> DEFINE P == PValues(scores, pairs)[i]
           Q == PValues(scores, again)[k]
           H == HolmBonferroni(PValues(scores, pairs))[i]
           G == HolmBonferroni(PValues(scores, again))[k]
<1>1. /\ Covering(names) /\ Once(names) /\ Covering(others)
      /\ baseline \in {0} \cup Conditions
      /\ pairs = Pairs(names, baseline) /\ again = Pairs(others, baseline)
  BY DEF Twice
<1>2. /\ pairs[i] \in Conditions \X Conditions /\ IsAt(c, i, scores, pairs) /\ H \in 0..100
      /\ again[k] \in Conditions \X Conditions /\ IsAt(d, k, scores, again) /\ G \in 0..100
  <2>1. /\ pairs[i] \in Conditions \X Conditions /\ IsAt(c, i, scores, pairs)
        /\ H \in 0..100
    BY <1>1, CompareAt
  <2>2. /\ again[k] \in Conditions \X Conditions /\ IsAt(d, k, scores, again)
        /\ G \in 0..100
    BY <1>1, CompareAt
  <2> QED BY <2>1, <2>2
<1>3. Q = P /\ G >= H
  BY Embedded
<1>4. H >= G
  <2>1. Sides(pairs[i]) = Sides(again[k]) /\ Twice(others, names, baseline, again, pairs)
    BY <1>1 DEF Twice
  <2> QED BY <2>1, Embedded
<1>5. Q = P /\ G = H
  <2>1. \A x, y \in 0..100 : x >= y /\ y >= x => x = y
    OBVIOUS
  <2> HIDE DEF P, Q, H, G
  <2> QED BY <1>2, <1>3, <1>4, <2>1
<1>6. PICK a \in Conditions, b \in Conditions : pairs[i] = <<a, b>>
  BY <1>2
<1>7. a # b
  BY <1>6, Found
<1>8. PICK x \in Conditions, y \in Conditions : again[k] = <<x, y>>
  BY <1>2
<1>9. (x = a /\ y = b) \/ (x = b /\ y = a)
  BY <1>6, <1>8, SidesIs
<1>10. a \in Nat /\ b \in Nat
  BY ConditionsAre
<1> DEFINE N == Cardinality(Shared(scores))
           D == Raw(scores, <<a, b>>).diff
           E == Dominance(Vector(scores, a), Vector(scores, b))
<1>11. /\ D \in Int /\ Raw(scores, <<b, a>>).diff = -D
       /\ E \in Int /\ Dominance(Vector(scores, b), Vector(scores, a)) = -E
  BY RawReversed, DominanceReversed, VectorIs
<1>12. c[i] = [a |-> a, b |-> b, n |-> N, diff |-> D, p |-> P, adjusted |-> H, effect |-> E]
  BY <1>2, <1>6 DEF IsAt
<1>13. d[k] = [a |-> x, b |-> y, n |-> N, diff |-> Raw(scores, <<x, y>>).diff, p |-> P,
               adjusted |-> H, effect |-> Dominance(Vector(scores, x), Vector(scores, y))]
  BY <1>2, <1>5, <1>8 DEF IsAt
<1>14. CASE x = a /\ y = b
  BY <1>12, <1>13, <1>14
<1>15. CASE x = b /\ y = a
  <2> HIDE DEF N, D, E, P, H
  <2>1. d[k] = [a |-> b, b |-> a, n |-> N, diff |-> -D, p |-> P, adjusted |-> H, effect |-> -E]
    BY <1>11, <1>13, <1>15
  <2>2. {a, b} = {b, a}
    OBVIOUS
  <2>3. \A z \in Int : -(-z) = z
    OBVIOUS
  <2>4. CASE a < b
    <3>1. ~(b < a)
      BY <1>10, <2>4
    <3>2. Undirected(c[i]) = [pair |-> {a, b}, n |-> N, p |-> P, adjusted |-> H,
                              diff |-> D, effect |-> E]
      BY <1>12, <2>4 DEF Undirected
    <3>3. Undirected(d[k]) = [pair |-> {b, a}, n |-> N, p |-> P, adjusted |-> H,
                              diff |-> -(-D), effect |-> -(-E)]
      BY <2>1, <3>1 DEF Undirected
    <3> QED BY <1>11, <2>2, <2>3, <3>2, <3>3
  <2>5. CASE ~(a < b)
    <3>1. b < a
      BY <1>7, <1>10, <2>5
    <3>2. Undirected(c[i]) = [pair |-> {a, b}, n |-> N, p |-> P, adjusted |-> H,
                              diff |-> -D, effect |-> -E]
      BY <1>12, <2>5 DEF Undirected
    <3>3. Undirected(d[k]) = [pair |-> {b, a}, n |-> N, p |-> P, adjusted |-> H,
                              diff |-> -D, effect |-> -E]
      BY <2>1, <3>1 DEF Undirected
    <3> QED BY <2>2, <3>2, <3>3
  <2> QED BY <2>4, <2>5
<1> QED BY <1>9, <1>14, <1>15

\* The order of the names leaves the comparisons as they are, but for their direction.
LEMMA DirectionlessSame ==
    ASSUME NEW scores \in Scored, NEW names, NEW others,
           Covering(names), Once(names), Covering(others), Once(others),
           NEW baseline \in {0} \cup Conditions
    PROVE  Directionless(Compare(scores, names, baseline))
             = Directionless(Compare(scores, others, baseline))
<1>1. PICK pairs, again, c, d :
         /\ pairs = Pairs(names, baseline) /\ again = Pairs(others, baseline)
         /\ c = Compare(scores, names, baseline) /\ d = Compare(scores, others, baseline)
  OBVIOUS
<1>2. DOMAIN c = 1..Len(pairs) /\ DOMAIN d = 1..Len(again)
  BY <1>1, CompareAt
<1>3. /\ Twice(names, others, baseline, pairs, again)
      /\ Twice(others, names, baseline, again, pairs)
  BY <1>1 DEF Twice
<1>4. ASSUME NEW i \in DOMAIN c PROVE \E k \in DOMAIN d : Undirected(c[i]) = Undirected(d[k])
  <2>1. PICK k \in 1..Len(again) : Sides(again[k]) = Sides(pairs[i])
    <3>1. i \in 1..Len(pairs)
      BY <1>2
    <3>2. Faced(pairs, again)
      BY <1>3, Found
    <3> QED BY <3>1, <3>2 DEF Faced
  <2> QED BY <1>1, <1>2, <1>3, <2>1, UndirectedSame
<1>5. ASSUME NEW k \in DOMAIN d PROVE \E i \in DOMAIN c : Undirected(d[k]) = Undirected(c[i])
  <2>1. PICK i \in 1..Len(pairs) : Sides(pairs[i]) = Sides(again[k])
    <3>1. k \in 1..Len(again)
      BY <1>2
    <3>2. Faced(again, pairs)
      BY <1>3, Found
    <3> QED BY <3>1, <3>2 DEF Faced
  <2> QED BY <1>1, <1>2, <1>3, <2>1, UndirectedSame
<1>6. Directionless(c) = Directionless(d)
  BY <1>4, <1>5 DEF Directionless
<1> QED BY <1>1, <1>6

-----------------------------------------------------------------------------
\* What is stored

Metrics == UNION {[Q -> {0, 1}] : Q \in SUBSET Queries}

Record == [experiment : Names, org : Orgs, condition : Conditions, metrics : Metrics]

\* A row has the scores of a condition, of one of the runs stored under its name.
Kept(r) ==
    /\ r.org = DefaultOrg
    /\ \E k \in 1..Len(stored[r.experiment]) :
          r.metrics = stored[r.experiment][k][r.condition]

\* A name under which something is stored has a row for every condition, and under
\* which one run is stored has one row.
Filed(n) ==
    /\ stored[n] # <<>> =>
          /\ orgs # <<>>
          /\ \A c \in Conditions :
                \E i \in DOMAIN rows : rows[i].experiment = n /\ rows[i].condition = c
    /\ \A k \in 1..Len(stored[n]) : Shared(stored[n][k]) # {}
    /\ Len(stored[n]) = 1 =>
          \A i, j \in DOMAIN rows :
              /\ rows[i].experiment = n /\ rows[j].experiment = n
              /\ rows[i].condition = rows[j].condition
              => i = j

Stored ==
    /\ orgs \in Seq(Orgs)
    /\ rows \in Seq(Record)
    /\ stored \in [Names -> Seq(Outcomes)]
    /\ \A i \in DOMAIN rows : Kept(rows[i])
    /\ \A n \in Names : Filed(n)

\* Nothing is stored at first.
LEMMA InitStored == Init => Stored
<1> SUFFICES ASSUME Init PROVE Stored
  OBVIOUS
<1>1. orgs \in Seq(Orgs)
  <2>1. <<>> \in Seq(Orgs) /\ \A o \in Orgs : <<o>> \in Seq(Orgs)
    OBVIOUS
  <2>2. orgs \in {<<>>} \cup {<<o>> : o \in Orgs}
    BY DEF Init
  <2> QED BY <2>1, <2>2
<1>2. rows \in Seq(Record) /\ DOMAIN rows = {} /\ stored \in [Names -> Seq(Outcomes)]
  BY DEF Init
<1>3. ASSUME NEW n \in Names PROVE Filed(n)
  <2>1. stored[n] = <<>> /\ Len(stored[n]) = 0 /\ 1..0 = {}
    BY <1>3 DEF Init
  <2> QED BY <2>1 DEF Filed
<1> QED BY <1>1, <1>2, <1>3 DEF Stored

\* The rows a run is stored as
Block(name, scores) ==
    [i \in DOMAIN Grid |-> [experiment |-> name, org |-> DefaultOrg, condition |-> Grid[i],
                            metrics |-> scores[Grid[i]]]]

\* They are one row for each condition.
LEMMA BlockIs ==
    ASSUME NEW name \in Names, NEW scores \in Outcomes, DefaultOrg \in Orgs
    PROVE  /\ Block(name, scores) \in Seq(Record)
           /\ Len(Block(name, scores)) = Len(Grid) /\ Len(Grid) \in Nat
           /\ \A k \in 1..Len(Grid) :
                 /\ Grid[k] \in Conditions
                 /\ Block(name, scores)[k] =
                       [experiment |-> name, org |-> DefaultOrg, condition |-> Grid[k],
                        metrics |-> scores[Grid[k]]]
<1>1. /\ DOMAIN Grid = 1..Len(Grid) /\ Len(Grid) \in Nat
      /\ \A k \in 1..Len(Grid) : Grid[k] \in Conditions
  BY ConditionsAre, SeqFacts
<1>2. scores \in [Conditions -> Metrics]
  BY OutcomesAssumption DEF Metrics
<1>3. \A k \in 1..Len(Grid) :
         [experiment |-> name, org |-> DefaultOrg, condition |-> Grid[k],
          metrics |-> scores[Grid[k]]] \in Record
  BY <1>1, <1>2 DEF Record
<1>4. Block(name, scores) \in [1..Len(Grid) -> Record]
  BY <1>1, <1>3 DEF Block
<1>5. \A s \in [1..Len(Grid) -> Record] : s \in Seq(Record) /\ Len(s) = Len(Grid)
  BY <1>1
<1> QED BY <1>1, <1>4, <1>5 DEF Block

\* persist_runs keeps the rows those of what is stored, one more time a condition.
LEMMA PersistStored ==
    ASSUME Stored, Compared, NEW name \in Names, PersistRuns(name)
    PROVE  Stored'
<1>1. CASE orgs = <<>>
  <2>1. UNCHANGED <<orgs, rows, stored>>
    BY <1>1 DEF PersistRuns
  <2> QED BY <2>1 DEF Stored, Kept, Filed, DefaultOrg
<1>2. CASE orgs # <<>>
  <2>1. /\ orgs' = orgs /\ rows' = rows \o Block(name, cli.scores)
        /\ stored' = [stored EXCEPT ![name] = Append(@, cli.scores)]
        /\ cli.at = "compared"
    BY <1>2 DEF PersistRuns, Block
  <2>2. cli.scores \in Outcomes /\ Shared(cli.scores) # {}
    BY <2>1 DEF Compared
  <2>3. PICK scores \in Outcomes : scores = cli.scores
    BY <2>2
  <2>4. /\ orgs \in Seq(Orgs) /\ rows \in Seq(Record) /\ stored \in [Names -> Seq(Outcomes)]
        /\ \A i \in DOMAIN rows : Kept(rows[i])
        /\ \A n \in Names : Filed(n)
    BY DEF Stored
  <2>5. DefaultOrg \in Orgs /\ DefaultOrg' = DefaultOrg
    BY <1>2, <2>1, <2>4 DEF DefaultOrg
  <2>6. PICK block \in Seq(Record), g \in Nat :
           /\ block = Block(name, scores) /\ Len(block) = g /\ g = Len(Grid)
           /\ \A k \in 1..g :
                 /\ Grid[k] \in Conditions
                 /\ block[k] = [experiment |-> name, org |-> DefaultOrg, condition |-> Grid[k],
                                metrics |-> scores[Grid[k]]]
    BY <2>5, BlockIs
  <2>7. PICK r \in Nat : r = Len(rows) /\ DOMAIN rows = 1..r
    BY <2>4, SeqFacts
  <2>8. /\ rows' \in Seq(Record) /\ DOMAIN rows' = 1..(r + g)
        /\ \A i \in 1..r : rows'[i] = rows[i]
        /\ \A k \in 1..g : rows'[k + r] = block[k]
    <3>1. rows' = rows \o block
      BY <2>1, <2>3, <2>6
    <3>2. rows' \in Seq(Record) /\ Len(rows') = r + g
      BY <2>4, <2>6, <2>7, <3>1
    <3>3. DOMAIN rows' = 1..(r + g)
      BY <3>2, SeqFacts
    <3> QED BY <2>4, <2>6, <2>7, <3>1, <3>2, <3>3
  <2>9. \A i \in 1..(r + g) : i \in 1..r \/ \E k \in 1..g : i = k + r
    <3> SUFFICES ASSUME NEW i \in 1..(r + g), i \notin 1..r PROVE \E k \in 1..g : i = k + r
      OBVIOUS
    <3>1. i - r \in 1..g /\ i = (i - r) + r
      OBVIOUS
    <3> QED BY <3>1
  <2>10. PICK t \in Seq(Outcomes), l \in Nat : t = stored[name] /\ l = Len(t)
    BY <2>4, SeqFacts
  <2>11. /\ stored' \in [Names -> Seq(Outcomes)] /\ Len(stored'[name]) = l + 1
         /\ \A k \in 1..l : stored'[name][k] = stored[name][k]
         /\ stored'[name][l + 1] = scores
         /\ \A n \in Names : n # name => stored'[n] = stored[n]
    <3>1. stored'[name] = Append(t, scores) /\ Append(t, scores) \in Seq(Outcomes)
      BY <2>1, <2>3, <2>4, <2>10
    <3>2. stored' \in [Names -> Seq(Outcomes)]
      BY <2>1, <2>3, <2>4, <2>10, <3>1
    <3>3. \A n \in Names : n # name => stored'[n] = stored[n]
      BY <2>1, <2>4
    <3> QED BY <2>10, <3>1, <3>2, <3>3
  <2>12. \A k \in 1..g :
            /\ k + r \in DOMAIN rows'
            /\ rows'[k + r] = [experiment |-> name, org |-> DefaultOrg,
                               condition |-> Grid[k], metrics |-> scores[Grid[k]]]
    <3> SUFFICES ASSUME NEW k \in 1..g
                 PROVE  /\ k + r \in DOMAIN rows'
                        /\ rows'[k + r] =
                              [experiment |-> name, org |-> DefaultOrg,
                               condition |-> Grid[k], metrics |-> scores[Grid[k]]]
      OBVIOUS
    <3>1. k + r \in 1..(r + g)
      OBVIOUS
    <3>2. rows'[k + r] = block[k]
      BY <2>8
    <3> QED BY <2>6, <2>8, <3>1, <3>2
  <2>13. ASSUME NEW i \in DOMAIN rows', i \notin 1..r
         PROVE  \E k \in 1..g : /\ i = k + r /\ rows'[i].experiment = name
                                 /\ rows'[i].condition = Grid[k]
    <3>1. PICK k \in 1..g : i = k + r
      BY <2>8, <2>9, <2>13
    <3>2. rows'[i] = [experiment |-> name, org |-> DefaultOrg,
                      condition |-> Grid[k], metrics |-> scores[Grid[k]]]
      BY <2>12, <3>1
    <3>3. rows'[i].experiment = name /\ rows'[i].condition = Grid[k]
      BY <3>2
    <3> QED BY <3>1, <3>3
  <2>14. ASSUME NEW i \in DOMAIN rows' PROVE Kept(rows[i])'
    <3>1. CASE i \in 1..r
      <4>1. Kept(rows[i]) /\ rows'[i] = rows[i]
        BY <2>4, <2>7, <2>8, <3>1
      <4>2. rows[i] \in Record
        BY <2>4, <2>7, <3>1
      <4>3. PICK x \in Record : x = rows[i]
        BY <4>2
      <4>4. x.experiment \in Names
        BY DEF Record
      <4>5. PICK k \in 1..Len(stored[x.experiment]) :
               x.metrics = stored[x.experiment][k][x.condition]
        BY <4>1, <4>3 DEF Kept
      <4>6. /\ k \in 1..Len(stored'[x.experiment])
            /\ stored'[x.experiment][k] = stored[x.experiment][k]
        <5>1. CASE x.experiment = name
          <6>1. k \in 1..l /\ k \in 1..(l + 1)
            BY <2>10, <4>5, <5>1
          <6> QED BY <2>11, <5>1, <6>1
        <5>2. CASE x.experiment # name
          BY <2>11, <4>4, <4>5, <5>2
        <5> QED BY <5>1, <5>2
      <4>7. x.org = DefaultOrg'
        BY <2>5, <4>1, <4>3 DEF Kept
      <4> QED BY <4>1, <4>3, <4>5, <4>6, <4>7 DEF Kept
    <3>2. CASE i \notin 1..r
      <4>1. PICK k \in 1..g : i = k + r
        BY <2>8, <2>9, <3>2
      <4>2. rows'[i] = [experiment |-> name, org |-> DefaultOrg, condition |-> Grid[k],
                        metrics |-> scores[Grid[k]]]
        BY <2>6, <2>8, <4>1
      <4>3. l + 1 \in 1..Len(stored'[name])
        BY <2>11
      <4> QED BY <2>5, <2>11, <4>2, <4>3 DEF Kept
    <3> QED BY <3>1, <3>2
  <2>15. ASSUME NEW n \in Names PROVE Filed(n)'
    <3>1. ASSUME NEW c \in Conditions, stored'[n] # <<>>
          PROVE  \E i \in DOMAIN rows' : rows'[i].experiment = n /\ rows'[i].condition = c
      <4>1. CASE n = name
        <5>1. PICK k \in 1..g : Grid[k] = c
          BY <2>6, ConditionsAre
        <5>2. /\ k + r \in DOMAIN rows'
              /\ rows'[k + r] = [experiment |-> name, org |-> DefaultOrg,
                                 condition |-> Grid[k], metrics |-> scores[Grid[k]]]
          BY <2>12
        <5>3. rows'[k + r].experiment = n /\ rows'[k + r].condition = c
          BY <4>1, <5>1, <5>2
        <5> QED BY <5>2, <5>3
      <4>2. CASE n # name
        <5>1. stored[n] # <<>>
          BY <2>11, <3>1, <4>2
        <5>2. PICK i \in DOMAIN rows : rows[i].experiment = n /\ rows[i].condition = c
          BY <2>4, <5>1 DEF Filed
        <5>3. i \in DOMAIN rows' /\ rows'[i] = rows[i]
          BY <2>7, <2>8
        <5> QED BY <5>2, <5>3
      <4> QED BY <4>1, <4>2
    <3>2. ASSUME NEW k \in 1..Len(stored'[n]) PROVE Shared(stored'[n][k]) # {}
      <4>1. CASE n = name
        <5>1. k \in 1..l \/ k = l + 1
          BY <2>11, <3>2, <4>1
        <5>2. CASE k \in 1..l
          <6>1. stored'[n][k] = stored[n][k] /\ k \in 1..Len(stored[n])
            BY <2>10, <2>11, <4>1, <5>2
          <6> QED BY <2>4, <6>1 DEF Filed
        <5>3. CASE k = l + 1
          BY <2>2, <2>3, <2>11, <4>1, <5>3
        <5> QED BY <5>1, <5>2, <5>3
      <4>2. CASE n # name
        <5>1. stored'[n] = stored[n]
          BY <2>11, <4>2
        <5> QED BY <2>4, <3>2, <5>1 DEF Filed
      <4> QED BY <4>1, <4>2
    <3>3. ASSUME Len(stored'[n]) = 1, NEW i \in DOMAIN rows', NEW j \in DOMAIN rows',
                 rows'[i].experiment = n, rows'[j].experiment = n,
                 rows'[i].condition = rows'[j].condition
          PROVE  i = j
      <4>1. CASE n = name
        <5>1. l = 0
          <6>1. l + 1 = 1
            BY <2>11, <3>3, <4>1
          <6> QED BY <6>1
        <5>2. \A h \in 1..r : rows[h].experiment # n
          <6> SUFFICES ASSUME NEW h \in 1..r, rows[h].experiment = n PROVE FALSE
            OBVIOUS
          <6>1. \E k \in 1..Len(stored[n]) : TRUE
            BY <2>4, <2>7 DEF Kept
          <6> QED BY <2>10, <4>1, <5>1, <6>1
        <5>3. i \notin 1..r /\ j \notin 1..r
          BY <2>8, <3>3, <5>2
        <5>4. PICK h \in 1..g : i = h + r /\ rows'[i].condition = Grid[h]
          BY <2>13, <5>3
        <5>5. PICK k \in 1..g : j = k + r /\ rows'[j].condition = Grid[k]
          BY <2>13, <5>3
        <5>6. Grid[h] = Grid[k]
          BY <3>3, <5>4, <5>5
        <5>7. DOMAIN Grid = 1..g
          BY <2>6, ConditionsAre, SeqFacts
        <5>8. h = k
          BY <5>6, <5>7, GridAssumption
        <5> QED BY <5>4, <5>8, <5>5
      <4>2. CASE n # name
        <5>1. Len(stored[n]) = 1
          BY <2>11, <3>3, <4>2
        <5>2. i \in 1..r /\ j \in 1..r
          BY <2>13, <3>3, <4>2
        <5>3. rows'[i] = rows[i] /\ rows'[j] = rows[j] /\ i \in DOMAIN rows /\ j \in DOMAIN rows
          BY <2>7, <2>8, <5>2
        <5> QED BY <2>4, <3>3, <5>1, <5>3 DEF Filed
      <4> QED BY <4>1, <4>2
    <3>4. orgs' # <<>>
      BY <1>2, <2>1
    <3> QED BY <3>1, <3>2, <3>3, <3>4 DEF Filed
  <2>16. orgs' \in Seq(Orgs)
    BY <2>1, <2>4
  <2> QED BY <2>8, <2>11, <2>14, <2>15, <2>16 DEF Stored
<1> QED BY <1>1, <1>2

\* Every step of every command and request keeps the rows so.
LEMMA NextStored == Stored /\ Compared /\ [Next]_vars => Stored'
<1> SUFFICES ASSUME Stored, Compared, [Next]_vars PROVE Stored'
  OBVIOUS
<1>1. CASE UNCHANGED <<orgs, rows, stored>>
  BY <1>1 DEF Stored, Kept, Filed, DefaultOrg
<1>2. ASSUME NEW o \in Orgs, CreateOrg(o) PROVE Stored'
  <2>1. /\ orgs \in Seq(Orgs) /\ rows \in Seq(Record) /\ stored \in [Names -> Seq(Outcomes)]
        /\ \A i \in DOMAIN rows : Kept(rows[i])
        /\ \A n \in Names : Filed(n)
    BY DEF Stored
  <2>2. orgs' = Append(orgs, o) /\ rows' = rows /\ stored' = stored
    BY <1>2 DEF CreateOrg
  <2>3. orgs' \in Seq(Orgs) /\ orgs' # <<>>
    BY <2>1, <2>2
  <2>4. orgs # <<>> => DefaultOrg' = DefaultOrg
    BY <2>1, <2>2 DEF DefaultOrg
  <2>5. ASSUME NEW i \in DOMAIN rows PROVE Kept(rows[i])'
    <3>1. PICK x \in Record : x = rows[i]
      BY <2>1
    <3>2. x.experiment \in Names
      BY DEF Record
    <3>3. PICK t \in Seq(Outcomes) : t = stored[x.experiment]
      BY <2>1, <3>2
    <3>4. Len(t) # 0
      <4>1. \E k \in 1..Len(t) : TRUE
        BY <2>1, <3>1, <3>3 DEF Kept
      <4> QED BY <4>1
    <3>5. t # <<>>
      BY <3>4
    <3>6. orgs # <<>>
      BY <2>1, <3>2, <3>3, <3>5 DEF Filed
    <3> QED BY <2>1, <2>2, <2>4, <3>1, <3>6 DEF Kept
  <2>6. ASSUME NEW n \in Names PROVE Filed(n)'
    BY <2>1, <2>2, <2>3 DEF Filed
  <2> QED BY <2>1, <2>2, <2>3, <2>5, <2>6 DEF Stored
<1>3. ASSUME NEW s \in Outcomes, NEW b \in Baselines, RunAll(s, b) PROVE Stored'
  BY <1>1, <1>3 DEF RunAll
<1>4. ASSUME CompareRuns PROVE Stored'
  BY <1>1, <1>4 DEF CompareRuns
<1>5. ASSUME NEW n \in Names, PersistRuns(n) PROVE Stored'
  BY <1>5, PersistStored
<1>6. ASSUME NEW n \in Names, NEW o \in Orgs, NEW b \in Baselines, GetExperiment(n, o, b)
      PROVE  Stored'
  BY <1>1, <1>6 DEF GetExperiment
<1> QED BY <1>1, <1>2, <1>3, <1>4, <1>5, <1>6 DEF Next, vars

-----------------------------------------------------------------------------
\* What is read

\* The conditions of the rows found, in the order they are read
Named(found) == [i \in DOMAIN found |-> found[i].condition]

\* What a GET finds: rows of what is stored under the name, for its owner alone.
Reads(found, name, org) ==
    /\ found = <<>> <=> ~(stored[name] # <<>> /\ org = DefaultOrg)
    /\ \A i \in DOMAIN found :
          /\ found[i].condition \in Conditions
          /\ \E k \in 1..Len(stored[name]) :
                found[i].metrics = stored[name][k][found[i].condition]
    /\ found # <<>> => Covering(Named(found))
    /\ Len(stored[name]) = 1 => Once(Named(found))

\* Selected reads what is stored under the name, for its owner alone.
LEMMA SelectedReads ==
    ASSUME Stored, NEW name \in Names, NEW org
    PROVE  Reads(Selected(name, org), name, org)
<1>1. /\ rows \in Seq(Record) /\ stored \in [Names -> Seq(Outcomes)]
      /\ \A i \in DOMAIN rows : Kept(rows[i])
      /\ Filed(name)
  BY DEF Stored
<1>2. /\ DOMAIN rows = 1..Len(rows) /\ Len(rows) \in Nat
      /\ \A i \in DOMAIN rows : rows[i] \in Record
  BY <1>1, SeqFacts
<1>3. ASSUME NEW i \in DOMAIN rows, rows[i].experiment = name
      PROVE  /\ rows[i].condition \in Conditions /\ rows[i].org = DefaultOrg
             /\ \E k \in 1..Len(stored[name]) :
                   rows[i].metrics = stored[name][k][rows[i].condition]
             /\ stored[name] # <<>>
  <2>1. PICK x \in Record : x = rows[i]
    BY <1>2
  <2>2. x.condition \in Conditions
    BY DEF Record
  <2>3. Kept(x)
    BY <1>1, <2>1
  <2>4. PICK k \in 1..Len(stored[name]) : x.metrics = stored[name][k][x.condition]
    BY <1>3, <2>1, <2>3 DEF Kept
  <2>5. stored[name] # <<>>
    <3>1. Len(<<>>) = 0 /\ 1..0 = {}
      OBVIOUS
    <3> QED BY <2>4, <3>1
  <2>6. x.org = DefaultOrg
    BY <2>3 DEF Kept
  <2> QED BY <2>1, <2>2, <2>4, <2>5, <2>6
<1>4. \A i \in DOMAIN rows : rows[i].condition \in Nat
  <2>1. \A x \in Record : x.condition \in Conditions
    BY DEF Record
  <2>2. Conditions \subseteq Nat
    BY ConditionsAre
  <2> QED BY <1>2, <2>1, <2>2
<1>5. PICK places : places = Asked(name, org)
  OBVIOUS
<1>6. PICK m : m = Cardinality(places)
  OBVIOUS
<1>7. PICK found : found = Selected(name, org)
  OBVIOUS
<1>8. PICK at \in [1..m -> places] :
         /\ m \in Nat /\ DOMAIN found = 1..m /\ found = [k \in 1..m |-> found[k]]
         /\ \A k \in 1..m : found[k] = rows[at[k]]
         /\ \A j, k \in 1..m : at[j] = at[k] => j = k
         /\ \A i \in places : \E k \in 1..m : at[k] = i
  <2>1. ListsRows(found, places, m)
    BY <1>2, <1>4, <1>7, <1>5, <1>6, SelectedLists
  <2> QED BY <2>1 DEF ListsRows
<1>9. /\ \A i \in places : /\ i \in DOMAIN rows /\ rows[i].experiment = name
                           /\ rows[i].org = org
      /\ \A i \in DOMAIN rows : rows[i].experiment = name /\ rows[i].org = org => i \in places
  BY <1>5 DEF Asked
<1>10. ASSUME stored[name] # <<>>, org = DefaultOrg, NEW c \in Conditions
      PROVE  \E k \in 1..m : found[k].condition = c
  <2>1. PICK i \in DOMAIN rows : rows[i].experiment = name /\ rows[i].condition = c
    BY <1>1, <1>10 DEF Filed
  <2>2. i \in places
    BY <1>3, <1>9, <1>10, <2>1
  <2> QED BY <1>8, <2>1, <2>2
<1>11. ASSUME NEW k \in 1..m
      PROVE  /\ found[k].condition \in Conditions
             /\ \E h \in 1..Len(stored[name]) :
                   found[k].metrics = stored[name][h][found[k].condition]
             /\ stored[name] # <<>> /\ org = DefaultOrg
  <2>1. at[k] \in places /\ found[k] = rows[at[k]]
    BY <1>8
  <2> QED BY <1>3, <1>9, <2>1
<1>12. found = <<>> <=> m = 0
  <2>1. m = 0 => found = <<>>
    <3> SUFFICES ASSUME m = 0 PROVE found = <<>>
      OBVIOUS
    <3>1. 1..m = {}
      OBVIOUS
    <3> QED BY <1>8, <3>1
  <2>2. found = <<>> => m = 0
    <3> SUFFICES ASSUME found = <<>> PROVE m = 0
      OBVIOUS
    <3>1. DOMAIN found = {}
      OBVIOUS
    <3> QED BY <1>8, <3>1
  <2> QED BY <2>1, <2>2
<1>13. found = <<>> <=> ~(stored[name] # <<>> /\ org = DefaultOrg)
  <2>1. PICK c : c \in Conditions
    BY ConditionsAre
  <2>2. ASSUME stored[name] # <<>>, org = DefaultOrg PROVE m # 0
    BY <1>10, <2>1, <2>2
  <2>3. ASSUME m # 0 PROVE stored[name] # <<>> /\ org = DefaultOrg
    <3>1. 1 \in 1..m
      BY <1>8, <2>3
    <3> QED BY <1>11, <3>1
  <2> QED BY <1>12, <2>2, <2>3
<1>14. /\ Named(found) \in Seq(Conditions) /\ Len(Named(found)) = m
       /\ \A k \in 1..m : Named(found)[k] = found[k].condition
  <2>1. Named(found) \in [1..m -> Conditions]
    BY <1>8, <1>11 DEF Named
  <2>2. \A s \in [1..m -> Conditions] : s \in Seq(Conditions) /\ Len(s) = m
    BY <1>8
  <2> QED BY <1>8, <2>1, <2>2 DEF Named
<1>15. ASSUME found # <<>> PROVE Covering(Named(found))
  BY <1>10, <1>13, <1>14, <1>15 DEF Covering
<1>16. ASSUME Len(stored[name]) = 1 PROVE Once(Named(found))
  <2> SUFFICES ASSUME NEW j \in 1..m, NEW k \in 1..m, found[j].condition = found[k].condition
               PROVE  j = k
    BY <1>14 DEF Once
  <2>1. /\ at[j] \in places /\ at[k] \in places
        /\ found[j] = rows[at[j]] /\ found[k] = rows[at[k]]
    BY <1>8
  <2>2. at[j] = at[k]
    BY <1>1, <1>9, <1>16, <2>1 DEF Filed
  <2> QED BY <1>8, <2>2
<1> QED BY <1>8, <1>11, <1>13, <1>15, <1>16, <1>7 DEF Reads

\* What a GET answers, of rows all of which are of the same scores
Answered(name, org, baseline, found, scores) ==
    IF Shared(scores) = {} THEN report'.status = 409
    ELSE IF baseline \notin {0} \cup Conditions THEN report'.status = 400
    ELSE /\ report'.status = 200
         /\ report'.comparisons = Compare(scores, Named(found), baseline)

\* A GET leaves everything as it is, and its answer is made of the rows it read.
LEMMA GetAnswers ==
    ASSUME Stored, NEW name \in Names, NEW org \in Orgs, NEW baseline \in Baselines,
           GetExperiment(name, org, baseline)
    PROVE  /\ UNCHANGED <<orgs, cli, rows, stored, runs>>
           /\ report'.org = org /\ report'.name = name /\ report'.baseline = baseline
           /\ report'.status # 0
           /\ Selected(name, org) = <<>> <=> report'.status = 404
           /\ report'.status = 404 => report'.comparisons = <<>>
           /\ \A scores \in Outcomes :
                 /\ Selected(name, org) # <<>>
                 /\ \A k \in 1..Len(stored[name]) : stored[name][k] = scores
                 => Answered(name, org, baseline, Selected(name, org), scores)
<1> DEFINE found == Selected(name, org)
<1>1. Reads(found, name, org)
  BY SelectedReads
<1>2. UNCHANGED <<orgs, cli, rows, stored, runs>>
  BY DEF GetExperiment
<1>3. CASE found = <<>>
  <2>1. report' = [status |-> 404, org |-> org, name |-> name, baseline |-> baseline,
                   comparisons |-> <<>>]
    BY <1>3 DEF GetExperiment
  <2> QED BY <1>2, <1>3, <2>1
<1>4. CASE found # <<>>
  <2> DEFINE Reply(status, comparisons) ==
               report' = [status |-> status, org |-> org, name |-> name,
                          baseline |-> baseline, comparisons |-> comparisons]
  <2>1. PICK last \in [Conditions -> Range(found)] :
          /\ \A c \in Conditions : last[c].condition = c
          /\ LET s == [c \in Conditions |-> last[c].metrics]
             IN IF Shared(s) = {} THEN Reply(409, <<>>)
                ELSE IF baseline \notin {0} \cup DOMAIN s THEN Reply(400, <<>>)
                ELSE Reply(200, Compare(s, [i \in DOMAIN found |-> found[i].condition],
                                        baseline))
    BY <1>4 DEF GetExperiment
  <2> DEFINE s == [c \in Conditions |-> last[c].metrics]
  <2>2. DOMAIN s = Conditions
    OBVIOUS
  <2>3. IF Shared(s) = {} THEN Reply(409, <<>>)
        ELSE IF baseline \notin {0} \cup Conditions THEN Reply(400, <<>>)
        ELSE Reply(200, Compare(s, Named(found), baseline))
    BY <2>1, <2>2 DEF Named
  <2>4. ASSUME NEW scores \in Outcomes,
               \A k \in 1..Len(stored[name]) : stored[name][k] = scores
        PROVE  s = scores
    <3>1. ASSUME NEW c \in Conditions PROVE last[c].metrics = scores[c]
      <4>1. last[c] \in Range(found) /\ last[c].condition = c
        BY <2>1
      <4>2. PICK i \in DOMAIN found : found[i] = last[c]
        BY <4>1 DEF Range
      <4> QED BY <1>1, <2>4, <4>1, <4>2 DEF Reads
    <3>2. scores = [c \in Conditions |-> scores[c]]
      BY OutcomesAssumption
    <3> QED BY <3>1, <3>2
  <2> HIDE DEF s
  <2>5. /\ report'.org = org /\ report'.name = name /\ report'.baseline = baseline
        /\ report'.status # 0 /\ report'.status # 404
    BY <2>3
  <2>6. ASSUME NEW scores \in Outcomes,
               \A k \in 1..Len(stored[name]) : stored[name][k] = scores
        PROVE  Answered(name, org, baseline, found, scores)
    <3>1. s = scores
      BY <2>4, <2>6
    <3> QED BY <2>3, <3>1 DEF Answered
  <2> QED BY <1>2, <1>4, <2>5, <2>6
<1> QED BY <1>3, <1>4

\* The grid names every condition once.
LEMMA GridNames == Covering(Grid) /\ Once(Grid)
<1>1. DOMAIN Grid = 1..Len(Grid)
  BY ConditionsAre, SeqFacts
<1> QED BY <1>1, ConditionsAre, GridAssumption DEF Covering, Once

\* Each comparison is there again, no more significant.
NoStronger(first, again) ==
    \A i \in DOMAIN first : \E j \in DOMAIN again :
        /\ {again[j].a, again[j].b} = {first[i].a, first[i].b}
        /\ \A k \in DOMAIN again : {again[k].a, again[k].b} = {first[i].a, first[i].b} =>
               again[k].p = first[i].p /\ again[k].adjusted >= first[i].adjusted

\* Of the same scores, compared under names that may be given again
LEMMA AgainNoStronger ==
    ASSUME NEW scores \in Scored, NEW others, Covering(others),
           NEW baseline \in {0} \cup Conditions,
           NEW c, c = Compare(scores, Grid, baseline),
           NEW d, d = Compare(scores, others, baseline)
    PROVE  NoStronger(c, d)
<1>1. PICK pairs, again : pairs = Pairs(Grid, baseline) /\ again = Pairs(others, baseline)
  OBVIOUS
<1>2. Twice(Grid, others, baseline, pairs, again)
  BY <1>1, GridNames DEF Twice
<1>3. DOMAIN c = 1..Len(pairs) /\ \A k \in 1..Len(pairs) : IsAt(c, k, scores, pairs)
  BY <1>1, GridNames, CompareAt
<1>4. DOMAIN d = 1..Len(again) /\ \A k \in 1..Len(again) : IsAt(d, k, scores, again)
  BY <1>1, CompareAt
<1>5. ASSUME NEW i \in 1..Len(pairs)
      PROVE  /\ {c[i].a, c[i].b} = Sides(pairs[i])
             /\ c[i].p = PValues(scores, pairs)[i]
             /\ c[i].adjusted = HolmBonferroni(PValues(scores, pairs))[i]
  BY <1>3 DEF IsAt, Sides
<1>6. ASSUME NEW k \in 1..Len(again)
      PROVE  /\ {d[k].a, d[k].b} = Sides(again[k])
             /\ d[k].p = PValues(scores, again)[k]
             /\ d[k].adjusted = HolmBonferroni(PValues(scores, again))[k]
  BY <1>4 DEF IsAt, Sides
<1>7. ASSUME NEW i \in 1..Len(pairs), NEW k \in 1..Len(again),
             {d[k].a, d[k].b} = {c[i].a, c[i].b}
      PROVE  d[k].p = c[i].p /\ d[k].adjusted >= c[i].adjusted
  <2>1. Sides(again[k]) = Sides(pairs[i])
    BY <1>5, <1>6, <1>7
  <2>2. /\ PValues(scores, again)[k] = PValues(scores, pairs)[i]
        /\ HolmBonferroni(PValues(scores, again))[k]
             >= HolmBonferroni(PValues(scores, pairs))[i]
    BY <1>2, <2>1, Embedded
  <2> QED BY <1>5, <1>6, <2>2
<1>8. ASSUME NEW i \in 1..Len(pairs)
      PROVE  \E k \in 1..Len(again) : {d[k].a, d[k].b} = {c[i].a, c[i].b}
  <2>1. Faced(pairs, again)
    BY <1>2, Found
  <2>2. PICK k \in 1..Len(again) : Sides(again[k]) = Sides(pairs[i])
    BY <2>1 DEF Faced
  <2> QED BY <1>5, <1>6, <2>2
<1> QED BY <1>3, <1>4, <1>7, <1>8 DEF NoStronger

\* What a GET answers is what was reported, when it was stored once.
LEMMA GetReadsBack ==
    ASSUME Stored, NEW name \in Names, NEW org \in Orgs, NEW baseline \in Baselines,
           GetExperiment(name, org, baseline)
    PROVE  ReadBack'
<1>1. PICK found : found = Selected(name, org)
  OBVIOUS
<1>2. Reads(found, name, org)
  BY <1>1, SelectedReads
<1>3. /\ UNCHANGED <<orgs, cli, rows, stored, runs>>
      /\ report'.org = org /\ report'.name = name /\ report'.baseline = baseline
      /\ found = <<>> <=> report'.status = 404
      /\ \A scores \in Outcomes :
            /\ found # <<>>
            /\ \A k \in 1..Len(stored[name]) : stored[name][k] = scores
            => Answered(name, org, baseline, found, scores)
  BY <1>1, GetAnswers
<1>4. PICK kept : kept = stored[name]
  OBVIOUS
<1>5. report'.status = 404 <=> ~(kept # <<>> /\ org = DefaultOrg)
  BY <1>2, <1>3, <1>4 DEF Reads
<1>6. ASSUME kept # <<>>, org = DefaultOrg, Len(kept) = 1
      PROVE  /\ report'.status # 409
             /\ report'.status = 400 <=> baseline \notin {0} \cup Conditions
             /\ report'.status = 200 =>
                   Directionless(report'.comparisons)
                     = Directionless(Compare(kept[1], Grid, baseline))
  <2>1. kept \in Seq(Outcomes) /\ Filed(name)
    BY <1>4 DEF Stored
  <2>2. 1 \in 1..Len(kept) /\ \A k \in 1..Len(kept) : k = 1
    BY <1>6
  <2>3. PICK scores \in Outcomes : scores = kept[1]
    BY <2>1, <2>2, SeqFacts
  <2>4. Shared(scores) # {}
    BY <1>4, <2>1, <2>2, <2>3 DEF Filed
  <2>5. found # <<>> /\ Covering(Named(found)) /\ Once(Named(found))
    BY <1>2, <1>4, <1>6 DEF Reads
  <2>6. Answered(name, org, baseline, found, scores)
    BY <1>3, <1>4, <2>2, <2>3, <2>5
  <2>7. CASE baseline \notin {0} \cup Conditions
    BY <2>4, <2>6, <2>7 DEF Answered
  <2>8. CASE baseline \in {0} \cup Conditions
    <3>1. report'.status = 200 /\ report'.comparisons = Compare(scores, Named(found), baseline)
      BY <2>4, <2>6, <2>8 DEF Answered
    <3>2. scores \in Scored
      BY OutcomesAssumption DEF Scored
    <3>3. Directionless(Compare(scores, Grid, baseline))
            = Directionless(Compare(scores, Named(found), baseline))
      BY <2>5, <2>8, <3>2, GridNames, DirectionlessSame
    <3> QED BY <2>3, <2>8, <3>1, <3>3
  <2> QED BY <2>7, <2>8
<1>7. DefaultOrg' = DefaultOrg
  BY <1>3 DEF DefaultOrg
<1> QED BY <1>3, <1>4, <1>5, <1>6, <1>7 DEF ReadBack

\* What a GET answers is no stronger, when the same was stored again.
LEMMA GetNoStronger ==
    ASSUME Stored, NEW name \in Names, NEW org \in Orgs, NEW baseline \in Baselines,
           GetExperiment(name, org, baseline)
    PROVE  RerunsNeverOverstate'
<1>1. PICK found : found = Selected(name, org)
  OBVIOUS
<1>2. Reads(found, name, org)
  BY <1>1, SelectedReads
<1>3. /\ UNCHANGED <<orgs, cli, rows, stored, runs>>
      /\ report'.org = org /\ report'.name = name /\ report'.baseline = baseline
      /\ found = <<>> <=> report'.status = 404
      /\ \A scores \in Outcomes :
            /\ found # <<>>
            /\ \A k \in 1..Len(stored[name]) : stored[name][k] = scores
            => Answered(name, org, baseline, found, scores)
  BY <1>1, GetAnswers
<1>4. PICK kept : kept = stored[name]
  OBVIOUS
<1>5. ASSUME report'.status = 200, Cardinality(Range(kept)) = 1
      PROVE  NoStronger(Compare(kept[1], Grid, baseline), report'.comparisons)
  <2>1. kept \in Seq(Outcomes)
    BY <1>4 DEF Stored
  <2>2. found # <<>>
    BY <1>3, <1>5
  <2>3. Covering(Named(found)) /\ kept # <<>>
    BY <1>2, <1>4, <2>2 DEF Reads
  <2>4. DOMAIN kept = 1..Len(kept) /\ 1 \in 1..Len(kept) /\ Len(kept) \in Nat
    BY <2>1, <2>3, SeqFacts
  <2>5. IsFiniteSet(Range(kept))
    <3>1. kept \in [1..Len(kept) -> Range(kept)]
      BY <2>1, <2>4 DEF Range
    <3>2. \A x \in Range(kept) : \E k \in 1..Len(kept) : kept[k] = x
      BY <2>4 DEF Range
    <3>3. kept \in Surjection(1..Len(kept), Range(kept))
      BY <3>1, <3>2 DEF Surjection
    <3>4. IsFiniteSet(1..Len(kept))
      BY <2>4, Positions
    <3> QED BY <3>3, <3>4, FS_Surjection
  <2>6. \A k \in 1..Len(kept) : kept[k] = kept[1]
    <3>1. \A k \in 1..Len(kept) : kept[k] \in Range(kept)
      BY <2>4 DEF Range
    <3>2. PICK x : Range(kept) = {x}
      BY <1>5, <2>5, FS_Singleton
    <3> QED BY <2>4, <3>1, <3>2
  <2>7. PICK scores \in Outcomes : scores = kept[1]
    BY <2>1, <2>4, SeqFacts
  <2>8. Answered(name, org, baseline, found, scores)
    BY <1>3, <1>4, <2>2, <2>6, <2>7
  <2>9. /\ baseline \in {0} \cup Conditions
        /\ report'.comparisons = Compare(scores, Named(found), baseline)
    BY <1>5, <2>8 DEF Answered
  <2>10. scores \in Scored
    BY OutcomesAssumption DEF Scored
  <2> QED BY <2>3, <2>7, <2>9, <2>10, AgainNoStronger
<1>6. report'.status = 200 /\ Cardinality(Range(stored'[report'.name])) = 1 =>
          NoStronger(Compare(stored'[report'.name][1], Grid, report'.baseline),
                     report'.comparisons)
  BY <1>3, <1>4, <1>5
<1> QED BY <1>6 DEF RerunsNeverOverstate, NoStronger

\* A report of nothing says nothing.
LEMMA NothingReported ==
    /\ report.status = 0 => ReadBack /\ RerunsNeverOverstate
    /\ report'.status = 0 => ReadBack' /\ RerunsNeverOverstate'
<1>1. ~(0 # 0) /\ ~(0 = 200)
  OBVIOUS
<1>2. report.status = 0 => ReadBack
  BY ZenonT(30), <1>1 DEF ReadBack
<1>3. report.status = 0 => RerunsNeverOverstate
  BY ZenonT(30), <1>1 DEF RerunsNeverOverstate
<1>4. report'.status = 0 => ReadBack'
  BY ZenonT(30), <1>1 DEF ReadBack
<1>5. report'.status = 0 => RerunsNeverOverstate'
  BY ZenonT(30), <1>1 DEF RerunsNeverOverstate
<1> QED BY <1>2, <1>3, <1>4, <1>5

\* Nothing else answers anything.
LEMMA NextReport ==
    ASSUME Stored, ReadBack, RerunsNeverOverstate, [Next]_vars
    PROVE  ReadBack' /\ RerunsNeverOverstate'
<1>1. CASE report' = NoReport
  <2>1. report'.status = 0
    BY <1>1 DEF NoReport
  <2> QED BY <2>1, NothingReported
<1>2. CASE UNCHANGED vars
  <2>1. orgs' = orgs /\ stored' = stored /\ report' = report
    BY <1>2 DEF vars
  <2>2. ReadBack'
    BY <2>1 DEF ReadBack, DefaultOrg
  <2>3. RerunsNeverOverstate'
    BY <2>1 DEF RerunsNeverOverstate
  <2> QED BY <2>2, <2>3
<1>3. ASSUME NEW o \in Orgs, CreateOrg(o) PROVE report' = NoReport
  BY <1>3 DEF CreateOrg
<1>4. ASSUME NEW s \in Outcomes, NEW b \in Baselines, RunAll(s, b) PROVE report' = NoReport
  BY <1>4 DEF RunAll
<1>5. ASSUME CompareRuns PROVE report' = NoReport
  BY <1>5 DEF CompareRuns
<1>6. ASSUME NEW n \in Names, PersistRuns(n) PROVE report' = NoReport
  BY <1>6 DEF PersistRuns
<1>7. ASSUME NEW n \in Names, NEW o \in Orgs, NEW b \in Baselines, GetExperiment(n, o, b)
      PROVE  ReadBack' /\ RerunsNeverOverstate'
  BY <1>7, GetReadsBack, GetNoStronger
<1> QED BY <1>1, <1>2, <1>3, <1>4, <1>5, <1>6, <1>7 DEF Next

\* The inductive invariant
Reported == Compared /\ Stored /\ ReadBack /\ RerunsNeverOverstate

\* It holds of every behaviour.
LEMMA ReportedHold == Spec => []Reported
<1>1. Init => Reported
  <2>1. Init => ReadBack /\ RerunsNeverOverstate
    <3>1. Init => report = NoReport
      BY DEF Init
    <3>2. NoReport.status = 0
      BY DEF NoReport
    <3>3. Init => report.status = 0
      BY <3>1, <3>2
    <3> QED BY <3>3, NothingReported
  <2> QED BY <2>1, InitCompared, InitStored DEF Reported
<1>2. Reported /\ [Next]_vars => Reported'
  BY NextCompared, NextStored, NextReport DEF Reported
<1> QED BY <1>1, <1>2, PTL DEF Spec

\* GET /experiments/{name} reports of what was stored once what compare_runs reported,
\* to the organisation it was stored for and nobody else, in every reachable state.
THEOREM ReadBackHolds == Spec => []ReadBack
<1>1. Reported => ReadBack
  BY DEF Reported
<1> QED BY <1>1, ReportedHold, PTL

\* Storing the same run again never makes a difference more significant: every pair is
\* reported with the p-value it had and an adjusted one that is no lower.
THEOREM RerunsHold == Spec => []RerunsNeverOverstate
<1>1. Reported => RerunsNeverOverstate
  BY DEF Reported
<1> QED BY <1>1, ReportedHold, PTL
==============================================================================
