------------------------------ MODULE Extrema ------------------------------
(***************************************************************************)
(* The least and the greatest element of a set of numbers, the size of an  *)
(* image and a sum over a finite set: facts about Min, Max, Cardinality    *)
(* and MapThenSumSet that the proofs of several modules need.              *)
(***************************************************************************)
EXTENDS Integers, FiniteSets, FiniteSetsExt, FiniteSetTheorems, TLAPS

(* A set of naturals has a least element.                                  *)
LEMMA LeastNat ==
  ASSUME NEW S \in SUBSET Nat, S # {}
  PROVE  \E x \in S : \A y \in S : x <= y
<1> DEFINE R == OpToRel(<, Nat)
<1>1. IsWellFoundedOn(R, Nat)
  BY NatLessThanWellFounded
<1>2. \A x, y \in Nat : y < x => <<y, x>> \in R
  BY DEF OpToRel
<1> HIDE DEF R
<1>3. PICK x \in S : \A y \in S : ~ (<<y, x>> \in R)
  BY <1>1, WFMin
<1>4. ASSUME NEW y \in S PROVE x <= y
  <2>1. x \in Nat /\ y \in Nat
    OBVIOUS
  <2>2. ~ (y < x)
    BY <1>2, <1>3, <2>1
  <2>3. QED
    BY <2>1, <2>2
<1>5. QED
  BY <1>4

(* Min of a set of naturals is that element.                               *)
LEMMA MinOfNat ==
  ASSUME NEW S \in SUBSET Nat, S # {}
  PROVE  Min(S) \in S /\ \A x \in S : Min(S) <= x
<1>1. PICK x \in S : \A y \in S : x <= y
  BY LeastNat
<1>2. QED
  BY <1>1 DEF Min

(* Max of a bounded set of naturals is its greatest element.               *)
LEMMA MaxOfNat ==
  ASSUME NEW S \in SUBSET Nat, S # {}, NEW n \in Nat, \A x \in S : x <= n
  PROVE  Max(S) \in S /\ \A x \in S : x <= Max(S)
<1> DEFINE T == {m \in 0..n : n - m \in S}
<1>1. T \in SUBSET Nat /\ T # {}
  <2>1. PICK x \in S : TRUE
    OBVIOUS
  <2>2. n - x \in 0..n /\ n - (n - x) = x
    BY <2>1
  <2>3. QED
    BY <2>2, <2>1
<1>2. PICK m \in T : \A k \in T : m <= k
  <2> HIDE DEF T
  <2> QED BY <1>1, LeastNat
<1>3. n - m \in S /\ \A x \in S : x <= n - m
  <2>1. ASSUME NEW x \in S PROVE x <= n - m
    <3>1. n - (n - x) = x /\ n - x \in 0..n
      OBVIOUS
    <3>2. n - x \in T
      BY <3>1
    <3>3. m <= n - x
      BY <3>2, <1>2
    <3>4. m \in Nat /\ x \in Nat
      OBVIOUS
    <3>5. QED
      BY <3>3, <3>4
  <2>2. QED
    BY <1>2, <2>1
<1>4. ASSUME NEW a \in S, \A x \in S : x <= a PROVE \A x \in S : a >= x
  BY <1>4
<1>5. n - m \in S /\ \A x \in S : n - m >= x
  BY <1>3
<1>6. Max(S) \in S /\ \A x \in S : Max(S) >= x
  BY <1>5 DEF Max
<1>7. QED
  BY <1>6

(* A finite set of naturals has a greatest element.  Of the subsets that   *)
(* have none, one of the fewest elements would have one after all.         *)
LEMMA GreatestNat ==
  ASSUME NEW S \in SUBSET Nat, S # {}, IsFiniteSet(S)
  PROVE  \E x \in S : \A y \in S : y <= x
<1> DEFINE Topped(T) == \E x \in T : \A y \in T : y <= x
           Bad == {n \in Nat : \E T \in SUBSET S : T # {} /\ Cardinality(T) = n /\ ~ Topped(T)}
<1>1. SUFFICES ASSUME ~ Topped(S) PROVE FALSE
  OBVIOUS
<1>2. \A T \in SUBSET S : IsFiniteSet(T) /\ Cardinality(T) \in Nat
  BY FS_Subset, FS_CardinalityType
<1>3. Cardinality(S) \in Bad
  BY <1>1, <1>2
<1>4. PICK n \in Bad : \A m \in Bad : n <= m
  <2> HIDE DEF Bad
  <2>1. Bad \in SUBSET Nat
    BY DEF Bad
  <2>2. QED
    BY <2>1, <1>3, LeastNat
<1>5. PICK T \in SUBSET S : T # {} /\ Cardinality(T) = n /\ ~ Topped(T)
  BY <1>4
<1>6. PICK x \in T : TRUE
  BY <1>5
<1> DEFINE R == T \ {x}
<1>7. R \in SUBSET S /\ Cardinality(R) = n - 1 /\ n \in Nat /\ Cardinality(R) \in Nat
  BY <1>2, <1>5, <1>6, FS_RemoveElement
<1>8. CASE R = {}
  <2>1. \A y \in T : y <= x
    BY <1>6, <1>8
  <2>2. QED
    BY <1>5, <1>6, <2>1
<1>9. CASE R # {}
  <2>1. Topped(R)
    <3>1. Cardinality(R) \notin Bad
      BY <1>4, <1>7
    <3>2. QED
      BY <1>7, <1>9, <3>1
  <2>2. PICK y \in R : \A z \in R : z <= y
    BY <2>1
  <2>3. x \in Nat /\ y \in Nat /\ \A z \in T : z \in Nat /\ (z = x \/ z \in R)
    BY <1>6, <2>2
  <2>4. Topped(T)
    <3>1. CASE y <= x
      <4>1. \A z \in T : z <= x
        BY <2>2, <2>3, <3>1
      <4>2. QED
        BY <4>1, <1>6
    <3>2. CASE x <= y
      <4>1. \A z \in T : z <= y
        BY <2>2, <2>3, <3>2
      <4>2. QED
        BY <4>1, <2>2
    <3>3. QED
      BY <2>3, <3>1, <3>2
  <2>5. QED
    BY <2>4, <1>5
<1>10. QED
  BY <1>8, <1>9

(* Max of a finite set of naturals is its greatest element.                *)
LEMMA MaxOfFinite ==
  ASSUME NEW S \in SUBSET Nat, S # {}, IsFiniteSet(S)
  PROVE  Max(S) \in S /\ \A x \in S : x <= Max(S)
<1>1. PICK x \in S : \A y \in S : y <= x
  BY GreatestNat
<1>2. S # {} /\ \A y \in S : y \in Nat
  OBVIOUS
<1>3. \A y \in S : x >= y
  BY <1>1, <1>2
<1>4. Max(S) \in S /\ \A y \in S : Max(S) >= y
  BY <1>3 DEF Max
<1>5. QED
  BY <1>4, <1>2

(* Min and Max of two numbers.                                             *)
LEMMA MinOfTwo ==
  ASSUME NEW a \in Int, NEW b \in Int
  PROVE  Min({a, b}) = (IF a <= b THEN a ELSE b)
<1>1. CASE a <= b
  <2>1. a \in {a, b} /\ \A y \in {a, b} : a <= y
    BY <1>1
  <2>2. Min({a, b}) \in {a, b} /\ \A y \in {a, b} : Min({a, b}) <= y
    BY <2>1 DEF Min
  <2>3. QED
    BY <1>1, <2>2
<1>2. CASE b < a
  <2>1. b \in {a, b} /\ \A y \in {a, b} : b <= y
    BY <1>2
  <2>2. Min({a, b}) \in {a, b} /\ \A y \in {a, b} : Min({a, b}) <= y
    BY <2>1 DEF Min
  <2>3. QED
    BY <1>2, <2>2
<1>3. QED
  BY <1>1, <1>2

(* The greater of two numbers.                                             *)
LEMMA MaxOfTwo ==
  ASSUME NEW a \in Int, NEW b \in Int
  PROVE  Max({a, b}) = (IF a >= b THEN a ELSE b)
<1>1. CASE a >= b
  <2>1. a \in {a, b} /\ \A y \in {a, b} : a >= y
    BY <1>1
  <2>2. Max({a, b}) \in {a, b} /\ \A y \in {a, b} : Max({a, b}) >= y
    BY <2>1 DEF Max
  <2>3. QED
    BY <1>1, <2>2
<1>2. CASE b > a
  <2>1. b \in {a, b} /\ \A y \in {a, b} : b >= y
    BY <1>2
  <2>2. Max({a, b}) \in {a, b} /\ \A y \in {a, b} : Max({a, b}) >= y
    BY <2>1 DEF Max
  <2>3. QED
    BY <1>2, <2>2
<1>3. QED
  BY <1>1, <1>2

(* The image of a finite set is finite, and no larger.                     *)
LEMMA ImageIsFinite ==
  ASSUME NEW S, IsFiniteSet(S), NEW f
  PROVE  /\ IsFiniteSet({f[x] : x \in S})
         /\ Cardinality({f[x] : x \in S}) \in Nat
         /\ Cardinality({f[x] : x \in S}) <= Cardinality(S)
<1> DEFINE T == {f[x] : x \in S}
           g == [x \in S |-> f[x]]
<1>1. g \in Surjection(S, T)
  BY DEF Surjection
<1> HIDE DEF T, g
<1>2. IsFiniteSet(T) /\ Cardinality(T) <= Cardinality(S)
  BY <1>1, FS_Surjection
<1>3. QED
  BY <1>2, FS_CardinalityType DEF T

(* What is summed, one by one: of each element as many as it counts.       *)
Copies(f, S) == UNION {{x} \X (1..f[x]) : x \in S}

(* What a function has to satisfy to be the one a sum is folded by.        *)
Sums(it, f, S) ==
  it = [s \in SUBSET S |-> IF s = {} THEN 0
                           ELSE f[CHOOSE x \in s : TRUE] + it[s \ {CHOOSE x \in s : TRUE}]]

(* The copies are finitely many, and those of an element are apart.        *)
LEMMA CopiesAre ==
  ASSUME NEW S, IsFiniteSet(S), NEW f, \A x \in S : f[x] \in Nat
  PROVE  /\ IsFiniteSet(Copies(f, S)) /\ Cardinality(Copies(f, S)) \in Nat
         /\ \A x \in S : Cardinality(Copies(f, S))
                           = f[x] + Cardinality(Copies(f, S \ {x}))
<1>1. \A x \in S : IsFiniteSet({x} \X (1..f[x])) /\ Cardinality({x} \X (1..f[x])) = f[x]
  <2> SUFFICES ASSUME NEW x \in S
               PROVE  IsFiniteSet({x} \X (1..f[x])) /\ Cardinality({x} \X (1..f[x])) = f[x]
    OBVIOUS
  <2> DEFINE k == f[x]
  <2>1. IsFiniteSet({x}) /\ Cardinality({x}) = 1
    BY FS_Singleton
  <2>2. IsFiniteSet(1..k) /\ Cardinality(1..k) = k /\ k \in Nat
    <3>1. k \in Nat
      OBVIOUS
    <3> HIDE DEF k
    <3>2. Cardinality(1..k) = IF 1 > k THEN 0 ELSE k - 1 + 1
      BY <3>1, FS_Interval
    <3>3. QED
      BY <3>1, <3>2, FS_Interval
  <2> HIDE DEF k
  <2> DEFINE one == {x} many == 1..k
  <2>3. IsFiniteSet(one) /\ IsFiniteSet(many) /\ Cardinality(one) = 1 /\ Cardinality(many) = k
    BY <2>1, <2>2
  <2> HIDE DEF one, many
  <2>4. IsFiniteSet(one \X many) /\ Cardinality(one \X many) = Cardinality(one) * Cardinality(many)
    BY <2>3, FS_Product
  <2>5. Cardinality(one \X many) = k
    BY <2>2, <2>3, <2>4
  <2>6. QED
    BY <2>4, <2>5 DEF k, one, many
<1>2. ASSUME NEW T \in SUBSET S PROVE IsFiniteSet(Copies(f, T))
  <2> DEFINE g == [x \in T |-> {x} \X (1..f[x])]
             B == {g[x] : x \in T}
  <2>1. IsFiniteSet(T)
    BY FS_Subset
  <2>2. IsFiniteSet(B)
    <3> HIDE DEF g
    <3>1. QED
      BY <2>1, ImageIsFinite
  <2>3. \A b \in B : IsFiniteSet(b)
    BY <1>1
  <2>4. Copies(f, T) = UNION B
    BY DEF Copies
  <2> HIDE DEF B
  <2>5. QED
    BY <2>2, <2>3, <2>4, FS_UNION
<1>3. ASSUME NEW x \in S
      PROVE  Cardinality(Copies(f, S)) = f[x] + Cardinality(Copies(f, S \ {x}))
  <2> DEFINE A == {x} \X (1..f[x])
             C == Copies(f, S \ {x})
  <2>1. Copies(f, S) = A \cup C /\ A \cap C = {}
    BY DEF Copies
  <2>2. IsFiniteSet(A) /\ IsFiniteSet(C) /\ Cardinality(A) = f[x]
    BY <1>1, <1>2
  <2> HIDE DEF A, C
  <2>3. Cardinality(A \cup C) = Cardinality(A) + Cardinality(C) - Cardinality({})
    BY <2>1, <2>2, FS_Union
  <2>4. Cardinality({}) = 0 /\ Cardinality(A) \in Nat /\ Cardinality(C) \in Nat
    BY <2>2, FS_EmptySet, FS_CardinalityType
  <2>5. Cardinality(Copies(f, S)) = f[x] + Cardinality(C)
    BY <2>1, <2>2, <2>3, <2>4
  <2>6. QED
    BY <2>5 DEF C
<1>4. QED
  BY <1>2, <1>3, FS_CardinalityType

(* A folded sum is the number of copies.  They satisfy what the fold asks  *)
(* for; and of the subsets whose sum were another, none has fewest         *)
(* elements.                                                               *)
LEMMA SumIsCount ==
  ASSUME NEW S, IsFiniteSet(S), NEW f, \A x \in S : f[x] \in Nat,
         NEW sum, sum = (CHOOSE it : Sums(it, f, S))[S]
  PROVE  sum = Cardinality(Copies(f, S))
<1> DEFINE n == [s \in SUBSET S |-> Cardinality(Copies(f, s))]
           it == CHOOSE i : Sums(i, f, S)
           pick(s) == CHOOSE x \in s : TRUE
<1>1. \A s \in SUBSET S : /\ IsFiniteSet(s) /\ Cardinality(s) \in Nat
                          /\ \A x \in s : f[x] \in Nat
  BY FS_Subset, FS_CardinalityType
<1>2. \A s \in SUBSET S : s # {} => pick(s) \in s
  OBVIOUS
<1>3. n[{}] = 0
  <2>1. Copies(f, {}) = {} /\ {} \in SUBSET S
    BY DEF Copies
  <2>2. QED
    BY <2>1, FS_EmptySet
<1>4. ASSUME NEW s \in SUBSET S, s # {}
      PROVE  n[s] = f[pick(s)] + n[s \ {pick(s)}]
  <2>1. pick(s) \in s /\ s \ {pick(s)} \in SUBSET S
    BY <1>2, <1>4
  <2> HIDE DEF pick
  <2>2. Cardinality(Copies(f, s)) = f[pick(s)] + Cardinality(Copies(f, s \ {pick(s)}))
    BY <1>1, <2>1, CopiesAre
  <2>3. QED
    BY <2>1, <2>2
<1>5. Sums(n, f, S)
  <2> DEFINE m == [s \in SUBSET S |-> IF s = {} THEN 0 ELSE f[pick(s)] + n[s \ {pick(s)}]]
  <2>1. \A s \in SUBSET S : n[s] = m[s]
    BY <1>3, <1>4
  <2>2. DOMAIN n = SUBSET S /\ DOMAIN m = SUBSET S
    OBVIOUS
  <2>3. n = m
    BY <2>1, <2>2
  <2>4. QED
    BY <2>3 DEF Sums
<1>6. Sums(it, f, S)
  <2> HIDE DEF n
  <2>1. QED
    BY <1>5
<1>7. /\ it[{}] = 0
      /\ \A s \in SUBSET S : s # {} => it[s] = f[pick(s)] + it[s \ {pick(s)}]
  <2> HIDE DEF it
  <2>1. it = [s \in SUBSET S |-> IF s = {} THEN 0 ELSE f[pick(s)] + it[s \ {pick(s)}]]
    BY <1>6 DEF Sums
  <2>2. QED
    BY <2>1
<1> DEFINE Off == {k \in Nat : \E s \in SUBSET S : Cardinality(s) = k /\ it[s] # n[s]}
<1> HIDE DEF it, n, pick
<1>8. Off = {}
  <2> SUFFICES ASSUME Off # {} PROVE FALSE
    OBVIOUS
  <2>1. PICK k \in Off : \A l \in Off : k <= l
    <3>1. Off \in SUBSET Nat
      OBVIOUS
    <3> HIDE DEF Off
    <3>2. QED
      BY <3>1, LeastNat
  <2>2. PICK s \in SUBSET S : Cardinality(s) = k /\ it[s] # n[s]
    BY <2>1
  <2>3. s # {}
    BY <1>3, <1>7, <2>2
  <2> DEFINE r == s \ {pick(s)}
  <2>4. pick(s) \in s /\ r \in SUBSET S
    BY <1>2, <2>3
  <2>5. Cardinality(r) = k - 1 /\ k \in Nat /\ Cardinality(r) \in Nat
    BY <1>1, <2>2, <2>4, FS_RemoveElement
  <2>6. Cardinality(r) \notin Off
    <3>1. ~ (k <= Cardinality(r))
      BY <2>5
    <3> HIDE DEF Off, r
    <3>2. QED
      BY <2>1, <3>1
  <2>7. it[r] = n[r]
    BY <2>4, <2>5, <2>6
  <2>8. QED
    BY <1>4, <1>7, <2>2, <2>3, <2>7
<1>9. it[S] = n[S]
  BY <1>1, <1>8
<1>10. QED
  BY <1>9 DEF it, n

(* As many elements over each of some values: the values times as many.    *)
LEMMA FibresAre ==
  ASSUME NEW C, IsFiniteSet(C), NEW S, IsFiniteSet(S), NEW g, NEW n \in Nat,
         \A d \in S : Cardinality({s \in C : g[s] = d}) = n
  PROVE  Cardinality({s \in C : g[s] \in S}) = Cardinality(S) * n
<1> DEFINE many == 1..n
           T == {s \in C : g[s] \in S}
           Over(d) == {s \in C : g[s] = d}
           Pick(d) == CHOOSE f : f \in Bijection(many, Over(d))
           F == [x \in S \X many |-> Pick(x[1])[x[2]]]
<1>1. IsFiniteSet(many) /\ Cardinality(many) = n
  <2>1. n \in Nat /\ 1 \in Int /\ n \in Int
    OBVIOUS
  <2>2. Cardinality(1..n) = (IF 1 > n THEN 0 ELSE n - 1 + 1) /\ IsFiniteSet(1..n)
    BY ONLY <2>1, FS_Interval
  <2>3. QED
    BY <2>1, <2>2
<1>2. ASSUME NEW d \in S PROVE Pick(d) \in Bijection(many, Over(d))
  <2>1. IsFiniteSet(Over(d)) /\ Cardinality(Over(d)) = n
    BY FS_Subset
  <2> HIDE DEF Over
  <2>2. ExistsBijection(many, Over(d))
    BY <2>1, FS_CardinalityType
  <2>3. QED
    BY <2>2 DEF ExistsBijection
<1> HIDE DEF Pick, many
<1>3. \A d \in S : /\ \A k \in many : Pick(d)[k] \in Over(d)
                   /\ \A k, l \in many : Pick(d)[k] = Pick(d)[l] => k = l
                   /\ \A s \in Over(d) : \E k \in many : Pick(d)[k] = s
  <2> HIDE DEF Over
  <2>1. QED
    BY <1>2 DEF Bijection, Injection, Surjection, IsInjective
<1>4. F \in Bijection(S \X many, T)
  <2>1. ASSUME NEW x \in S \X many PROVE F[x] \in T /\ g[F[x]] = x[1]
    BY <1>3
  <2>2. ASSUME NEW x \in S \X many, NEW y \in S \X many, F[x] = F[y] PROVE x = y
    <3>1. x[1] = y[1]
      BY <2>1, <2>2
    <3>2. Pick(x[1])[x[2]] = Pick(x[1])[y[2]]
      BY <2>2, <3>1
    <3>3. x[2] = y[2]
      BY <1>3, <3>2
    <3>4. x = <<x[1], x[2]>> /\ y = <<y[1], y[2]>>
      OBVIOUS
    <3>5. QED
      BY <3>1, <3>3, <3>4
  <2>3. ASSUME NEW s \in T PROVE \E x \in S \X many : F[x] = s
    <3>1. g[s] \in S /\ s \in Over(g[s])
      OBVIOUS
    <3>2. PICK k \in many : Pick(g[s])[k] = s
      BY <1>3, <3>1
    <3>3. <<g[s], k>> \in S \X many /\ F[<<g[s], k>>] = s
      BY <3>1, <3>2
    <3>4. QED
      BY <3>3
  <2>4. F \in [S \X many -> T]
    <3>1. F = [x \in S \X many |-> F[x]]
      OBVIOUS
    <3> HIDE DEF F, T
    <3>2. QED
      BY <2>1, <3>1
  <2> HIDE DEF F, T
  <2>5. QED
    BY <2>2, <2>3, <2>4 DEF Bijection, Injection, Surjection, IsInjective
<1>5. IsFiniteSet(S \X many) /\ Cardinality(S \X many) = Cardinality(S) * n
  BY <1>1, FS_Product
<1> HIDE DEF F, T
<1>6. Cardinality(T) = Cardinality(S \X many)
  BY <1>4, <1>5, FS_Bijection DEF ExistsBijection
<1>7. QED
  BY <1>5, <1>6 DEF T
=============================================================================
