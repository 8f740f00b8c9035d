---------------------------- MODULE Least_proofs ----------------------------
(***************************************************************************)
(* What the proofs about the website and the data path need of numbers and *)
(* finite sets: least elements, ranks and counting.                        *)
(***************************************************************************)
EXTENDS Integers, FiniteSetTheorems, FunctionTheorems, WellFoundedInduction, TLAPS

\* Of some finite sets one contains no other: that they are well founded stands
\* in for an induction.
LEMMA MinimalSubset ==
    ASSUME NEW S, NEW F \in SUBSET FiniteSubsetsOf(S), F # {}
    PROVE  \E U \in F : \A V \in F : ~(V \subseteq U /\ V # U)
<1>1. \E U \in F : \A V \in F : ~ (<<V, U>> \in StrictSubsetOrdering(S))
  BY FS_StrictSubsetOrderingWellFounded, WFMin
<1> QED BY <1>1 DEF StrictSubsetOrdering, FiniteSubsetsOf

LEMMA LeastNatural ==
    ASSUME NEW T \in SUBSET Nat, T # {}
    PROVE  \E n \in T : \A m \in T : n <= m
<1> DEFINE F == {0..n : n \in T}
<1>1. F \in SUBSET FiniteSubsetsOf(Nat) /\ F # {}
  <2>1. ASSUME NEW n \in T PROVE IsFiniteSet(0..n) /\ 0..n \subseteq Nat
    BY FS_Interval
  <2>2. \A U \in F : U \in FiniteSubsetsOf(Nat)
    BY <2>1 DEF FiniteSubsetsOf
  <2> QED BY <2>2
<1> HIDE DEF F
<1>2. PICK U \in F : \A V \in F : ~(V \subseteq U /\ V # U)
  BY <1>1, MinimalSubset
<1>3. PICK n \in T : U = 0..n
  BY <1>2 DEF F
<1>4. ASSUME NEW m \in T, ~(n <= m) PROVE FALSE
  <2>1. 0..m \in F /\ 0..m \subseteq 0..n /\ n \in 0..n /\ n \notin 0..m
    BY <1>4 DEF F
  <2> QED BY <1>2, <1>3, <2>1
<1> QED BY <1>4

-----------------------------------------------------------------------------
\* A finite set of integers with k elements or more has a k-th smallest one: the
\* ranks of its elements differ, so all of them are taken.
LEMMA RankExists ==
    ASSUME NEW R \in SUBSET Int, IsFiniteSet(R), NEW k \in 1..Cardinality(R)
    PROVE  \E i \in R : Cardinality({j \in R : j <= i}) = k
<1> DEFINE upTo(i) == {j \in R : j <= i}
           n == Cardinality(R)
           rank == [i \in R |-> Cardinality(upTo(i))]
<1>1. n \in Nat
  BY FS_CardinalityType
<1>2. \A i \in R : upTo(i) \in SUBSET R /\ i \in upTo(i)
  OBVIOUS
<1>3. \A i, j \in R : i < j => upTo(i) \subseteq upTo(j) /\ j \notin upTo(i)
  <2>1. \A i, j \in R : i < j => ~(j <= i) /\ \A x \in R : x <= i => x <= j
    OBVIOUS
  <2> QED BY <2>1, Zenon
<1>4. \A i, j \in R : i < j \/ j < i \/ i = j
  OBVIOUS
<1>5. \A i \in R : rank[i] = Cardinality(upTo(i))
  OBVIOUS
<1>6. DOMAIN rank = R /\ rank = [i \in R |-> rank[i]]
  OBVIOUS
<1> HIDE DEF rank
<1>7. ASSUME NEW i \in R
      PROVE  IsFiniteSet(upTo(i)) /\ rank[i] \in 1..n
  <2>1. IsFiniteSet(upTo(i)) /\ Cardinality(upTo(i)) <= n
    BY <1>2, FS_Subset
  <2>2. Cardinality(upTo(i)) \in Nat
    BY <2>1, FS_CardinalityType
  <2>3. Cardinality(upTo(i)) # 0
    BY <1>2, <2>1, FS_EmptySet
  <2> HIDE DEF upTo, n
  <2> QED BY <1>1, <1>5, <2>1, <2>2, <2>3
<1> HIDE DEF upTo, n
<1>8. ASSUME NEW i \in R, NEW j \in R, i < j, rank[i] = rank[j]
      PROVE  FALSE
  <2>1. upTo(i) \in SUBSET upTo(j) /\ j \notin upTo(i) /\ j \in upTo(j)
    BY <1>2, <1>3, <1>8
  <2>2. IsFiniteSet(upTo(j)) /\ Cardinality(upTo(j)) = Cardinality(upTo(i))
    BY <1>5, <1>7, <1>8
  <2>3. upTo(j) = upTo(i)
    BY <2>1, <2>2, FS_Subset
  <2> QED BY <2>1, <2>3
<1>9. rank \in Injection(R, 1..n)
  <2>1. rank \in [R -> 1..n]
    BY <1>6, <1>7
  <2>2. \A i, j \in R : rank[i] = rank[j] => i = j
    BY <1>4, <1>8
  <2> QED BY <2>1, <2>2, Fun_IsInj
<1>10. IsFiniteSet(1..n) /\ Cardinality(1..n) = n
  <2>1. (IF 1 > n THEN 0 ELSE n - 1 + 1) = n
    BY <1>1
  <2> QED BY <1>1, <2>1, FS_Interval
<1>11. rank \in Surjection(R, 1..n)
  BY <1>9, <1>10, FS_Injection DEF n
<1>12. k \in 1..n
  BY DEF n
<1>13. \E i \in R : rank[i] = k
  BY <1>11, <1>12 DEF Surjection
<1> QED BY <1>5, <1>13 DEF upTo

LEMMA LeastAndGreatest ==
    ASSUME NEW R \in SUBSET Int, IsFiniteSet(R), R # {}
    PROVE  /\ \E m \in R : \A j \in R : m <= j
           /\ \E m \in R : \A j \in R : j <= m
<1>1. Cardinality(R) \in Nat /\ Cardinality(R) # 0
  BY FS_CardinalityType, FS_EmptySet
<1>2. 1 \in 1..Cardinality(R) /\ Cardinality(R) \in 1..Cardinality(R)
  BY <1>1
<1>3. PICK m \in R : Cardinality({j \in R : j <= m}) = 1
  BY <1>2, RankExists
<1>4. \A j \in R : m <= j
  <2>1. IsFiniteSet({j \in R : j <= m})
    BY FS_Subset
  <2>2. PICK x : {j \in R : j <= m} = {x}
    BY <1>3, <2>1, FS_Singleton
  <2>3. ASSUME NEW j \in R, ~(m <= j) PROVE FALSE
    <3>1. j \in {i \in R : i <= m} /\ m \in {i \in R : i <= m} /\ j # m
      BY <2>3
    <3> QED BY <2>2, <3>1
  <2> QED BY <2>3
<1>5. PICK g \in R : Cardinality({j \in R : j <= g}) = Cardinality(R)
  BY <1>2, RankExists
<1>6. \A j \in R : j <= g
  <2>1. {j \in R : j <= g} \in SUBSET R
    OBVIOUS
  <2>2. R = {j \in R : j <= g}
    BY <1>5, <2>1, FS_Subset
  <2> QED BY <2>2
<1> QED BY <1>4, <1>6

-----------------------------------------------------------------------------
\* A function that maps no two elements alike has as many values as arguments.
LEMMA InjectiveImage ==
    ASSUME NEW A, IsFiniteSet(A), NEW f, \A x, y \in A : f[x] = f[y] => x = y
    PROVE  LET B == {f[x] : x \in A} IN IsFiniteSet(B) /\ Cardinality(B) = Cardinality(A)
<1> DEFINE B == {f[x] : x \in A}
           g == [x \in A |-> f[x]]
<1>1. g \in [A -> B]
  OBVIOUS
<1>2. \A x, y \in A : g[x] = g[y] => x = y
  OBVIOUS
<1>3. \A b \in B : \E x \in A : g[x] = b
  OBVIOUS
<1> HIDE DEF B, g
<1>4. g \in Bijection(A, B)
  BY <1>1, <1>2, <1>3, Fun_IsBij
<1>5. ExistsBijection(A, B)
  BY <1>4 DEF ExistsBijection
<1>6. IsFiniteSet(B) /\ Cardinality(B) = Cardinality(A)
  BY <1>5, FS_Bijection
<1> QED BY <1>6 DEF B

OfKind(f, A, v) == {a \in A : f[a] = v}
SameKinds(f, A, g, B) == \A v : Cardinality(OfKind(f, A, v)) = Cardinality(OfKind(g, B, v))

\* Sets that have equally many elements of each kind have equally many elements.
LEMMA FibersAgree ==
    ASSUME NEW A, NEW B, IsFiniteSet(A), IsFiniteSet(B), NEW f, NEW g,
           SameKinds(f, A, g, B)
    PROVE  Cardinality(A) = Cardinality(B)
<1> USE DEF OfKind, SameKinds
<1> DEFINE in(v) == OfKind(f, A, v)
           out(v) == OfKind(g, B, v)
           match(v) == CHOOSE h : h \in Bijection(in(v), out(v))
           H == [a \in A |-> match(f[a])[a]]
<1>1. \A v : match(v) \in Bijection(in(v), out(v))
  <2> SUFFICES ASSUME NEW v PROVE match(v) \in Bijection(in(v), out(v))
    OBVIOUS
  <2>1. IsFiniteSet(in(v)) /\ IsFiniteSet(out(v))
    <3>1. IsFiniteSet(in(v))
      BY FS_Subset
    <3>2. IsFiniteSet(out(v))
      BY FS_Subset
    <3> QED BY <3>1, <3>2
  <2>2. Cardinality(in(v)) = Cardinality(out(v))
    OBVIOUS
  <2> HIDE DEF in, out
  <2>3. ExistsBijection(in(v), out(v))
    BY <2>1, <2>2, FS_SameCardinalityBij
  <2> QED BY <2>3 DEF ExistsBijection
<1>2. \A v : \A x \in A : x \in in(v) <=> f[x] = v
  OBVIOUS
<1>3. \A v : \A y \in B : y \in out(v) <=> g[y] = v
  OBVIOUS
<1>4. \A v : in(v) \subseteq A /\ out(v) \subseteq B
  OBVIOUS
<1> HIDE DEF in, out, match
<1>5. \A v : /\ \A x \in in(v) : match(v)[x] \in out(v)
             /\ \A x, y \in in(v) : match(v)[x] = match(v)[y] => x = y
             /\ \A z \in out(v) : \E x \in in(v) : match(v)[x] = z
  <2> SUFFICES ASSUME NEW v
               PROVE  /\ \A x \in in(v) : match(v)[x] \in out(v)
                      /\ \A x, y \in in(v) : match(v)[x] = match(v)[y] => x = y
                      /\ \A z \in out(v) : \E x \in in(v) : match(v)[x] = z
    OBVIOUS
  <2>1. PICK h : h = match(v) /\ h \in Bijection(in(v), out(v))
    BY <1>1
  <2>2. h \in [in(v) -> out(v)]
    BY <2>1, Fun_BijectionProperties
  <2>5. h \in Injection(in(v), out(v)) /\ h \in Surjection(in(v), out(v))
    BY <2>1 DEF Bijection
  <2>3. \A x, y \in in(v) : h[x] = h[y] => x = y
    BY <2>5 DEF Injection, IsInjective
  <2>4. \A z \in out(v) : \E x \in in(v) : h[x] = z
    BY <2>5 DEF Surjection
  <2> QED BY <2>1, <2>2, <2>3, <2>4
<1>6. \A a \in A : H[a] \in out(f[a]) /\ H[a] = match(f[a])[a] /\ a \in in(f[a])
  BY <1>2, <1>5
<1>7. H \in [A -> B]
  BY <1>4, <1>6
<1>8. \A x, y \in A : H[x] = H[y] => x = y
  <2> SUFFICES ASSUME NEW x \in A, NEW y \in A, H[x] = H[y] PROVE x = y
    OBVIOUS
  <2> HIDE DEF H
  <2>1. g[H[x]] = f[x] /\ g[H[y]] = f[y]
    BY <1>3, <1>4, <1>6
  <2>2. f[x] = f[y]
    BY <2>1
  <2>3. PICK v : v = f[x]
    OBVIOUS
  <2>4. x \in in(v) /\ y \in in(v) /\ match(v)[x] = match(v)[y]
    BY <1>6, <2>2, <2>3
  <2> QED BY <1>5, <2>4
<1>9. \A z \in B : \E x \in A : H[x] = z
  <2> SUFFICES ASSUME NEW z \in B PROVE \E x \in A : H[x] = z
    OBVIOUS
  <2>1. PICK x \in in(g[z]) : match(g[z])[x] = z
    BY <1>3, <1>5
  <2>2. x \in A /\ f[x] = g[z]
    BY <1>2, <1>4, <2>1
  <2> QED BY <2>1, <2>2
<1> HIDE DEF H
<1>10. ExistsBijection(A, B)
  BY <1>7, <1>8, <1>9, Fun_IsBij DEF ExistsBijection
<1> QED BY <1>10, FS_Bijection

LEMMA ImageFinite ==
    ASSUME NEW A, IsFiniteSet(A), NEW f
    PROVE  IsFiniteSet({f[x] : x \in A})
<1> DEFINE B == {f[x] : x \in A}
           g == [x \in A |-> f[x]]
<1>1. g \in [A -> B] /\ \A b \in B : \E x \in A : g[x] = b
  OBVIOUS
<1> HIDE DEF B, g
<1>2. g \in Surjection(A, B)
  BY <1>1 DEF Surjection
<1>3. IsFiniteSet(B)
  BY <1>2, FS_Surjection
<1> QED BY <1>3 DEF B

\* The numbers of elements of each kind add up to the elements.
LEMMA KindsAddUp ==
    ASSUME NEW n \in Nat, NEW kind, NEW counts,
           DOMAIN counts = {kind[i] : i \in 1..n},
           \A b \in DOMAIN counts : counts[b] = Cardinality({i \in 1..n : kind[i] = b})
    PROVE  Cardinality(UNION {{b} \X (1..counts[b]) : b \in DOMAIN counts}) = n
<1> DEFINE D == DOMAIN counts
           of(b) == {i \in 1..n : kind[i] = b}
           part(b) == {b} \X (1..counts[b])
           units == UNION {part(b) : b \in D}
           first == [u \in units |-> u[1]]
           with(b) == {u \in units : first[u] = b}
<1>1. IsFiniteSet(1..n) /\ Cardinality(1..n) = n
  <2>1. (IF 1 > n THEN 0 ELSE n - 1 + 1) = n
    OBVIOUS
  <2> QED BY <2>1, FS_Interval
<1>2. \A b : of(b) \in SUBSET (1..n)
  OBVIOUS
<1>3. /\ \A b \in D : counts[b] = Cardinality(of(b))
      /\ \A b : b \notin D => of(b) = {}
  OBVIOUS
<1>4. \A b : /\ b \in D => with(b) = part(b)
             /\ b \notin D => with(b) = {}
  <2> SUFFICES ASSUME NEW b PROVE (b \in D => with(b) = part(b)) /\ (b \notin D => with(b) = {})
    OBVIOUS
  <2>1. \A c : \A u \in part(c) : u[1] = c
    OBVIOUS
  <2>2. \A u \in units : \E c \in D : u \in part(c) /\ first[u] = c
    BY <2>1
  <2>3. \A c \in D : \A u \in part(c) : u \in units /\ first[u] = c
    BY <2>1
  <2> HIDE DEF part, units, first
  <2> QED BY <2>2, <2>3
<1> HIDE DEF of
<1>5. ASSUME NEW b PROVE IsFiniteSet(of(b)) /\ Cardinality(of(b)) \in Nat
  <2>1. IsFiniteSet(of(b))
    BY <1>1, <1>2, FS_Subset
  <2> QED BY <2>1, FS_CardinalityType
<1>6. ASSUME NEW b \in D
      PROVE  IsFiniteSet(part(b)) /\ Cardinality(part(b)) = counts[b]
  <2>1. counts[b] \in Nat
    BY <1>3, <1>5
  <2>2. IsFiniteSet(1..counts[b]) /\ Cardinality(1..counts[b]) = counts[b]
    <3>1. (IF 1 > counts[b] THEN 0 ELSE counts[b] - 1 + 1) = counts[b]
      BY <2>1
    <3> QED BY <2>1, <3>1, FS_Interval
  <2>3. IsFiniteSet({b}) /\ Cardinality({b}) = 1
    BY FS_Singleton
  <2>4. IsFiniteSet(part(b)) /\ Cardinality(part(b)) = Cardinality({b}) * Cardinality(1..counts[b])
    BY <2>2, <2>3, FS_Product
  <2>5. 1 * counts[b] = counts[b]
    BY <2>1
  <2> QED BY <2>2, <2>3, <2>4, <2>5
<1>7. IsFiniteSet(units)
  <2>1. IsFiniteSet(D)
    BY <1>1, ImageFinite
  <2>2. PICK p : p = [b \in D |-> part(b)]
    OBVIOUS
  <2>3. {part(b) : b \in D} = {p[b] : b \in D}
    BY <2>2
  <2>4. IsFiniteSet({p[b] : b \in D})
    BY <2>1, ImageFinite
  <2>5. \A T \in {part(b) : b \in D} : IsFiniteSet(T)
    BY <1>6
  <2> QED BY <2>3, <2>4, <2>5, FS_UNION
<1>8. \A b : Cardinality(with(b)) = Cardinality(of(b))
  <2> SUFFICES ASSUME NEW b PROVE Cardinality(with(b)) = Cardinality(of(b))
    OBVIOUS
  <2> HIDE DEF D, part, with
  <2> QED BY <1>3, <1>4, <1>6
<1>a. \A b : with(b) = OfKind(first, units, b) /\ of(b) = OfKind(kind, 1..n, b)
  BY DEF OfKind, of
<1> HIDE DEF units, first, with
<1>b. SameKinds(first, units, kind, 1..n)
  BY <1>8, <1>a DEF SameKinds
<1>9. Cardinality(units) = Cardinality(1..n)
  BY <1>1, <1>7, <1>b, FibersAgree
<1> QED BY <1>1, <1>9 DEF units

=============================================================================
