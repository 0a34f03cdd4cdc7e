----------------------------- MODULE Induction -----------------------------
(***************************************************************************)
(* Induction over the natural numbers and over finite sets, stated with    *)
(* sets in place of predicates, so that a lemma is used by naming a set.   *)
(* From it, what a fold of the community modules computes: FoldLeft goes   *)
(* through the sets of indices 1 .. k, the largest index last.             *)
(***************************************************************************)
EXTENDS Integers, FiniteSets, FiniteSetsExt, FiniteSetTheorems, WellFoundedInduction, TLAPS

\* A set of natural numbers has a least element.
LEMMA LeastNat ==
    ASSUME NEW T \in SUBSET Nat, T # {}
    PROVE  \E m \in T : \A k \in T : m <= k
<1> DEFINE R == {ss \in Nat \X Nat : ss[1] < ss[2]}
<1>1. R = OpToRel(<, Nat)
  BY DEF OpToRel
<1>2. IsWellFoundedOn(R, Nat)
  BY <1>1, NatLessThanWellFounded
<1>3. \A x, y \in Nat : x < y => <<x, y>> \in R
  OBVIOUS
<1> HIDE DEF R
<1>4. PICK m \in T : \A y \in T : ~(<<y, m>> \in R)
  BY <1>2, WFMin
<1>5. \A y \in T : ~(y < m)
  BY <1>3, <1>4
<1> QED
  BY <1>5

\* A set that has 0, and with a number the next, has them all.
LEMMA SetInduction ==
    ASSUME NEW S, 0 \in S, \A n \in Nat : n \in S => n + 1 \in S
    PROVE  Nat \subseteq S
<1> DEFINE T == Nat \ S
<1> SUFFICES ASSUME T # {} PROVE FALSE
  OBVIOUS
<1>1. PICK m \in T : \A k \in T : m <= k
  BY LeastNat
<1>2. m # 0 /\ m - 1 \in Nat /\ m - 1 \notin T
  BY <1>1
<1> QED
  BY <1>1, <1>2

\* The same up to a bound.
LEMMA BoundedInduction ==
    ASSUME NEW n \in Nat, NEW S, 0 \in S, \A k \in 1 .. n : k - 1 \in S => k \in S
    PROVE  0 .. n \subseteq S
<1> DEFINE T == {k \in Nat : k <= n => k \in S}
<1>1. 0 \in T
  OBVIOUS
<1>2. ASSUME NEW k \in Nat, k \in T PROVE k + 1 \in T
  <2>1. k + 1 <= n => k + 1 \in 1 .. n /\ (k + 1) - 1 = k
    OBVIOUS
  <2> QED
    BY <1>2, <2>1
<1> HIDE DEF T
<1>3. Nat \subseteq T
  BY <1>1, <1>2, SetInduction
<1> QED
  BY <1>3 DEF T

\* What a fold computes from the indices of s: F takes what came of the others
\* and the largest.
Folded(F, base, s, h) == IF s = {} THEN base ELSE F[<<h[s \ {Max(s)}], Max(s)>>]

\* h is the fold over the indices 1 .. n and their subsets.
IsFold(n, V, base, F, h) ==
    /\ h \in [SUBSET (1 .. n) -> V]
    /\ \A s \in SUBSET (1 .. n) : h[s] = Folded(F, base, s, h)

\* A set of indices has a largest one, which of those up to k is k.
LEMMA MaxIndex ==
    ASSUME NEW k \in Nat
    PROVE  /\ \A s \in SUBSET (1 .. k) : s # {} => Max(s) \in s
           /\ \A s \in SUBSET (1 .. k) : k \in s => Max(s) = k
<1>1. ASSUME NEW s \in SUBSET (1 .. k), k \in s PROVE Max(s) = k
  <2>1. \A i \in s : i \in Int /\ k >= i
    OBVIOUS
  <2>2. Max(s) \in s /\ \A i \in s : Max(s) >= i
    BY <1>1, <2>1 DEF Max
  <2>3. Max(s) \in Int /\ Max(s) >= k /\ k >= Max(s)
    BY <1>1, <2>1, <2>2
  <2> QED
    BY <2>3
<1> DEFINE Q(j) == \A s \in SUBSET (1 .. j) : s # {} => \E m \in s : \A i \in s : m >= i
           S == {j \in Nat : Q(j)}
<1>2. Q(0)
  <2>1. 1 .. 0 = {}
    OBVIOUS
  <2> QED
    BY <2>1
<1>3. ASSUME NEW j \in Nat, Q(j) PROVE Q(j + 1)
  <2> SUFFICES ASSUME NEW s \in SUBSET (1 .. j + 1), s # {}
               PROVE  \E m \in s : \A i \in s : m >= i
    OBVIOUS
  <2>1. CASE j + 1 \in s
    <3>1. \A i \in s : j + 1 >= i
      OBVIOUS
    <3> QED
      BY <2>1, <3>1
  <2>2. CASE j + 1 \notin s
    <3>1. s \in SUBSET (1 .. j)
      BY <2>2
    <3> QED
      BY <1>3, <3>1
  <2> QED
    BY <2>1, <2>2
<1> HIDE DEF Q
<1>4. Q(k)
  <2>1. 0 \in S /\ \A j \in Nat : j \in S => j + 1 \in S
    BY <1>2, <1>3
  <2>2. k \in S => Q(k)
    OBVIOUS
  <2> HIDE DEF S
  <2> QED
    BY <2>1, <2>2, SetInduction
<1>5. ASSUME NEW s \in SUBSET (1 .. k), s # {} PROVE Max(s) \in s
  <2>1. \E m \in s : \A i \in s : m >= i
    BY <1>4, <1>5 DEF Q
  <2> QED
    BY <2>1 DEF Max
<1> QED
  BY <1>1, <1>5

\* The recursion of a fold over 1 .. n has a solution, if its steps stay in V.
LEMMA FoldExists ==
    ASSUME NEW n \in Nat, NEW V, NEW base \in V, NEW F,
           \A v \in V : \A k \in 1 .. n : F[<<v, k>>] \in V
    PROVE  \E h : IsFold(n, V, base, F, h)
<1> DEFINE Q(k) == k <= n => \E h : IsFold(k, V, base, F, h)
           S == {k \in Nat : Q(k)}
<1>1. Q(0)
  <2> DEFINE h == [s \in SUBSET (1 .. 0) |-> base]
  <2>1. SUBSET (1 .. 0) = {{}}
    OBVIOUS
  <2>2. IsFold(0, V, base, F, h)
    BY <2>1 DEF Folded, IsFold
  <2> QED
    BY <2>2
<1>2. ASSUME NEW k \in Nat, Q(k) PROVE Q(k + 1)
  <2> SUFFICES ASSUME k + 1 <= n PROVE \E h : IsFold(k + 1, V, base, F, h)
    OBVIOUS
  <2>0. k <= n
    OBVIOUS
  <2>1. PICK h : IsFold(k, V, base, F, h)
    BY <1>2, <2>0
  <2> USE DEF IsFold
  <2> DEFINE g == [s \in SUBSET (1 .. k + 1) |->
                     IF k + 1 \in s THEN F[<<h[s \ {k + 1}], k + 1>>] ELSE h[s]]
  <2>2. \A s \in SUBSET (1 .. k + 1) :
           /\ g[s] \in V
           /\ g[s] = IF k + 1 \in s THEN F[<<h[s \ {k + 1}], k + 1>>] ELSE h[s]
    <3>1. \A s \in SUBSET (1 .. k + 1) : k + 1 \in s => s \ {k + 1} \in SUBSET (1 .. k)
      OBVIOUS
    <3>2. \A s \in SUBSET (1 .. k + 1) : k + 1 \notin s => s \in SUBSET (1 .. k)
      OBVIOUS
    <3>3. \A s \in SUBSET (1 .. k + 1) :
             g[s] = IF k + 1 \in s THEN F[<<h[s \ {k + 1}], k + 1>>] ELSE h[s]
      OBVIOUS
    <3> HIDE DEF g
    <3>4. ASSUME NEW s \in SUBSET (1 .. k + 1) PROVE g[s] \in V
      <4>1. k + 1 \in 1 .. n
        OBVIOUS
      <4> QED
        BY <2>1, <3>1, <3>2, <3>3, <4>1
    <3> QED
      BY <3>3, <3>4
  <2>3. g \in [SUBSET (1 .. k + 1) -> V]
    BY <2>2
  <2> HIDE DEF g
  <2>4. ASSUME NEW s \in SUBSET (1 .. k + 1), k + 1 \in s
        PROVE  g[s] = Folded(F, base, s, g)
    <3>1. Max(s) = k + 1
      BY <2>4, MaxIndex
    <3>2. s \ {k + 1} \in SUBSET (1 .. k)
      <4>1. \A i \in s : i \in 1 .. k + 1 /\ (i # k + 1 => i \in 1 .. k)
        OBVIOUS
      <4> QED
        BY <4>1
    <3>3. g[s \ {k + 1}] = h[s \ {k + 1}]
      BY <2>2, <3>2
    <3> QED
      BY <2>2, <2>4, <3>1, <3>3 DEF Folded
  <2>5. ASSUME NEW s \in SUBSET (1 .. k + 1), k + 1 \notin s
        PROVE  g[s] = Folded(F, base, s, g)
    <3>1. s \in SUBSET (1 .. k)
      <4>1. \A i \in s : i \in 1 .. k + 1 /\ i # k + 1
        BY <2>5
      <4> QED
        BY <4>1
    <3>3. s \ {Max(s)} \in SUBSET (1 .. k)
      BY <3>1
    <3>2. g[s] = h[s] /\ g[s \ {Max(s)}] = h[s \ {Max(s)}]
      BY <2>2, <2>5, <3>1, <3>3
    <3> QED
      BY <2>1, <3>1, <3>2 DEF Folded
  <2> QED
    BY <2>3, <2>4, <2>5
<1> HIDE DEF Q
<1>3. Q(n)
  <2>0. 0 \in Nat /\ \A k \in Nat : k + 1 \in Nat
    OBVIOUS
  <2>1. 0 \in S /\ \A k \in Nat : k \in S => k + 1 \in S
    <3>1. 0 \in S
      BY <1>1, <2>0, Zenon
    <3>2. ASSUME NEW k \in Nat, k \in S PROVE k + 1 \in S
      <4>1. Q(k)
        BY <3>2
      <4>2. Q(k + 1)
        BY <1>2, <4>1
      <4> QED
        BY <2>0, <4>2, Zenon
    <3> QED
      BY <3>1, <3>2
  <2>2. n \in S => Q(n)
    OBVIOUS
  <2> HIDE DEF S
  <2> QED
    BY <2>1, <2>2, SetInduction
<1>4. n <= n
  OBVIOUS
<1> QED
  BY <1>3, <1>4 DEF Q

\* The sets of indices a fold over 1 .. n goes through on its way from the first.
LEMMA IndexSets ==
    ASSUME NEW n \in Nat
    PROVE  /\ 1 .. 0 = {}
           /\ \A k \in 1 .. n : /\ 1 .. k # {} /\ 1 .. k \in SUBSET (1 .. n) /\ Max(1 .. k) = k
                                /\ (1 .. k) \ {k} = 1 .. k - 1
           /\ \A s \in SUBSET (1 .. n) :
                 s # {} => Max(s) \in 1 .. n /\ s \ {Max(s)} \in SUBSET (1 .. n)
<1>1. ASSUME NEW k \in 1 .. n
      PROVE  /\ k \in Nat /\ (1 .. k) \ {k} = 1 .. k - 1 /\ k \in 1 .. k
             /\ 1 .. k \in SUBSET (1 .. n) /\ 1 .. k \in SUBSET (1 .. k)
  OBVIOUS
<1>2. \A k \in 1 .. n : Max(1 .. k) = k /\ 1 .. k # {}
  BY <1>1, MaxIndex
<1>3. \A s \in SUBSET (1 .. n) : s # {} => Max(s) \in 1 .. n /\ s \ {Max(s)} \in SUBSET (1 .. n)
  BY MaxIndex
<1>4. 1 .. 0 = {}
  OBVIOUS
<1> QED
  BY <1>1, <1>2, <1>3, <1>4

\* The powers of two, which the library knows as the sizes of the powersets.
LEMMA PowersOfTwo == \A n \in Nat : 2^n \in Nat /\ 2^n > 0 /\ 2^(n + 1) = 2^n + 2^n
<1>1. ASSUME NEW n \in Nat PROVE 2^n \in Nat /\ 2^n > 0
  <2>1. IsFiniteSet(1..n) /\ Cardinality(1..n) = n
    BY FS_Interval
  <2>2. IsFiniteSet(SUBSET (1..n)) /\ Cardinality(SUBSET (1..n)) = 2^n
    BY <2>1, FS_SUBSET
  <2>3. Cardinality(SUBSET (1..n)) \in Nat
    BY <2>2, FS_CardinalityType
  <2>4. Cardinality(SUBSET (1..n)) # 0
    BY <2>2, FS_EmptySet
  <2> QED
    BY <2>2, <2>3, <2>4
<1>2. ASSUME NEW n \in Nat PROVE 2^(n + 1) = 2^n + 2^n
  <2> DEFINE Old == SUBSET (1..n)
             New == {s \in SUBSET (1..n + 1) : n + 1 \in s}
             f == [s \in Old |-> s \cup {n + 1}]
  <2>1. /\ IsFiniteSet(1..n) /\ Cardinality(1..n) = n
        /\ IsFiniteSet(1..n + 1) /\ Cardinality(1..n + 1) = n + 1
    BY FS_Interval
  <2>2. /\ IsFiniteSet(Old) /\ Cardinality(Old) = 2^n
        /\ IsFiniteSet(SUBSET (1..n + 1)) /\ Cardinality(SUBSET (1..n + 1)) = 2^(n + 1)
    BY <2>1, FS_SUBSET
  <2>3. f \in Bijection(Old, New)
    <3>1. \A s \in Old : f[s] = s \cup {n + 1} /\ n + 1 \notin s /\ f[s] \in New
      OBVIOUS
    <3>2. \A s, t \in Old : f[s] = f[t] => s = t
      <4>1. ASSUME NEW s \in Old, NEW t \in Old, s \cup {n + 1} = t \cup {n + 1} PROVE s = t
        <5>1. n + 1 \notin s /\ n + 1 \notin t
          BY <3>1
        <5> QED
          BY <4>1, <5>1
      <4> QED
        BY <3>1, <4>1
    <3>3. ASSUME NEW u \in New PROVE \E s \in Old : f[s] = u
      <4>1. u \ {n + 1} \in Old
        <5>1. \A i \in u : i # n + 1 => i \in 1..n
          OBVIOUS
        <5> QED
          BY <5>1
      <4>2. (u \ {n + 1}) \cup {n + 1} = u
        OBVIOUS
      <4> QED
        BY <3>1, <4>1, <4>2
    <3>4. f \in [Old -> New]
      BY <3>1
    <3> HIDE DEF f, Old, New
    <3> QED
      BY <3>2, <3>3, <3>4 DEF Bijection, Injection, Surjection, IsInjective
  <2>30. ExistsBijection(Old, New)
    BY <2>3 DEF ExistsBijection
  <2>4. IsFiniteSet(New) /\ Cardinality(New) = Cardinality(Old)
    BY <2>2, <2>30, FS_Bijection
  <2>5. Old \cup New = SUBSET (1..n + 1) /\ Old \cap New = {}
    <3>1. ASSUME NEW s \in SUBSET (1..n + 1), n + 1 \notin s PROVE s \in Old
      <4>1. \A i \in s : i \in 1..n
        BY <3>1
      <4> QED
        BY <4>1
    <3>2. \A s \in Old : s \in SUBSET (1..n + 1) /\ n + 1 \notin s
      OBVIOUS
    <3> QED
      BY <3>1, <3>2
  <2> HIDE DEF Old, New
  <2>6. /\ Cardinality(Old) \in Nat
        /\ Cardinality(Old \cup New) = Cardinality(Old) + Cardinality(New) - Cardinality(Old \cap New)
    BY <2>2, <2>4, FS_Union, FS_CardinalityType
  <2>7. Cardinality(Old \cap New) = 0
    BY <2>5, FS_EmptySet
  <2>8. Cardinality(Old \cup New) = Cardinality(Old) + Cardinality(Old)
    BY <2>4, <2>6, <2>7
  <2>9. Cardinality(Old \cup New) = 2^(n + 1)
    BY <2>2, <2>5
  <2> QED
    BY <2>2, <2>8, <2>9
<1> QED
  BY <1>1, <1>2

\* f is defined by recursion over 0 .. n.
IsRecursion(n, V, base, F, f) ==
    /\ f \in [0 .. n -> V]
    /\ f[0] = base
    /\ \A k \in 1 .. n : f[k] = F[<<f[k - 1], k>>]

\* Such a function there is, if its steps stay in V.
LEMMA Recursion ==
    ASSUME NEW n \in Nat, NEW V, NEW base \in V, NEW F, \A v \in V : \A k \in 1 .. n : F[<<v, k>>] \in V
    PROVE  \E f : IsRecursion(n, V, base, F, f)
<1>1. PICK h : IsFold(n, V, base, F, h)
  BY FoldExists
<1> DEFINE f == [k \in 0 .. n |-> h[1 .. k]]
<1>2. h \in [SUBSET (1 .. n) -> V] /\ \A s \in SUBSET (1 .. n) : h[s] = Folded(F, base, s, h)
  BY <1>1 DEF IsFold
<1>3. \A k \in 0 .. n : 1 .. k \in SUBSET (1 .. n)
  OBVIOUS
<1>4. f \in [0 .. n -> V]
  BY <1>2, <1>3
<1>5. f[0] = base
  <2>1. h[{}] = base /\ 1 .. 0 = {}
    BY <1>2, IndexSets DEF Folded
  <2> QED
    BY <2>1
<1>6. ASSUME NEW k \in 1 .. n PROVE f[k] = F[<<f[k - 1], k>>]
  <2>1. f[k] = h[1 .. k] /\ f[k - 1] = h[1 .. k - 1]
    OBVIOUS
  <2>2. 1 .. k # {} /\ 1 .. k \in SUBSET (1 .. n) /\ Max(1 .. k) = k /\ (1 .. k) \ {k} = 1 .. k - 1
    BY IndexSets
  <2>3. h[1 .. k] = F[<<h[1 .. k - 1], k>>]
    BY <1>2, <2>2, Zenon DEF Folded
  <2> QED
    BY <2>1, <2>3
<1> QED
  BY <1>4, <1>5, <1>6 DEF IsRecursion
=============================================================================
