------------------------- MODULE TreeSearch_proofs -------------------------
(***************************************************************************)
(* Proofs about TreeSearch.tla, for any number of searches, depth, width   *)
(* and budget.  The tree of a search that has the engine to itself: its    *)
(* nodes point to older ones, so that walks up and down it end, the nodes  *)
(* it went on to are a chain from the root, and the best path is that      *)
(* chain.                                                                  *)
(***************************************************************************)
EXTENDS TreeSearch, Induction

TreeAssumption ==
    MaxDepth \in Nat \ {0} /\ PerLevel \in Nat \ {0} /\ Branching \in Nat /\ Budget \in Nat

-----------------------------------------------------------------------------
TreeNode == [by : Searches, parent : Nat, kids : SUBSET Nat, visits : Nat, state : {"open", "executed", "pruned"}]

\* A tree of s with ids up to n.
Grown(t, n, s) ==
    /\ n \in Nat /\ DOMAIN t \subseteq 1..n /\ 1 \in DOMAIN t
    /\ t \in [DOMAIN t -> TreeNode]
    /\ t[1].parent = 0
    /\ \A i \in DOMAIN t :
          /\ t[i].by = s
          /\ i # 1 => t[i].parent \in DOMAIN t /\ t[i].parent < i
          /\ t[i].kids = {k \in DOMAIN t : t[k].parent = i}

\* The executed nodes from the root to here.
Chained(t, chain, here) ==
    /\ 1 \in chain /\ here \in chain /\ chain \subseteq DOMAIN t
    /\ \A i \in chain : i <= here /\ (i # 1 => t[i].state = "executed" /\ t[i].parent \in chain)
    /\ \A i, j \in chain : t[i].parent = t[j].parent => i = j

ExecutedIn(t, chain) == \A i \in DOMAIN t : i # 1 /\ t[i].state = "executed" => i \in chain

LEMMA GrownIs ==
    ASSUME NEW t, NEW n, NEW s, Grown(t, n, s)
    PROVE  /\ IsFiniteSet(DOMAIN t) /\ Cardinality(DOMAIN t) \in Nat
           /\ DOMAIN t \subseteq Nat \ {0} /\ n \in Nat
           /\ \A i \in DOMAIN t : t[i].parent \in DOMAIN t \/ (t[i].parent = 0 /\ i = 1)
           /\ \A i \in DOMAIN t : t[i].parent \in Nat /\ t[i].parent < i
           /\ 0 \notin DOMAIN t
<1>1. IsFiniteSet(DOMAIN t)
  <2>1. IsFiniteSet(1..n)
    BY FS_Interval DEF Grown
  <2> QED
    BY <2>1, FS_Subset DEF Grown
<1>3. \A i \in DOMAIN t : t[i].parent \in DOMAIN t \/ (t[i].parent = 0 /\ i = 1)
  BY DEF Grown
<1>4. DOMAIN t \subseteq Nat \ {0} /\ n \in Nat
  BY DEF Grown
<1>5. \A i \in DOMAIN t : t[i].parent \in Nat /\ t[i].parent < i
  BY <1>3, <1>4 DEF Grown
<1> QED
  BY <1>1, <1>3, <1>4, <1>5, FS_CardinalityType

\* The ids below or above another, one step further on.
LEMMA StepsBelow ==
    ASSUME NEW ids \in SUBSET Nat, IsFiniteSet(ids), NEW i \in ids, NEW k \in Nat, NEW n \in Nat,
           i < k, Cardinality({j \in ids : j < i}) >= n
    PROVE  Cardinality({j \in ids : j < k}) >= n + 1
<1> DEFINE low == {j \in ids : j < i}
           high == {j \in ids : j < k}
<1>0. \A j \in ids : j \in Nat
  OBVIOUS
<1>1. /\ low \subseteq ids /\ high \subseteq ids /\ low \cup {i} \subseteq high /\ i \notin low
  <2>1. i \in high /\ i \notin low
    BY <1>0
  <2>2. \A j \in low : j \in high
    BY <1>0
  <2> QED
    BY <2>1, <2>2
<1>4. IsFiniteSet(low) /\ IsFiniteSet(high)
  BY <1>1, FS_Subset
<1> HIDE DEF low, high
<1>2. Cardinality(low \cup {i}) = Cardinality(low) + 1 /\ Cardinality(low \cup {i}) <= Cardinality(high)
  BY <1>1, <1>4, FS_AddElement, FS_Subset
<1>3. Cardinality(low) \in Nat /\ Cardinality(high) \in Nat
  BY <1>4, FS_CardinalityType
<1> QED
  BY <1>2, <1>3 DEF low, high

LEMMA StepsAbove ==
    ASSUME NEW ids \in SUBSET Nat, IsFiniteSet(ids), NEW i \in ids, NEW k \in Nat, NEW n \in Nat,
           k < i, Cardinality({j \in ids : j > i}) >= n
    PROVE  Cardinality({j \in ids : j > k}) >= n + 1
<1> DEFINE high == {j \in ids : j > i}
           low == {j \in ids : j > k}
<1>0. \A j \in ids : j \in Nat
  OBVIOUS
<1>1. low \subseteq ids /\ high \subseteq ids /\ high \cup {i} \subseteq low /\ i \notin high
  <2>1. i \in low /\ i \notin high
    BY <1>0
  <2>2. \A j \in high : j \in low
    BY <1>0
  <2> QED
    BY <2>1, <2>2
<1>4. IsFiniteSet(low) /\ IsFiniteSet(high)
  BY <1>1, FS_Subset
<1> HIDE DEF low, high
<1>2. Cardinality(high \cup {i}) = Cardinality(high) + 1 /\ Cardinality(high \cup {i}) <= Cardinality(low)
  BY <1>1, <1>4, FS_AddElement, FS_Subset
<1>3. Cardinality(low) \in Nat /\ Cardinality(high) \in Nat
  BY <1>4, FS_CardinalityType
<1> QED
  BY <1>2, <1>3 DEF low, high

\* There are fewer ids on one side of an id than there are ids.
LEMMA FewerBeside ==
    ASSUME NEW ids \in SUBSET Nat, IsFiniteSet(ids), NEW i \in ids, NEW beside \in SUBSET ids, i \notin beside
    PROVE  Cardinality(beside) \in Nat /\ Cardinality(beside) < Cardinality(ids)
<1>1. IsFiniteSet(beside) /\ IsFiniteSet(beside \cup {i}) /\ beside \cup {i} \subseteq ids
  BY FS_Subset
<1>2. Cardinality(beside \cup {i}) = Cardinality(beside) + 1 /\ Cardinality(beside \cup {i}) <= Cardinality(ids)
  BY <1>1, FS_AddElement, FS_Subset
<1> QED
  BY <1>1, <1>2, FS_CardinalityType

\* The way up from i.
UpFrom(t, i, u) ==
    /\ u \in [0..Cardinality(DOMAIN t) -> DOMAIN t \cup {0}]
    /\ u[0] = i
    /\ \A n \in 1..Cardinality(DOMAIN t) :
          u[n] = IF u[n - 1] = 0 \/ t[u[n - 1]].parent \notin DOMAIN t THEN 0 ELSE t[u[n - 1]].parent

LEMMA UpwardsIs ==
    ASSUME NEW t, NEW n, NEW s, Grown(t, n, s), NEW i \in DOMAIN t
    PROVE  UpFrom(t, i, Upwards(t, i)) /\ DOMAIN Upwards(t, i) = 0..Cardinality(DOMAIN t)
<1> DEFINE N == Cardinality(DOMAIN t)
           Vals == DOMAIN t \cup {0}
           On(v) == IF v = 0 \/ t[v].parent \notin DOMAIN t THEN 0 ELSE t[v].parent
           F == [p \in Vals \X (1..N) |-> On(p[1])]
<1>1. N \in Nat
  BY GrownIs
<1>2. \A v \in Vals : \A k \in 1..N : F[<<v, k>>] = On(v) /\ On(v) \in Vals
  OBVIOUS
<1> HIDE DEF F, N
<1>3. PICK u : IsRecursion(N, Vals, i, F, u)
  <2>1. i \in Vals /\ \A v \in Vals : \A k \in 1..N : F[<<v, k>>] \in Vals
    BY <1>2
  <2> HIDE DEF Vals
  <2> QED
    BY <1>1, <2>1, Recursion
<1>4. u \in [0..N -> Vals] /\ u[0] = i /\ \A k \in 1..N : u[k] = On(u[k - 1])
  <2>1. u \in [0..N -> Vals] /\ u[0] = i /\ \A k \in 1..N : u[k] = F[<<u[k - 1], k>>]
    BY <1>3 DEF IsRecursion
  <2>2. \A k \in 1..N : u[k - 1] \in Vals
    BY <1>1, <2>1
  <2> QED
    BY <1>2, <2>1, <2>2
<1> DEFINE h == CHOOSE up : up = [k \in 0..N |-> IF k = 0 THEN (IF i \in DOMAIN t THEN i ELSE 0)
                                              ELSE IF up[k - 1] = 0 \/ t[up[k - 1]].parent \notin DOMAIN t THEN 0
                                              ELSE t[up[k - 1]].parent]
<1>5. u = [k \in 0..N |-> IF k = 0 THEN (IF i \in DOMAIN t THEN i ELSE 0)
                          ELSE IF u[k - 1] = 0 \/ t[u[k - 1]].parent \notin DOMAIN t THEN 0 ELSE t[u[k - 1]].parent]
  BY <1>1, <1>4
<1>6. h = [k \in 0..N |-> IF k = 0 THEN (IF i \in DOMAIN t THEN i ELSE 0)
                          ELSE IF h[k - 1] = 0 \/ t[h[k - 1]].parent \notin DOMAIN t THEN 0 ELSE t[h[k - 1]].parent]
  BY <1>5, Zenon
<1>7. Upwards(t, i) = h
  BY Zenon DEF Upwards, h, N
<1> HIDE DEF h
<1>8. h[0] = i /\ \A k \in 1..N : h[k] = On(h[k - 1])
  <2>1. h[0] = i
    <3>1. 0 \in 0..N /\ i \in DOMAIN t
      BY <1>1
    <3> QED
      BY <1>6, <3>1
  <2>2. ASSUME NEW k \in 1..N PROVE h[k] = On(h[k - 1])
    <3>1. k \in 0..N /\ k # 0
      BY <1>1
    <3> QED
      BY <1>6, <3>1, Zenon
  <2> QED
    BY <2>1, <2>2, Zenon
<1>9. \A k \in 0..N : h[k] \in Vals
  <2> DEFINE Sure == {k \in 0..N : h[k] \in Vals}
  <2>1. 0 \in Sure
    BY <1>1, <1>8
  <2>2. \A k \in 1..N : k - 1 \in Sure => k \in Sure
    BY <1>1, <1>2, <1>8
  <2> HIDE DEF Sure
  <2>3. 0..N \subseteq Sure
    BY <1>1, <2>1, <2>2, BoundedInduction
  <2> QED
    BY <2>3 DEF Sure
<1>10. DOMAIN h = 0..N /\ h \in [0..N -> Vals]
  BY <1>6, <1>9
<1> QED
  BY <1>7, <1>8, <1>10 DEF UpFrom, N

\* It falls, and is at an end before it is as long as the tree has nodes.
LEMMA UpEnds ==
    ASSUME NEW t, NEW n, NEW s, Grown(t, n, s), NEW i \in DOMAIN t, NEW u, UpFrom(t, i, u)
    PROVE  /\ u[Cardinality(DOMAIN t)] = 0
           /\ \A k, m \in 0..Cardinality(DOMAIN t) : k <= m /\ u[m] # 0 => u[m] <= u[k] /\ u[k] # 0
<1> DEFINE ids == DOMAIN t
           N == Cardinality(ids)
<1>1. /\ IsFiniteSet(ids) /\ N \in Nat /\ ids \in SUBSET Nat /\ 0 \notin ids
      /\ \A j \in ids : t[j].parent \in Nat /\ t[j].parent < j
  BY GrownIs
<1>2. u \in [0..N -> ids \cup {0}] /\ u[0] = i
  BY DEF UpFrom
<1>3. ASSUME NEW k \in 1..N, u[k] # 0 PROVE u[k - 1] \in ids /\ u[k] \in ids /\ u[k] = t[u[k - 1]].parent /\ u[k] < u[k - 1]
  <2>1. u[k - 1] # 0 /\ u[k] = t[u[k - 1]].parent /\ u[k] \in ids
    BY <1>3 DEF UpFrom
  <2>2. k - 1 \in 0..N
    BY <1>1
  <2>3. u[k - 1] \in ids
    BY <1>2, <2>1, <2>2
  <2> QED
    BY <1>1, <2>1, <2>3
<1>7. \A k \in 0..N : u[k] \in Nat
  BY <1>1, <1>2
<1> HIDE DEF ids, N
<1>4. ASSUME NEW k \in 0..N, u[k] # 0 PROVE u[k] \in ids /\ Cardinality({j \in ids : j > u[k]}) >= k
  <2> DEFINE Sure == {m \in 0..N : u[m] # 0 => u[m] \in ids /\ Cardinality({j \in ids : j > u[m]}) >= m}
  <2>1. 0 \in Sure
    <3>1. i \in ids /\ 0 \in 0..N
      BY <1>1 DEF ids
    <3> DEFINE above == {j \in ids : j > i}
    <3>2. above \subseteq ids
      OBVIOUS
    <3>3. Cardinality(above) \in Nat
      BY <1>1, <3>2, FS_Subset, FS_CardinalityType
    <3>4. Cardinality({j \in ids : j > u[0]}) >= 0
      BY <1>2, <3>3
    <3> QED
      BY <1>2, <3>1, <3>4
  <2>2. ASSUME NEW m \in 1..N, m - 1 \in Sure PROVE m \in Sure
    <3> SUFFICES ASSUME u[m] # 0 PROVE u[m] \in ids /\ Cardinality({j \in ids : j > u[m]}) >= m
      BY <1>1
    <3>1. u[m - 1] \in ids /\ u[m] \in ids /\ u[m] < u[m - 1] /\ u[m - 1] # 0
      BY <1>1, <1>3
    <3>2. Cardinality({j \in ids : j > u[m - 1]}) >= m - 1 /\ m - 1 \in Nat
      BY <2>2, <3>1
    <3>3. u[m] \in Nat
      BY <1>1, <3>1
    <3>4. Cardinality({j \in ids : j > u[m]}) >= (m - 1) + 1
      BY <1>1, <3>1, <3>2, <3>3, StepsAbove
    <3> QED
      BY <3>1, <3>4
  <2> HIDE DEF Sure
  <2>3. 0..N \subseteq Sure
    BY <1>1, <2>1, <2>2, BoundedInduction
  <2> QED
    BY <1>4, <2>3 DEF Sure
<1>5. u[N] = 0
  <2> SUFFICES ASSUME u[N] # 0 PROVE FALSE
    OBVIOUS
  <2>1. N \in 0..N
    BY <1>1
  <2>2. u[N] \in ids /\ Cardinality({j \in ids : j > u[N]}) >= N
    BY <1>4, <2>1
  <2> DEFINE above == {j \in ids : j > u[N]}
  <2>5. u[N] \in Nat
    BY <1>1, <2>2
  <2>3. u[N] \notin above /\ above \subseteq ids
    BY <2>5
  <2>6. Cardinality(above) >= N
    BY <2>2
  <2> HIDE DEF above
  <2>4. Cardinality(above) \in Nat /\ Cardinality(above) < N
    BY <1>1, <2>2, <2>3, FewerBeside DEF N
  <2> QED
    BY <1>1, <2>6, <2>4
<1>6. ASSUME NEW k \in 0..N, NEW m \in 0..N, k <= m, u[m] # 0 PROVE u[m] <= u[k] /\ u[k] # 0
  <2> DEFINE Sure == {0} \cup {q \in 1..N : k <= q /\ u[q] # 0 => u[q] <= u[k] /\ u[k] # 0}
  <2>1. 0 \in Sure
    OBVIOUS
  <2>2. ASSUME NEW q \in 1..N, q - 1 \in Sure PROVE q \in Sure
    <3> SUFFICES ASSUME k <= q, u[q] # 0 PROVE u[q] <= u[k] /\ u[k] # 0
      OBVIOUS
    <3>1. CASE k = q
      <4>1. u[q] \in Nat
        BY <1>1, <1>3
      <4> QED
        BY <3>1, <4>1
    <3>2. CASE k # q
      <4>1. u[q - 1] \in ids /\ u[q] \in ids /\ u[q] < u[q - 1] /\ u[q - 1] # 0 /\ k <= q - 1
        BY <1>1, <1>3, <3>2
      <4>2. u[q - 1] <= u[k] /\ u[k] # 0
        <5>1. CASE q - 1 = 0
          <6>1. k = 0
            BY <4>1, <5>1
          <6>2. u[0] \in Nat /\ u[0] # 0
            BY <1>1, <1>7, <4>1, <5>1
          <6> QED
            BY <5>1, <6>1, <6>2
        <5>2. CASE q - 1 # 0
          BY <2>2, <4>1, <5>2
        <5> QED
          BY <5>1, <5>2
      <4>3. u[k] \in Nat /\ u[q] \in Nat /\ u[q - 1] \in Nat
        BY <1>1, <1>7, <4>1
      <4> QED
        BY <4>1, <4>2, <4>3
    <3> QED
      BY <3>1, <3>2
  <2> HIDE DEF Sure
  <2>3. 0..N \subseteq Sure
    BY <1>1, <2>1, <2>2, BoundedInduction
  <2>4. m \in Sure
    BY <2>3
  <2>5. CASE m = 0
    <3>1. k = 0
      BY <1>6, <2>5
    <3>2. u[0] \in Nat
      BY <1>1, <1>2 DEF ids
    <3> QED
      BY <1>6, <2>5, <3>1, <3>2
  <2>6. CASE m # 0
    BY <1>6, <2>4, <2>6 DEF Sure
  <2> QED
    BY <2>5, <2>6
<1> QED
  BY <1>5, <1>6 DEF N, ids

\* The ancestors of a node, itself among them, are a line up to the root.
LEMMA AncestorsAre ==
    ASSUME NEW t, NEW n, NEW s, Grown(t, n, s), NEW i \in DOMAIN t
    PROVE  /\ i \in Ancestors(t, i) /\ Ancestors(t, i) \subseteq DOMAIN t
           /\ \A a \in Ancestors(t, i) : a # i => \E k \in Ancestors(t, i) : t[k].parent = a
           /\ \A k \in Ancestors(t, i) : k # 1 => t[k].parent \in Ancestors(t, i)
           /\ \A a \in Ancestors(t, i) : a <= i
           /\ \A k, m \in Ancestors(t, i) : t[k].parent = t[m].parent => k = m
<1> DEFINE u == Upwards(t, i)
           N == Cardinality(DOMAIN t)
           line == Ancestors(t, i)
<1>1. UpFrom(t, i, u) /\ DOMAIN u = 0..N
  BY UpwardsIs
<1>2. /\ N \in Nat /\ 0 \notin DOMAIN t /\ DOMAIN t \subseteq Nat
      /\ \A j \in DOMAIN t : t[j].parent \in Nat /\ t[j].parent < j
      /\ \A j \in DOMAIN t : t[j].parent \in DOMAIN t \/ (t[j].parent = 0 /\ j = 1)
  BY GrownIs
<1> HIDE DEF u
<1>3. u[N] = 0 /\ \A k, m \in 0..N : k <= m /\ u[m] # 0 => u[m] <= u[k] /\ u[k] # 0
  BY <1>1, UpEnds
<1>4. line = {u[k] : k \in 0..N} \ {0}
  BY <1>1 DEF Ancestors, u
<1>5. u \in [0..N -> DOMAIN t \cup {0}] /\ u[0] = i
  BY <1>1 DEF UpFrom
<1>6. ASSUME NEW k \in 1..N
      PROVE  u[k] = IF u[k - 1] = 0 \/ t[u[k - 1]].parent \notin DOMAIN t THEN 0 ELSE t[u[k - 1]].parent
  BY <1>1 DEF UpFrom
<1> HIDE DEF line, N
<1>7. i \in line /\ line \subseteq DOMAIN t
  <2>1. 0 \in 0..N /\ i # 0
    BY <1>2
  <2> QED
    BY <1>4, <1>5, <2>1
<1>8. ASSUME NEW a \in line, a # i PROVE \E k \in line : t[k].parent = a
  <2>1. PICK k \in 0..N : a = u[k] /\ a # 0
    BY <1>4
  <2>2. k # 0 /\ k \in 1..N /\ k - 1 \in 0..N
    BY <1>2, <1>5, <1>8, <2>1
  <2>3. u[k - 1] # 0 /\ t[u[k - 1]].parent = a
    BY <1>6, <2>1, <2>2
  <2> QED
    BY <1>4, <2>2, <2>3
<1>9. ASSUME NEW k \in 0..N, u[k] # 0, u[k] # 1 PROVE k + 1 \in 1..N /\ u[k + 1] = t[u[k]].parent /\ u[k + 1] \in DOMAIN t
  <2>1. k # N
    BY <1>3, <1>9
  <2>2. k + 1 \in 1..N /\ (k + 1) - 1 = k
    BY <1>2, <2>1
  <2>3. u[k] \in DOMAIN t
    BY <1>5, <1>9
  <2>4. t[u[k]].parent \in DOMAIN t
    BY <1>2, <1>9, <2>3
  <2>5. u[k + 1] = IF u[k] = 0 \/ t[u[k]].parent \notin DOMAIN t THEN 0 ELSE t[u[k]].parent
    BY <1>6, <2>2
  <2> QED
    BY <1>9, <2>2, <2>4, <2>5
<1>10. ASSUME NEW k \in line, k # 1 PROVE t[k].parent \in line
  <2>1. PICK j \in 0..N : k = u[j] /\ k # 0
    BY <1>4
  <2>2. j + 1 \in 1..N /\ u[j + 1] = t[k].parent /\ u[j + 1] \in DOMAIN t
    BY <1>9, <1>10, <2>1
  <2>3. j + 1 \in 0..N /\ u[j + 1] # 0
    BY <1>2, <2>2
  <2> QED
    BY <1>4, <2>2, <2>3
<1>11. ASSUME NEW a \in line PROVE a <= i
  <2>1. PICK k \in 0..N : a = u[k] /\ a # 0
    BY <1>4
  <2>2. 0 \in 0..N /\ 0 <= k
    BY <1>2
  <2> QED
    BY <1>3, <1>5, <2>1, <2>2
<1>12. ASSUME NEW j \in 0..N, NEW q \in 0..N, u[j] # 0, u[q] # 0, t[u[j]].parent = t[u[q]].parent, j < q
       PROVE  FALSE
  <2>0. u[j] \in DOMAIN t /\ u[q] \in DOMAIN t
    BY <1>5, <1>12
  <2>1. CASE u[j] = 1
    <3>1. t[u[q]].parent = 0 /\ u[q] = 1
      <4>1. t[1].parent = 0
        BY DEF Grown
      <4> QED
        BY <1>2, <1>12, <2>0, <2>1, <4>1
    <3>2. j + 1 \in 1..N /\ j + 1 \in 0..N /\ (j + 1) - 1 = j /\ j + 1 <= q
      BY <1>2, <1>12
    <3>3. u[j + 1] = 0
      BY <1>2, <1>6, <1>12, <2>1, <3>1, <3>2
    <3> QED
      BY <1>3, <1>12, <3>2, <3>3
  <2>2. CASE u[j] # 1
    <3>1. j + 1 \in 1..N /\ u[j + 1] = t[u[q]].parent /\ u[j + 1] \in DOMAIN t
      BY <1>9, <1>12, <2>2
    <3>2. j + 1 \in 0..N /\ j + 1 <= q
      BY <1>2, <1>12, <3>1
    <3>3. u[q] <= u[j + 1]
      BY <1>3, <1>12, <3>2
    <3>4. t[u[q]].parent \in Nat /\ t[u[q]].parent < u[q] /\ u[q] \in Nat
      BY <1>2, <2>0
    <3> QED
      BY <3>1, <3>3, <3>4
  <2> QED
    BY <2>1, <2>2
<1>13. ASSUME NEW k \in line, NEW m \in line, t[k].parent = t[m].parent PROVE k = m
  <2>1. PICK j \in 0..N : k = u[j] /\ k # 0
    BY <1>4
  <2>2. PICK q \in 0..N : m = u[q] /\ m # 0
    BY <1>4
  <2>3. ~(j < q) /\ ~(q < j)
    BY <1>12, <1>13, <2>1, <2>2
  <2>4. j = q
    BY <1>2, <2>3
  <2> QED
    BY <2>1, <2>2, <2>4
<1> QED
  BY <1>7, <1>8, <1>10, <1>11, <1>13 DEF line

\* The way down from the root.
DownFrom(t, d) ==
    /\ d \in [0..Cardinality(DOMAIN t) -> SUBSET DOMAIN t]
    /\ d[0] = {1}
    /\ \A n \in 1..Cardinality(DOMAIN t) :
          d[n] = {k \in (UNION {t[i].kids : i \in d[n - 1]}) \cap DOMAIN t : t[k].state = "executed"}

LEMMA DownwardsIs ==
    ASSUME NEW t, NEW n, NEW s, Grown(t, n, s)
    PROVE  DownFrom(t, Downwards(t, 1)) /\ DOMAIN Downwards(t, 1) = 0..Cardinality(DOMAIN t)
<1> DEFINE N == Cardinality(DOMAIN t)
           Vals == SUBSET DOMAIN t
           On(v) == {k \in (UNION {t[i].kids : i \in v}) \cap DOMAIN t : t[k].state = "executed"}
           F == [p \in Vals \X (1..N) |-> On(p[1])]
<1>1. N \in Nat
  BY GrownIs
<1>2. \A v \in Vals : \A k \in 1..N : F[<<v, k>>] = On(v) /\ On(v) \in Vals
  <2> TAKE v \in Vals
  <2> TAKE k \in 1..N
  <2>1. <<v, k>> \in Vals \X (1..N) /\ <<v, k>>[1] = v
    OBVIOUS
  <2>2. F[<<v, k>>] = On(<<v, k>>[1])
    BY <2>1
  <2>3. F[<<v, k>>] = On(v)
    BY <2>1, <2>2
  <2>4. On(v) \in Vals
    OBVIOUS
  <2> QED
    BY <2>3, <2>4
<1>02. {1} \in Vals /\ {1} \cap DOMAIN t = {1}
  BY DEF Grown
<1> HIDE DEF F, N, On
<1>3. PICK d : IsRecursion(N, Vals, {1}, F, d)
  <2>1. \A v \in Vals : \A k \in 1..N : F[<<v, k>>] \in Vals
    BY <1>2, Zenon
  <2> HIDE DEF Vals
  <2> QED
    BY <1>1, <1>02, <2>1, Recursion
<1>4. d \in [0..N -> Vals] /\ d[0] = {1} /\ \A k \in 1..N : d[k] = On(d[k - 1])
  <2> HIDE DEF Vals
  <2>1. d \in [0..N -> Vals] /\ d[0] = {1} /\ \A k \in 1..N : d[k] = F[<<d[k - 1], k>>]
    BY <1>3 DEF IsRecursion
  <2>2. \A k \in 1..N : d[k - 1] \in Vals
    BY <1>1, <2>1
  <2> QED
    BY <1>2, <2>1, <2>2
<1> DEFINE h == CHOOSE down : down = [k \in 0..N |-> IF k = 0 THEN {1} \cap DOMAIN t
                                                ELSE {q \in (UNION {t[i].kids : i \in down[k - 1]}) \cap DOMAIN t : t[q].state = "executed"}]
<1>5. d = [k \in 0..N |-> IF k = 0 THEN {1} \cap DOMAIN t
                          ELSE {q \in (UNION {t[i].kids : i \in d[k - 1]}) \cap DOMAIN t : t[q].state = "executed"}]
  <2>1. d = [k \in 0..N |-> IF k = 0 THEN {1} \cap DOMAIN t ELSE On(d[k - 1])]
    BY <1>1, <1>02, <1>4
  <2> QED
    BY <2>1 DEF On
<1>6. h = [k \in 0..N |-> IF k = 0 THEN {1} \cap DOMAIN t
                          ELSE {q \in (UNION {t[i].kids : i \in h[k - 1]}) \cap DOMAIN t : t[q].state = "executed"}]
  BY <1>5
<1>7. Downwards(t, 1) = h
  BY Zenon DEF Downwards, h, N
<1> HIDE DEF h
<1>8. h[0] = {1} /\ \A k \in 1..N : h[k] = On(h[k - 1])
  <2>1. h[0] = {1}
    BY <1>1, <1>02, <1>6
  <2>2. ASSUME NEW k \in 1..N PROVE h[k] = On(h[k - 1])
    <3>1. k \in 0..N /\ k # 0
      BY <1>1
    <3> QED
      BY <1>6, <3>1 DEF On
  <2> QED
    BY <2>1, <2>2
<1>9. \A k \in 0..N : h[k] \in Vals
  <2> DEFINE Sure == {k \in 0..N : h[k] \in Vals}
  <2>1. 0 \in Sure
    BY <1>1, <1>02, <1>8
  <2>2. \A k \in 1..N : k - 1 \in Sure => k \in Sure
    <3> TAKE k \in 1..N
    <3> HAVE k - 1 \in Sure
    <3>1. h[k - 1] \in Vals /\ k \in 0..N
      BY <1>1
    <3> HIDE DEF Vals
    <3> QED
      BY <1>2, <1>8, <3>1
  <2> HIDE DEF Sure
  <2>3. 0..N \subseteq Sure
    BY <1>1, <2>1, <2>2, BoundedInduction
  <2> QED
    BY <2>3 DEF Sure
<1>10. DOMAIN h = 0..N /\ h \in [0..N -> Vals]
  <2>1. h = [k \in 0..N |-> h[k]]
    BY <1>6
  <2> HIDE DEF Vals
  <2> QED
    BY <1>9, <2>1
<1>11. ASSUME NEW k \in 1..N
       PROVE  h[k] = {q \in (UNION {t[i].kids : i \in h[k - 1]}) \cap DOMAIN t : t[q].state = "executed"}
  BY <1>8, <1>11 DEF On
<1> QED
  BY <1>7, <1>8, <1>10, <1>11 DEF DownFrom, N

LEMMA DownEnds ==
    ASSUME NEW t, NEW n, NEW s, Grown(t, n, s), NEW d, DownFrom(t, d)
    PROVE  /\ d[Cardinality(DOMAIN t)] = {}
           /\ \A k \in 0..Cardinality(DOMAIN t) : \A i \in d[k] :
                 i \in DOMAIN t /\ Cardinality({j \in DOMAIN t : j < i}) >= k
<1> DEFINE ids == DOMAIN t
           N == Cardinality(ids)
<1>1. /\ IsFiniteSet(ids) /\ N \in Nat /\ ids \in SUBSET Nat /\ 1 \in ids
      /\ \A j \in ids : \A k \in t[j].kids : k \in ids /\ j < k
  <2>1. ASSUME NEW j \in ids, NEW k \in t[j].kids PROVE k \in ids /\ j < k
    <3>1. k \in ids /\ t[k].parent = j
      BY DEF Grown
    <3> QED
      BY <3>1, GrownIs
  <2>2. 1 \in ids
    BY DEF Grown
  <2> QED
    BY <2>1, <2>2, GrownIs
<1>2. d \in [0..N -> SUBSET ids] /\ d[0] = {1}
  BY DEF DownFrom
<1>3. ASSUME NEW k \in 1..N, NEW i \in d[k] PROVE i \in ids /\ \E j \in d[k - 1] : j \in ids /\ j < i
  <2>1. i \in UNION {t[j].kids : j \in d[k - 1]} /\ i \in ids
    BY DEF DownFrom
  <2>2. PICK j \in d[k - 1] : i \in t[j].kids
    BY <2>1
  <2>3. k - 1 \in 0..N
    BY <1>1
  <2>4. j \in ids
    BY <1>2, <2>2, <2>3
  <2> QED
    BY <1>1, <2>1, <2>2, <2>4
<1> HIDE DEF ids, N
<1>4. ASSUME NEW k \in 0..N, NEW i \in d[k] PROVE i \in ids /\ Cardinality({j \in ids : j < i}) >= k
  <2> DEFINE Sure == {m \in 0..N : \A q \in d[m] : q \in ids /\ Cardinality({j \in ids : j < q}) >= m}
  <2>1. 0 \in Sure
    <3> DEFINE below == {j \in ids : j < 1}
    <3>1. below \subseteq ids
      OBVIOUS
    <3>2. Cardinality(below) \in Nat
      BY <1>1, <3>1, FS_Subset, FS_CardinalityType
    <3> HIDE DEF below
    <3>3. Cardinality(below) >= 0
      BY <3>2
    <3>4. \A q \in d[0] : q = 1
      BY <1>2
    <3>5. \A q \in d[0] : q \in ids /\ Cardinality({j \in ids : j < q}) >= 0
      BY <1>1, <3>3, <3>4 DEF below
    <3> QED
      BY <1>1, <3>5
  <2>2. ASSUME NEW m \in 1..N, m - 1 \in Sure PROVE m \in Sure
    <3> SUFFICES ASSUME NEW q \in d[m] PROVE q \in ids /\ Cardinality({j \in ids : j < q}) >= m
      BY <1>1
    <3>1. PICK p \in d[m - 1] : p \in ids /\ p < q
      BY <1>3
    <3>2. q \in ids /\ q \in Nat
      BY <1>1, <1>3
    <3>3. Cardinality({j \in ids : j < p}) >= m - 1 /\ m - 1 \in Nat
      BY <2>2, <3>1
    <3>4. Cardinality({j \in ids : j < q}) >= (m - 1) + 1
      BY <1>1, <3>1, <3>2, <3>3, StepsBelow
    <3> QED
      BY <3>2, <3>4
  <2> HIDE DEF Sure
  <2>3. 0..N \subseteq Sure
    BY <1>1, <2>1, <2>2, BoundedInduction
  <2> QED
    BY <1>4, <2>3 DEF Sure
<1>5. ASSUME NEW i \in d[N] PROVE FALSE
  <2>1. N \in 0..N
    BY <1>1
  <2> DEFINE below == {j \in ids : j < i}
  <2>2. i \in ids /\ Cardinality(below) >= N
    BY <1>4, <2>1
  <2>3. i \notin below /\ below \subseteq ids
    BY <1>1, <2>2
  <2> HIDE DEF below
  <2>4. Cardinality(below) \in Nat /\ Cardinality(below) < N
    BY <1>1, <2>2, <2>3, FewerBeside DEF N
  <2> QED
    BY <1>1, <2>2, <2>4
<1> QED
  BY <1>4, <1>5 DEF N, ids

\* The walks of a search that has the engine to itself end.
LEMMA NoWalkIsEndless ==
    ASSUME NEW t, NEW n, NEW s, Grown(t, n, s)
    PROVE  ~Endless(t, 1) /\ \A i \in DOMAIN t : ~NeverAtRoot(t, i)
<1>2. ~Endless(t, 1)
  <2>1. Downwards(t, 1)[Cardinality(DOMAIN t)] = {}
    BY DownwardsIs, DownEnds
  <2> QED
    BY <2>1 DEF Endless
<1>3. ASSUME NEW i \in DOMAIN t PROVE ~NeverAtRoot(t, i)
  <2>1. Upwards(t, i)[Cardinality(DOMAIN t)] = 0
    BY UpwardsIs, UpEnds
  <2> QED
    BY <2>1 DEF NeverAtRoot
<1> QED
  BY <1>2, <1>3

\* The best path is the chain of what was executed, and has as many nodes.
LEMMA BestPathIsTheChain ==
    ASSUME NEW t, NEW n, NEW s, Grown(t, n, s), NEW chain, NEW here, Chained(t, chain, here), ExecutedIn(t, chain)
    PROVE  BestPath(t, 1) = chain
<1> DEFINE N == Cardinality(DOMAIN t)
           d == Downwards(t, 1)
<1>1. DownFrom(t, d) /\ DOMAIN d = 0..N
  BY DownwardsIs
<1>2. /\ N \in Nat /\ IsFiniteSet(DOMAIN t) /\ DOMAIN t \in SUBSET Nat
      /\ \A j \in DOMAIN t : t[j].parent \in Nat /\ t[j].parent < j
  BY GrownIs
<1>3. BestPath(t, 1) = UNION {d[k] : k \in 0..N}
  BY <1>1 DEF BestPath
<1> HIDE DEF d
<1>4. \A k \in 0..N : \A i \in d[k] : i \in DOMAIN t /\ Cardinality({j \in DOMAIN t : j < i}) >= k
  BY <1>1, DownEnds
<1>5. d \in [0..N -> SUBSET DOMAIN t] /\ d[0] = {1}
  BY <1>1 DEF DownFrom
<1>6. ASSUME NEW k \in 1..N
      PROVE  d[k] = {q \in (UNION {t[i].kids : i \in d[k - 1]}) \cap DOMAIN t : t[q].state = "executed"}
  BY <1>1 DEF DownFrom
<1>7. chain \subseteq DOMAIN t /\ 1 \in chain
  BY DEF Chained
<1> HIDE DEF N
<1>8. \A k \in 0..N : d[k] \subseteq chain
  <2> DEFINE Sure == {k \in 0..N : d[k] \subseteq chain}
  <2>1. 0 \in Sure
    BY <1>2, <1>5, <1>7
  <2>2. ASSUME NEW k \in 1..N, k - 1 \in Sure PROVE k \in Sure
    <3> SUFFICES ASSUME NEW q \in d[k] PROVE q \in chain
      BY <1>2
    <3>1. q \in DOMAIN t /\ t[q].state = "executed"
      BY <1>6
    <3> QED
      BY <1>7, <3>1 DEF ExecutedIn
  <2> HIDE DEF Sure
  <2>3. 0..N \subseteq Sure
    BY <1>2, <2>1, <2>2, BoundedInduction
  <2> QED
    BY <2>3 DEF Sure
<1>9. ASSUME NEW i \in chain PROVE \E k \in 0..N : i \in d[k]
  <2> DEFINE Lost == {j \in chain : \A k \in 0..N : j \notin d[k]}
  <2> SUFFICES ASSUME Lost # {} PROVE FALSE
    OBVIOUS
  <2>1. Lost \in SUBSET Nat
    BY <1>2, <1>7
  <2>2. PICK j \in Lost : \A k \in Lost : j <= k
    BY <2>1, LeastNat
  <2>3. j # 1
    BY <1>2, <1>5
  <2> DEFINE p == t[j].parent
  <2>4. p \in chain /\ t[j].state = "executed" /\ j \in DOMAIN t
    BY <1>7, <2>3 DEF Chained
  <2>5. p \in Nat /\ p < j /\ j \in Nat
    BY <1>2, <2>4
  <2>6. p \notin Lost
    BY <2>2, <2>5
  <2>7. PICK k \in 0..N : p \in d[k]
    BY <2>4, <2>6
  <2>8. Cardinality({q \in DOMAIN t : q < p}) >= k /\ p \in DOMAIN t
    BY <1>4, <2>7
  <2> DEFINE below == {q \in DOMAIN t : q < p}
  <2>9. below \subseteq DOMAIN t /\ p \notin below
    BY <2>5
  <2>10. Cardinality(below) \in Nat /\ Cardinality(below) < N
    <3> HIDE DEF below, p
    <3> QED
      BY <1>2, <2>8, <2>9, FewerBeside DEF N
  <2>11. k + 1 \in 1..N /\ (k + 1) - 1 = k /\ k + 1 \in 0..N
    BY <1>2, <2>8, <2>10
  <2>12. j \in t[p].kids
    BY <2>4, <1>7 DEF Grown
  <2>13. j \in d[k + 1]
    <3>1. d[k + 1] = {q \in (UNION {t[m].kids : m \in d[k]}) \cap DOMAIN t : t[q].state = "executed"}
      BY <1>6, <2>11
    <3>2. j \in UNION {t[m].kids : m \in d[k]}
      BY <2>7, <2>12
    <3> QED
      BY <2>4, <3>1, <3>2
  <2> QED
    BY <2>2, <2>11, <2>13
<1> QED
  BY <1>3, <1>8, <1>9

\* What a best path is of a search that went on to the nodes of a chain.
Traced(nodes, chain, s) ==
    /\ Cardinality(nodes) = Cardinality(chain)
    /\ \A node \in nodes : node.by = s /\ node.parent \in chain \cup {0}

LEMMA ChainIsTraced ==
    ASSUME NEW t, NEW n, NEW s, Grown(t, n, s), NEW chain, NEW here, Chained(t, chain, here)
    PROVE  Traced({t[i] : i \in chain}, chain, s)
<1> DEFINE nodes == {t[i] : i \in chain}
           f == [i \in chain |-> t[i]]
<1>1. IsFiniteSet(chain)
  BY GrownIs, FS_Subset DEF Chained
<1>2. f \in Bijection(chain, nodes)
  <2>1. \A i, j \in chain : t[i] = t[j] => i = j
    BY DEF Chained
  <2>2. f \in [chain -> nodes] /\ \A i, j \in chain : f[i] = f[j] => i = j
    BY <2>1
  <2>3. \A x \in nodes : \E i \in chain : f[i] = x
    OBVIOUS
  <2> QED
    BY <2>2, <2>3 DEF Bijection, Injection, Surjection, IsInjective
<1>3. Cardinality(nodes) = Cardinality(chain)
  <2> HIDE DEF nodes, f
  <2>1. ExistsBijection(chain, nodes)
    BY <1>2 DEF ExistsBijection
  <2> QED
    BY <1>1, <2>1, FS_Bijection
<1>4. \A node \in nodes : node.by = s /\ node.parent \in chain \cup {0}
  <2> SUFFICES ASSUME NEW i \in chain PROVE t[i].by = s /\ t[i].parent \in chain \cup {0}
    OBVIOUS
  <2>1. i \in DOMAIN t
    BY DEF Chained
  <2> QED
    BY <2>1 DEF Grown, Chained
<1> QED
  BY <1>3, <1>4 DEF Traced

\* f sums up the visits of kids, by their ids up to n.
Sums(t, kids, n, f) ==
    /\ f \in [0..n -> Nat] /\ f[0] = 0
    /\ \A k \in 1..n : f[k] = f[k - 1] + (IF k \in kids THEN t[k].visits ELSE 0)

\* Every node of t has the visits of its children.
Summed(t, n) == \A i \in DOMAIN t : \E f : Sums(t, t[i].kids, n, f) /\ t[i].visits >= f[n]

LEMMA SumExists ==
    ASSUME NEW t, NEW kids, NEW n \in Nat, \A k \in kids : t[k].visits \in Nat
    PROVE  \E f : Sums(t, kids, n, f)
<1> DEFINE Adding == [p \in Nat \X (1..n) |-> p[1] + (IF p[2] \in kids THEN t[p[2]].visits ELSE 0)]
<1>1. \A v \in Nat : \A k \in 1..n : /\ Adding[<<v, k>>] = v + (IF k \in kids THEN t[k].visits ELSE 0)
                                     /\ v + (IF k \in kids THEN t[k].visits ELSE 0) \in Nat
  <2> TAKE v \in Nat
  <2> TAKE k \in 1..n
  <2>1. <<v, k>> \in Nat \X (1..n)
    OBVIOUS
  <2>2. (IF k \in kids THEN t[k].visits ELSE 0) \in Nat
    OBVIOUS
  <2> QED
    BY <2>1, <2>2
<1> HIDE DEF Adding
<1>2. PICK f : IsRecursion(n, Nat, 0, Adding, f)
  <2>1. \A v \in Nat : \A k \in 1..n : Adding[<<v, k>>] \in Nat
    BY <1>1, Zenon
  <2> QED
    BY <2>1, Recursion
<1>3. f \in [0..n -> Nat] /\ f[0] = 0 /\ \A k \in 1..n : f[k] = Adding[<<f[k - 1], k>>]
  BY <1>2 DEF IsRecursion
<1>4. ASSUME NEW k \in 1..n PROVE f[k] = f[k - 1] + (IF k \in kids THEN t[k].visits ELSE 0)
  <2>1. k - 1 \in 0..n
    OBVIOUS
  <2>2. f[k - 1] \in Nat
    BY <1>3, <2>1
  <2> QED
    BY <1>1, <1>3, <2>2
<1> QED
  BY <1>3, <1>4 DEF Sums

\* What the engine sums up.
LEMMA VisitsOfIs ==
    ASSUME nodeCounter \in Nat, NEW t, NEW kids, NEW f, Sums(t, kids, nodeCounter, f)
    PROVE  VisitsOf(t, kids) = f[nodeCounter]
<1> DEFINE n == nodeCounter
           h == CHOOSE upTo : upTo = [k \in 0..n |-> IF k = 0 THEN 0
                                                     ELSE upTo[k - 1] + (IF k \in kids THEN t[k].visits ELSE 0)]
<1>1. f \in [0..n -> Nat] /\ f[0] = 0 /\ \A k \in 1..n : f[k] = f[k - 1] + (IF k \in kids THEN t[k].visits ELSE 0)
  BY DEF Sums
<1>2. f = [k \in 0..n |-> IF k = 0 THEN 0 ELSE f[k - 1] + (IF k \in kids THEN t[k].visits ELSE 0)]
  BY <1>1
<1>3. h = [k \in 0..n |-> IF k = 0 THEN 0 ELSE h[k - 1] + (IF k \in kids THEN t[k].visits ELSE 0)]
  BY <1>2
<1>4. VisitsOf(t, kids) = h[n]
  BY Zenon DEF VisitsOf, h, n
<1> HIDE DEF h
<1>5. h[n] = f[n]
  <2> DEFINE Sure == {k \in 0..n : h[k] = f[k]}
  <2>1. 0 \in Sure /\ \A k \in 1..n : k - 1 \in Sure => k \in Sure
    BY <1>1, <1>3
  <2> HIDE DEF Sure
  <2>2. 0..n \subseteq Sure
    BY <2>1, BoundedInduction
  <2>3. n \in 0..n
    OBVIOUS
  <2> QED
    BY <2>2, <2>3 DEF Sure
<1> QED
  BY <1>4, <1>5

\* One more visited child, or one child visited more, adds that much.
LEMMA SumGrows ==
    ASSUME NEW t, NEW kids, NEW n \in Nat, NEW f, Sums(t, kids, n, f),
           NEW u, NEW more, NEW x, NEW b \in Nat, \A k \in kids : t[k].visits \in Nat, \A k \in more : u[k].visits \in Nat,
           \A k \in 1..n : (IF k \in more THEN u[k].visits ELSE 0)
                              <= (IF k \in kids THEN t[k].visits ELSE 0) + (IF k = x THEN b ELSE 0)
    PROVE  \E g : Sums(u, more, n, g) /\ g[n] <= f[n] + b
<1>1. PICK g : Sums(u, more, n, g)
  BY SumExists
<1> DEFINE Old(k) == IF k \in kids THEN t[k].visits ELSE 0
           New(k) == IF k \in more THEN u[k].visits ELSE 0
           Met(k) == x \in 1..k
<1>2. \A k \in 1..n : Old(k) \in Nat /\ New(k) \in Nat /\ New(k) <= Old(k) + (IF k = x THEN b ELSE 0)
  OBVIOUS
<1>3. /\ f \in [0..n -> Nat] /\ f[0] = 0 /\ g \in [0..n -> Nat] /\ g[0] = 0
      /\ \A k \in 1..n : f[k] = f[k - 1] + Old(k) /\ g[k] = g[k - 1] + New(k)
  BY <1>1 DEF Sums
<1> HIDE DEF Old, New
<1> DEFINE Sure == {k \in 0..n : g[k] <= f[k] + (IF Met(k) THEN b ELSE 0)}
<1>4. 0 \in Sure
  BY <1>3
<1>5. ASSUME NEW k \in 1..n, k - 1 \in Sure PROVE k \in Sure
  <2>1. k \in 0..n /\ k - 1 \in 0..n
    OBVIOUS
  <2>2. g[k - 1] \in Nat /\ f[k - 1] \in Nat /\ g[k] \in Nat /\ f[k] \in Nat
    BY <1>3, <2>1
  <2>3. g[k] = g[k - 1] + New(k) /\ f[k] = f[k - 1] + Old(k) /\ Old(k) \in Nat /\ New(k) \in Nat
    BY <1>2, <1>3
  <2>4. g[k - 1] <= f[k - 1] + (IF Met(k - 1) THEN b ELSE 0)
    BY <1>5
  <2>5. CASE k = x
    <3>1. ~Met(k - 1) /\ Met(k)
      BY <2>5
    <3>2. New(k) <= Old(k) + b
      BY <1>2, <2>5
    <3> QED
      BY <2>1, <2>2, <2>3, <2>4, <3>1, <3>2
  <2>6. CASE k # x
    <3>1. Met(k - 1) <=> Met(k)
      BY <2>6
    <3>2. New(k) <= Old(k)
      BY <1>2, <2>6
    <3>3. CASE Met(k)
      BY <2>1, <2>2, <2>3, <2>4, <3>1, <3>2, <3>3
    <3>4. CASE ~Met(k)
      BY <2>1, <2>2, <2>3, <2>4, <3>1, <3>2, <3>4
    <3> QED
      BY <3>3, <3>4
  <2> QED
    BY <2>5, <2>6
<1> HIDE DEF Sure
<1>6. 0..n \subseteq Sure
  BY <1>4, <1>5, BoundedInduction
<1>7. n \in Sure /\ n \in 0..n
  BY <1>6
<1>8. g[n] <= f[n] + (IF Met(n) THEN b ELSE 0) /\ f[n] \in Nat /\ g[n] \in Nat
  BY <1>3, <1>7 DEF Sure
<1>9. g[n] <= f[n] + b
  <2> HIDE DEF Met
  <2> QED
    BY <1>8
<1> QED
  BY <1>1, <1>9

\* The ids given out since add nothing.
LEMMA SumExtends ==
    ASSUME NEW t, NEW kids, NEW n \in Nat, NEW m \in Nat, n <= m, kids \subseteq 1..n, NEW f, Sums(t, kids, n, f)
    PROVE  \E g : Sums(t, kids, m, g) /\ g[m] = f[n]
<1> DEFINE g == [k \in 0..m |-> IF k <= n THEN f[k] ELSE f[n]]
<1>1. f \in [0..n -> Nat] /\ f[0] = 0 /\ \A k \in 1..n : f[k] = f[k - 1] + (IF k \in kids THEN t[k].visits ELSE 0)
  BY DEF Sums
<1>2. f[n] \in Nat
  BY <1>1
<1>3. g \in [0..m -> Nat] /\ g[0] = 0
  BY <1>1, <1>2
<1>4. ASSUME NEW k \in 1..m PROVE g[k] = g[k - 1] + (IF k \in kids THEN t[k].visits ELSE 0)
  <2>1. CASE k <= n
    <3>1. g[k] = f[k] /\ g[k - 1] = f[k - 1] /\ k \in 1..n
      BY <2>1
    <3> QED
      BY <1>1, <3>1
  <2>2. CASE ~(k <= n)
    <3>1. k \notin kids
      BY <2>2
    <3>2. g[k] = f[n] /\ g[k - 1] = f[n]
      BY <2>2
    <3> QED
      BY <1>2, <3>1, <3>2
  <2> QED
    BY <2>1, <2>2
<1>5. g[m] = f[n]
  OBVIOUS
<1> HIDE DEF g
<1>6. Sums(t, kids, m, g)
  BY <1>3, <1>4 DEF Sums
<1> QED
  BY <1>5, <1>6

LEMMA SummedExtends ==
    ASSUME NEW t, NEW n, NEW s, Grown(t, n, s), Summed(t, n), NEW m \in Nat, n <= m
    PROVE  Grown(t, m, s) /\ Summed(t, m)
<1>1. n \in Nat /\ DOMAIN t \subseteq 1..n /\ 1..n \subseteq 1..m
  BY DEF Grown
<1>2. Grown(t, m, s)
  BY <1>1 DEF Grown
<1>3. ASSUME NEW i \in DOMAIN t PROVE \E g : Sums(t, t[i].kids, m, g) /\ t[i].visits >= g[m]
  <2>1. PICK f : Sums(t, t[i].kids, n, f) /\ t[i].visits >= f[n]
    BY DEF Summed
  <2>2. t[i].kids \subseteq 1..n
    BY <1>1 DEF Grown
  <2>3. PICK g : Sums(t, t[i].kids, m, g) /\ g[m] = f[n]
    BY <1>1, <2>1, <2>2, SumExtends
  <2> QED
    BY <2>1, <2>3
<1> QED
  BY <1>2, <1>3 DEF Summed

LEMMA VisitsAreSummed ==
    ASSUME NEW t, NEW s, Grown(t, nodeCounter, s), Summed(t, nodeCounter)
    PROVE  \A i \in DOMAIN t : t[i].visits >= VisitsOf(t, t[i].kids)
<1> SUFFICES ASSUME NEW i \in DOMAIN t PROVE t[i].visits >= VisitsOf(t, t[i].kids)
  OBVIOUS
<1>1. PICK f : Sums(t, t[i].kids, nodeCounter, f) /\ t[i].visits >= f[nodeCounter]
  BY DEF Summed
<1>2. nodeCounter \in Nat
  BY DEF Grown
<1>3. VisitsOf(t, t[i].kids) = f[nodeCounter]
  BY <1>1, <1>2, VisitsOfIs
<1> QED
  BY <1>1, <1>3

\* A node executed under the last of a chain is the next of the chain.
LEMMA ChainGrows ==
    ASSUME NEW t, NEW n, NEW s, Grown(t, n, s), NEW chain, NEW here, Chained(t, chain, here),
           NEW i \in DOMAIN t, i \notin chain, t[i].parent = here, t[i].state = "executed"
    PROVE  Chained(t, chain \cup {i}, i)
<1>1. /\ DOMAIN t \subseteq Nat \ {0} /\ \A j \in DOMAIN t : t[j].parent \in Nat /\ t[j].parent < j
  BY GrownIs
<1>2. /\ 1 \in chain /\ here \in chain /\ chain \subseteq DOMAIN t
      /\ \A j \in chain : j <= here /\ (j # 1 => t[j].state = "executed" /\ t[j].parent \in chain)
      /\ \A j, k \in chain : t[j].parent = t[k].parent => j = k
  BY DEF Chained
<1>3. here \in Nat /\ i \in Nat /\ here < i
  BY <1>1, <1>2
<1>4. \A j \in chain : j <= i /\ t[j].parent # here
  <2> SUFFICES ASSUME NEW j \in chain PROVE j <= i /\ t[j].parent # here
    OBVIOUS
  <2>1. j <= here /\ j \in Nat /\ t[j].parent < j /\ t[j].parent \in Nat
    BY <1>1, <1>2
  <2> QED
    BY <1>3, <2>1
<1>5. \A j \in chain \cup {i} : j <= i /\ (j # 1 => t[j].state = "executed" /\ t[j].parent \in chain \cup {i})
  BY <1>2, <1>3, <1>4
<1>6. \A j, k \in chain \cup {i} : t[j].parent = t[k].parent => j = k
  BY <1>2, <1>4
<1> QED
  BY <1>2, <1>5, <1>6 DEF Chained

\* What a search is, alone with the engine, of the nodes it went on to.
AloneAt(s, where, t, n, chain) ==
    /\ Grown(t, n, s) /\ Summed(t, n)
    /\ Chained(t, chain, where.here)
    /\ where.at \in {"expand", "simulate"} => ExecutedIn(t, chain)
    /\ where.at = "simulate" => \A c \in where.candidates : c \in 1..n /\ c \notin DOMAIN t /\ where.here < c
    /\ where.at \in {"execute", "reflect"} =>
          \E c \in DOMAIN t : /\ where.candidates = {c} /\ c \notin chain /\ t[c].parent = where.here
                              /\ ExecutedIn(t, chain \cup {c})

\* What becomes of a tree when the search puts node i into it, or marks it.
Placed(s, where, n, chain, i, to, t) ==
    /\ Grown(t, n, s) /\ Summed(t, n) /\ Chained(t, chain, where.here)
    /\ i \in DOMAIN t /\ i \notin chain /\ t[i].parent = where.here
    /\ to = "executed" => Chained(t, chain \cup {i}, i)
    /\ ExecutedIn(t, chain \cup {i}) /\ (to # "executed" => ExecutedIn(t, chain))

\* What the simulations of a plan make of the tree.
LEMMA PutIs ==
    ASSUME TreeAssumption, NEW s \in Searches, NEW n, NEW chain, AloneAt(s, search[s], tree, n, chain), search[s].at = "simulate",
           NEW i \in search[s].candidates, NEW sims \in Nat, NEW visits \in 1..sims, NEW to \in {"open", "executed", "pruned"},
           NEW t, t = Registered(Backpropagated(tree, search[s].here, sims), s, i, visits, to)
    PROVE  Placed(s, search[s], n, chain, i, to, t)
<1> DEFINE here == search[s].here
           line == Ancestors(tree, here)
<1>1. /\ Grown(tree, n, s) /\ Summed(tree, n) /\ Chained(tree, chain, here) /\ ExecutedIn(tree, chain)
      /\ i \in 1..n /\ i \notin DOMAIN tree /\ here < i
  BY DEF AloneAt
<1>2. here \in chain /\ chain \subseteq DOMAIN tree /\ here \in DOMAIN tree
  BY <1>1 DEF Chained
<1>3. /\ DOMAIN tree \subseteq Nat \ {0} /\ n \in Nat /\ 1 \in DOMAIN tree /\ DOMAIN tree \subseteq 1..n
      /\ \A j \in DOMAIN tree : tree[j] \in TreeNode /\ tree[j].by = s
      /\ \A j \in DOMAIN tree : j # 1 => tree[j].parent \in DOMAIN tree /\ tree[j].parent < j
      /\ tree[1].parent = 0
      /\ \A j \in DOMAIN tree : tree[j].kids = {k \in DOMAIN tree : tree[k].parent = j}
      /\ \A j \in DOMAIN tree : tree[j].parent # i
  <2>1. \A j \in DOMAIN tree : tree[j].parent \in DOMAIN tree \/ tree[j].parent = 0
    BY <1>1, GrownIs
  <2>2. i # 0
    BY <1>1
  <2>3. DOMAIN tree \subseteq Nat \ {0} /\ n \in Nat
    BY <1>1, GrownIs
  <2>4. /\ 1 \in DOMAIN tree /\ DOMAIN tree \subseteq 1..n
        /\ \A j \in DOMAIN tree : tree[j] \in TreeNode /\ tree[j].by = s
        /\ \A j \in DOMAIN tree : j # 1 => tree[j].parent \in DOMAIN tree /\ tree[j].parent < j
        /\ tree[1].parent = 0
        /\ \A j \in DOMAIN tree : tree[j].kids = {k \in DOMAIN tree : tree[k].parent = j}
    BY <1>1 DEF Grown
  <2> QED
    BY <1>1, <2>1, <2>2, <2>3, <2>4
<1>4. /\ here \in line /\ line \subseteq DOMAIN tree
      /\ \A a \in line : a # here => \E k \in line : tree[k].parent = a
      /\ \A k \in line : k # 1 => tree[k].parent \in line
      /\ \A k, m \in line : tree[k].parent = tree[m].parent => k = m
      /\ \A a \in line : a <= here
  BY <1>1, <1>2, AncestorsAre
<1>5. sims \in Nat /\ visits \in Nat /\ visits <= sims
  OBVIOUS
\* The new tree, field by field.
<1> DEFINE paid == Backpropagated(tree, here, sims)
<1>6. /\ DOMAIN paid = DOMAIN tree
      /\ \A j \in DOMAIN tree : paid[j] = IF j \in line THEN [tree[j] EXCEPT !.visits = tree[j].visits + sims] ELSE tree[j]
  BY Zenon DEF Backpropagated
<1> HIDE DEF line
<1>7. \A j \in DOMAIN tree :
         /\ paid[j] \in TreeNode /\ paid[j].by = s /\ paid[j].parent = tree[j].parent /\ paid[j].state = tree[j].state
         /\ paid[j].kids = tree[j].kids /\ paid[j].visits = tree[j].visits + (IF j \in line THEN sims ELSE 0)
  <2> SUFFICES ASSUME NEW j \in DOMAIN tree
               PROVE  /\ paid[j] \in TreeNode /\ paid[j].by = s /\ paid[j].parent = tree[j].parent
                      /\ paid[j].state = tree[j].state /\ paid[j].kids = tree[j].kids
                      /\ paid[j].visits = tree[j].visits + (IF j \in line THEN sims ELSE 0)
    OBVIOUS
  <2>1. tree[j] \in TreeNode /\ tree[j].by = s /\ tree[j].visits \in Nat
    BY <1>3 DEF TreeNode
  <2>2. tree[j].visits + sims \in Nat /\ tree[j].visits + 0 = tree[j].visits
    BY <1>5, <2>1
  <2> HIDE DEF paid
  <2>3. CASE j \in line
    <3>1. paid[j] = [tree[j] EXCEPT !.visits = tree[j].visits + sims]
      BY <1>6, <2>3
    <3>2. paid[j] \in TreeNode
      BY <2>1, <2>2, <3>1 DEF TreeNode
    <3>3. /\ paid[j].by = tree[j].by /\ paid[j].parent = tree[j].parent /\ paid[j].state = tree[j].state
          /\ paid[j].kids = tree[j].kids /\ paid[j].visits = tree[j].visits + sims
      BY <2>1, <3>1 DEF TreeNode
    <3> QED
      BY <2>1, <2>3, <3>2, <3>3
  <2>4. CASE j \notin line
    BY <1>6, <2>1, <2>2, <2>4
  <2> QED
    BY <2>3, <2>4
<1> HIDE DEF paid
<1>8. /\ DOMAIN t = DOMAIN tree \cup {i}
      /\ t[i] = Node(s, here, visits, to)
      /\ \A j \in DOMAIN tree : t[j] = IF j = here THEN [paid[j] EXCEPT !.kids = paid[j].kids \cup {i}] ELSE paid[j]
  <2>1. t = [j \in DOMAIN paid \cup {i} |->
                IF j = here THEN [(IF j = i THEN Node(s, here, visits, to) ELSE paid[j])
                                     EXCEPT !.kids = (IF j = i THEN Node(s, here, visits, to) ELSE paid[j]).kids \cup {i}]
                ELSE IF j = i THEN Node(s, here, visits, to) ELSE paid[j]]
    BY DEF Registered, paid
  <2>2. here # i
    BY <1>1, <1>2
  <2>3. \A j \in DOMAIN tree : j # i
    BY <1>1
  <2> QED
    BY <1>6, <2>1, <2>2, <2>3 DEF paid
<1>9. /\ t[i] \in TreeNode /\ t[i].by = s /\ t[i].parent = here /\ t[i].state = to /\ t[i].kids = {} /\ t[i].visits = visits
  <2>1. here \in Nat
    BY <1>2, <1>3
  <2> QED
    BY <1>5, <1>8, <2>1 DEF Node, TreeNode
<1>10. \A j \in DOMAIN tree :
         /\ t[j] \in TreeNode /\ t[j].by = s /\ t[j].parent = tree[j].parent /\ t[j].state = tree[j].state
         /\ t[j].kids = tree[j].kids \cup (IF j = here THEN {i} ELSE {})
         /\ t[j].visits = tree[j].visits + (IF j \in line THEN sims ELSE 0)
  <2> SUFFICES ASSUME NEW j \in DOMAIN tree
               PROVE  /\ t[j] \in TreeNode /\ t[j].by = s /\ t[j].parent = tree[j].parent /\ t[j].state = tree[j].state
                      /\ t[j].kids = tree[j].kids \cup (IF j = here THEN {i} ELSE {})
                      /\ t[j].visits = tree[j].visits + (IF j \in line THEN sims ELSE 0)
    OBVIOUS
  <2>1. /\ paid[j] \in TreeNode /\ paid[j].by = s /\ paid[j].parent = tree[j].parent /\ paid[j].state = tree[j].state
        /\ paid[j].kids = tree[j].kids /\ paid[j].visits = tree[j].visits + (IF j \in line THEN sims ELSE 0)
    BY <1>7
  <2>2. CASE j = here
    <3>1. t[j] = [paid[j] EXCEPT !.kids = paid[j].kids \cup {i}]
      BY <1>8, <2>2
    <3>2. paid[j].kids \cup {i} \in SUBSET Nat
      BY <1>1, <2>1 DEF TreeNode
    <3>3. t[j] \in TreeNode
      BY <2>1, <3>1, <3>2 DEF TreeNode
    <3>4. /\ t[j].by = paid[j].by /\ t[j].parent = paid[j].parent /\ t[j].state = paid[j].state
          /\ t[j].kids = paid[j].kids \cup {i} /\ t[j].visits = paid[j].visits
      BY <2>1, <3>1 DEF TreeNode
    <3> QED
      BY <2>1, <2>2, <3>3, <3>4
  <2>3. CASE j # here
    BY <1>8, <2>1, <2>3
  <2> QED
    BY <2>2, <2>3
<1>11. Grown(t, n, s)
  <2>1. n \in Nat /\ DOMAIN t \subseteq 1..n /\ 1 \in DOMAIN t /\ t[1].parent = 0
    BY <1>1, <1>3, <1>8, <1>10
  <2>2. t \in [DOMAIN t -> TreeNode]
    <3>1. t = [j \in DOMAIN t |-> t[j]]
      BY DEF Registered
    <3>2. \A j \in DOMAIN t : t[j] \in TreeNode
      BY <1>8, <1>9, <1>10
    <3> QED
      BY <3>1, <3>2
  <2>3. ASSUME NEW j \in DOMAIN t
        PROVE  /\ t[j].by = s
               /\ j # 1 => t[j].parent \in DOMAIN t /\ t[j].parent < j
    <3>1. CASE j = i
      BY <1>1, <1>2, <1>8, <1>9, <3>1
    <3>2. CASE j \in DOMAIN tree
      BY <1>3, <1>8, <1>10, <3>2
    <3> QED
      BY <1>8, <3>1, <3>2
  <2>4. ASSUME NEW j \in DOMAIN t PROVE t[j].kids = {k \in DOMAIN t : t[k].parent = j}
    <3>1. CASE j = i
      <4>1. \A k \in DOMAIN t : t[k].parent # i
        BY <1>1, <1>2, <1>3, <1>8, <1>9, <1>10
      <4> QED
        BY <1>9, <3>1, <4>1
    <3>2. CASE j \in DOMAIN tree
      <4>1. \A k \in DOMAIN t : t[k].parent = j <=> (k \in DOMAIN tree /\ tree[k].parent = j) \/ (k = i /\ j = here)
        <5> TAKE k \in DOMAIN t
        <5>1. CASE k = i
          BY <1>1, <1>9, <5>1
        <5>2. CASE k # i
          <6>1. k \in DOMAIN tree
            BY <1>8, <5>2
          <6> QED
            BY <1>10, <5>2, <6>1
        <5> QED
          BY <5>1, <5>2
      <4>2. t[j].kids = tree[j].kids \cup (IF j = here THEN {i} ELSE {})
        BY <1>10, <3>2
      <4>3. tree[j].kids = {k \in DOMAIN tree : tree[k].parent = j}
        BY <1>3, <3>2
      <4> QED
        BY <1>8, <4>1, <4>2, <4>3
    <3> QED
      BY <1>8, <3>1, <3>2
  <2> QED
    BY <2>1, <2>2, <2>3, <2>4 DEF Grown
<1>12. Chained(t, chain, here)
  <2>1. /\ 1 \in chain /\ \A j \in chain : j <= here /\ (j # 1 => tree[j].state = "executed" /\ tree[j].parent \in chain)
        /\ \A j, k \in chain : tree[j].parent = tree[k].parent => j = k
    BY <1>1 DEF Chained
  <2>2. \A j \in chain : t[j].state = tree[j].state /\ t[j].parent = tree[j].parent
    BY <1>2, <1>10
  <2>3. chain \subseteq DOMAIN t
    BY <1>2, <1>8
  <2>4. \A j \in chain : j <= here /\ (j # 1 => t[j].state = "executed" /\ t[j].parent \in chain)
    BY <2>1, <2>2
  <2>5. \A j, k \in chain : t[j].parent = t[k].parent => j = k
    BY <2>1, <2>2
  <2> QED
    BY <1>2, <2>1, <2>3, <2>4, <2>5 DEF Chained
<1>13. i \in DOMAIN t /\ i \notin chain
  BY <1>1, <1>2, <1>8
<1>14. to = "executed" => Chained(t, chain \cup {i}, i)
  BY <1>9, <1>11, <1>12, <1>13, ChainGrows
<1>15. ExecutedIn(t, chain \cup {i}) /\ (to # "executed" => ExecutedIn(t, chain))
  <2>1. \A j \in DOMAIN tree : j # 1 /\ t[j].state = "executed" => j \in chain
    BY <1>1, <1>10 DEF ExecutedIn
  <2> QED
    BY <1>8, <1>9, <2>1 DEF ExecutedIn
<1>16. Summed(t, n)
  <2> SUFFICES ASSUME NEW a \in DOMAIN t PROVE \E g : Sums(t, t[a].kids, n, g) /\ t[a].visits >= g[n]
    BY DEF Summed
  <2>0. \A k \in DOMAIN t : t[k].visits \in Nat /\ t[k].kids \subseteq DOMAIN t
    BY <1>11 DEF Grown, TreeNode
  <2>01. \A k \in DOMAIN tree : tree[k].visits \in Nat /\ tree[k].kids \subseteq DOMAIN tree
    BY <1>3 DEF TreeNode
  <2>1. CASE a = i
    <3>1. PICK g : Sums(t, {}, n, g)
      BY <1>3, SumExists
    <3> DEFINE Sure == {k \in 0..n : g[k] = 0}
    <3>2. 0 \in Sure /\ \A k \in 1..n : k - 1 \in Sure => k \in Sure
      BY <1>3, <3>1 DEF Sums
    <3> HIDE DEF Sure
    <3>3. 0..n \subseteq Sure
      BY <1>3, <3>2, BoundedInduction
    <3>4. g[n] = 0
      BY <1>3, <3>3 DEF Sure
    <3> QED
      BY <1>5, <1>9, <2>1, <3>1, <3>4
  <2>2. CASE a \in DOMAIN tree
    <3>1. PICK f : Sums(tree, tree[a].kids, n, f) /\ tree[a].visits >= f[n]
      BY <1>1, <2>2 DEF Summed
    <3>2. f[n] \in Nat /\ tree[a].visits \in Nat
      BY <1>3, <2>01, <2>2, <3>1 DEF Sums
    <3>3. t[a].visits = tree[a].visits + (IF a \in line THEN sims ELSE 0)
      BY <1>10, <2>2
    <3> DEFINE grows == IF a \in line THEN sims ELSE 0
    <3>4. \E x : \A k \in 1..n : (IF k \in t[a].kids THEN t[k].visits ELSE 0)
                                    <= (IF k \in tree[a].kids THEN tree[k].visits ELSE 0) + (IF k = x THEN grows ELSE 0)
      <4>1. \A k \in tree[a].kids : k \in DOMAIN tree /\ tree[k].parent = a
        BY <1>3, <2>2
      <4>2. CASE a = here
        <5>1. \A k \in tree[a].kids : k \notin line
          <6> SUFFICES ASSUME NEW k \in tree[a].kids, k \in line PROVE FALSE
            OBVIOUS
          <6>1. k <= here /\ tree[k].parent = here /\ k \in DOMAIN tree
            BY <1>4, <4>1, <4>2
          <6>2. here < k
            BY <1>2, <1>3, <6>1
          <6> QED
            BY <1>2, <1>3, <6>1, <6>2
        <5>2. t[a].kids = tree[a].kids \cup {i} /\ i \notin tree[a].kids /\ grows = sims
          BY <1>1, <1>4, <1>10, <2>2, <4>1, <4>2
        <5>3. \A k \in tree[a].kids : t[k].visits = tree[k].visits /\ tree[k].visits \in Nat
          <6> TAKE k \in tree[a].kids
          <6>1. k \in DOMAIN tree /\ k \notin line
            BY <4>1, <5>1
          <6>2. t[k].visits = tree[k].visits + 0 /\ tree[k].visits \in Nat
            BY <1>10, <2>01, <6>1
          <6> QED
            BY <6>2
        <5> HIDE DEF grows
        <5>4. \A k \in 1..n : (IF k \in t[a].kids THEN t[k].visits ELSE 0)
                                 <= (IF k \in tree[a].kids THEN tree[k].visits ELSE 0) + (IF k = i THEN grows ELSE 0)
          <6> TAKE k \in 1..n
          <6>1. CASE k = i
            BY <1>5, <1>9, <5>2, <6>1
          <6>2. CASE k # i /\ k \in tree[a].kids
            BY <5>2, <5>3, <6>2
          <6>3. CASE k # i /\ k \notin tree[a].kids
            BY <5>2, <6>3
          <6> QED
            BY <6>1, <6>2, <6>3
        <5> DEFINE Within(x) == \A k \in 1..n : (IF k \in t[a].kids THEN t[k].visits ELSE 0)
                                 <= (IF k \in tree[a].kids THEN tree[k].visits ELSE 0) + (IF k = x THEN grows ELSE 0)
        <5>5. Within(i)
          BY <5>4, Zenon
        <5> HIDE DEF Within
        <5>6. \E x : Within(x)
          BY <5>5
        <5> QED
          BY <5>6, Zenon DEF Within
      <4>3. CASE a # here
        <5>1. t[a].kids = tree[a].kids
          <6>1. t[a].kids = tree[a].kids \cup {}
            BY <1>10, <2>2, <4>3
          <6> QED
            BY <6>1
        <5>2. CASE a \in line
          <6>1. PICK x \in line : tree[x].parent = a
            BY <1>4, <4>3, <5>2
          <6>2. \A k \in tree[a].kids : k \in line => k = x
            BY <1>4, <4>1, <6>1
          <6>3. \A k \in tree[a].kids : /\ t[k].visits = tree[k].visits + (IF k \in line THEN sims ELSE 0)
                                        /\ tree[k].visits \in Nat
            BY <1>10, <2>01, <4>1
          <6>4. grows = sims
            BY <5>2
          <6> HIDE DEF grows
          <6>5. \A k \in 1..n : (IF k \in t[a].kids THEN t[k].visits ELSE 0)
                                   <= (IF k \in tree[a].kids THEN tree[k].visits ELSE 0) + (IF k = x THEN grows ELSE 0)
            <7> TAKE k \in 1..n
            <7>1. CASE k \in tree[a].kids /\ k \in line
              BY <1>5, <5>1, <6>2, <6>3, <6>4, <7>1
            <7>2. CASE k \in tree[a].kids /\ k \notin line
              BY <1>5, <5>1, <6>3, <6>4, <7>2
            <7>3. CASE k \notin tree[a].kids
              BY <1>5, <5>1, <6>4, <7>3
            <7> QED
              BY <7>1, <7>2, <7>3
          <6> QED
            BY <6>5
        <5>3. CASE a \notin line
          <6>1. \A k \in tree[a].kids : k \notin line
            <7> SUFFICES ASSUME NEW k \in tree[a].kids, k \in line PROVE FALSE
              OBVIOUS
            <7>1. k = 1 /\ tree[k].parent = a
              BY <1>4, <4>1, <5>3
            <7> QED
              BY <1>3, <2>2, <7>1
          <6>2. \A k \in tree[a].kids : t[k].visits = tree[k].visits + 0 /\ tree[k].visits \in Nat
            <7> TAKE k \in tree[a].kids
            <7>1. k \in DOMAIN tree /\ k \notin line
              BY <4>1, <6>1
            <7> QED
              BY <1>10, <2>01, <7>1
          <6>3. grows = 0
            BY <5>3
          <6>5. PICK x : x = 0
            OBVIOUS
          <6> HIDE DEF grows
          <6>4. \A k \in 1..n : (IF k \in t[a].kids THEN t[k].visits ELSE 0)
                                   <= (IF k \in tree[a].kids THEN tree[k].visits ELSE 0) + (IF k = x THEN grows ELSE 0)
            BY <5>1, <6>2, <6>3, <6>5
          <6> QED
            BY <6>4
        <5> QED
          BY <5>2, <5>3
      <4> QED
        BY <4>2, <4>3
    <3>5. grows \in Nat
      BY <1>5
    <3>6. (\A k \in tree[a].kids : tree[k].visits \in Nat) /\ (\A k \in t[a].kids : t[k].visits \in Nat)
      BY <2>0, <2>01, <2>2
    <3> HIDE DEF grows
    <3>7. PICK x : \A k \in 1..n : (IF k \in t[a].kids THEN t[k].visits ELSE 0)
                                    <= (IF k \in tree[a].kids THEN tree[k].visits ELSE 0) + (IF k = x THEN grows ELSE 0)
      BY <3>4
    <3>8. PICK g : Sums(t, t[a].kids, n, g) /\ g[n] <= f[n] + grows
      <4>1. n \in Nat /\ Sums(tree, tree[a].kids, n, f)
        BY <1>3, <3>1
      <4> QED
        BY <4>1, <3>5, <3>6, <3>7, SumGrows
    <3>9. g[n] \in Nat
      BY <1>3, <3>8 DEF Sums
    <3>10. t[a].visits = tree[a].visits + grows
      BY <3>3 DEF grows
    <3> QED
      BY <3>1, <3>2, <3>5, <3>8, <3>9, <3>10
  <2> QED
    BY <1>8, <2>1, <2>2
<1> QED
  BY <1>9, <1>11, <1>12, <1>13, <1>14, <1>15, <1>16 DEF Placed

\* What happens to a node that is pending shows in the tree.
LEMMA MarkedIs ==
    ASSUME NEW s \in Searches, NEW n, NEW chain, AloneAt(s, search[s], tree, n, chain), search[s].at \in {"execute", "reflect"},
           NEW i \in search[s].candidates, NEW to \in {"open", "executed", "pruned"}, NEW t, t = Marked(s, i, to)
    PROVE  Placed(s, search[s], n, chain, i, to, t) /\ search[s].candidates = {i}
<1> DEFINE here == search[s].here
<1>1. /\ Grown(tree, n, s) /\ Summed(tree, n) /\ Chained(tree, chain, here)
      /\ i \in DOMAIN tree /\ i \notin chain /\ tree[i].parent = here /\ ExecutedIn(tree, chain \cup {i})
      /\ search[s].candidates = {i}
  BY DEF AloneAt
<1>2. /\ n \in Nat /\ DOMAIN tree \subseteq 1..n /\ 1 \in DOMAIN tree /\ tree \in [DOMAIN tree -> TreeNode] /\ tree[1].parent = 0
      /\ \A j \in DOMAIN tree : tree[j] \in TreeNode /\ tree[j].by = s
      /\ \A j \in DOMAIN tree : j # 1 => tree[j].parent \in DOMAIN tree /\ tree[j].parent < j
      /\ \A j \in DOMAIN tree : tree[j].kids = {k \in DOMAIN tree : tree[k].parent = j}
  BY <1>1 DEF Grown
<1>3. t = [tree EXCEPT ![i].state = to]
  BY <1>1, <1>2 DEF Marked
<1>4. DOMAIN t = DOMAIN tree /\ t \in [DOMAIN tree -> TreeNode] /\ \A j \in DOMAIN tree : j # i => t[j] = tree[j]
  <2>1. [tree[i] EXCEPT !.state = to] \in TreeNode
    BY <1>1, <1>2 DEF TreeNode
  <2>2. t = [tree EXCEPT ![i] = [tree[i] EXCEPT !.state = to]]
    BY <1>3
  <2> QED
    BY <1>1, <1>2, <2>1, <2>2
<1>5. /\ t[i].state = to /\ t[i].by = tree[i].by /\ t[i].parent = tree[i].parent /\ t[i].kids = tree[i].kids
      /\ t[i].visits = tree[i].visits
  <2>1. t[i] = [tree[i] EXCEPT !.state = to] /\ tree[i] \in TreeNode
    BY <1>1, <1>2, <1>3
  <2> QED
    BY <2>1 DEF TreeNode
<1>6. \A j \in DOMAIN tree : /\ t[j].by = tree[j].by /\ t[j].parent = tree[j].parent /\ t[j].kids = tree[j].kids
                             /\ t[j].visits = tree[j].visits /\ (j # i => t[j].state = tree[j].state)
  BY <1>4, <1>5
<1>7. Grown(t, n, s)
  <2>1. t \in [DOMAIN t -> TreeNode] /\ t[1].parent = 0
    BY <1>2, <1>4, <1>6
  <2>2. \A j \in DOMAIN t : t[j].by = s /\ (j # 1 => t[j].parent \in DOMAIN t /\ t[j].parent < j)
    BY <1>2, <1>4, <1>6
  <2>3. ASSUME NEW j \in DOMAIN t PROVE t[j].kids = {k \in DOMAIN t : t[k].parent = j}
    <3>1. \A k \in DOMAIN tree : t[k].parent = tree[k].parent
      BY <1>6
    <3>2. t[j].kids = {k \in DOMAIN tree : tree[k].parent = j}
      BY <1>2, <1>4, <1>6
    <3> QED
      BY <1>4, <3>1, <3>2
  <2> QED
    BY <1>2, <1>4, <2>1, <2>2, <2>3 DEF Grown
<1>8. Chained(t, chain, here)
  <2>1. /\ 1 \in chain /\ here \in chain /\ chain \subseteq DOMAIN tree
        /\ \A j \in chain : j <= here /\ (j # 1 => tree[j].state = "executed" /\ tree[j].parent \in chain)
        /\ \A j, k \in chain : tree[j].parent = tree[k].parent => j = k
    BY <1>1 DEF Chained
  <2>2. \A j \in chain : t[j].state = tree[j].state /\ t[j].parent = tree[j].parent
    BY <1>1, <1>6, <2>1
  <2>3. chain \subseteq DOMAIN t
    BY <1>4, <2>1
  <2>4. \A j \in chain : j <= here /\ (j # 1 => t[j].state = "executed" /\ t[j].parent \in chain)
    BY <2>1, <2>2
  <2>5. \A j, k \in chain : t[j].parent = t[k].parent => j = k
    BY <2>1, <2>2
  <2> QED
    BY <2>1, <2>3, <2>4, <2>5 DEF Chained
<1>9. i \in DOMAIN t /\ t[i].parent = here
  BY <1>1, <1>4, <1>5
<1>10. to = "executed" => Chained(t, chain \cup {i}, i)
  BY <1>1, <1>5, <1>7, <1>8, <1>9, ChainGrows
<1>11. ExecutedIn(t, chain \cup {i}) /\ (to # "executed" => ExecutedIn(t, chain))
  <2>1. \A j \in DOMAIN tree : j # 1 /\ tree[j].state = "executed" => j \in chain \cup {i}
    BY <1>1 DEF ExecutedIn
  <2>2. \A j \in DOMAIN tree : j # i /\ j # 1 /\ t[j].state = "executed" => j \in chain
    BY <1>6, <2>1
  <2> QED
    BY <1>4, <1>5, <2>2 DEF ExecutedIn
<1>12. Summed(t, n)
  <2> SUFFICES ASSUME NEW a \in DOMAIN t PROVE \E g : Sums(t, t[a].kids, n, g) /\ t[a].visits >= g[n]
    BY DEF Summed
  <2>1. a \in DOMAIN tree /\ t[a].kids = tree[a].kids /\ t[a].visits = tree[a].visits
    BY <1>4, <1>6
  <2>2. PICK f : Sums(tree, tree[a].kids, n, f) /\ tree[a].visits >= f[n]
    BY <1>1, <2>1 DEF Summed
  <2>3. \A k \in tree[a].kids : t[k].visits = tree[k].visits
    BY <1>2, <1>6, <2>1
  <2>4. Sums(t, t[a].kids, n, f)
    BY <2>1, <2>2, <2>3 DEF Sums
  <2> QED
    BY <2>1, <2>2, <2>4
<1> QED
  BY <1>1, <1>7, <1>8, <1>9, <1>10, <1>11, <1>12 DEF Placed

Searching == [at : {"idle", "expand", "simulate", "execute", "reflect", "over"}, here : Nat, depth : Nat,
              iterations : Nat, candidates : SUBSET Nat]

SearchTyped ==
    /\ search \in [Searches -> Searching]
    /\ path = [s \in Searches |-> path[s]] /\ committed = [s \in Searches |-> committed[s]]
    /\ nodeCounter \in Nat /\ overlapped \subseteq Searches
    /\ SearchesAreBounded

Alone(s) ==
    /\ Active = {s} /\ rootId = 1
    /\ AloneAt(s, search[s], tree, nodeCounter, committed[s])

TreeInv ==
    /\ SearchTyped
    /\ \A s \in Active \ overlapped : Alone(s)
    /\ \A s \in Searches \ overlapped : path[s] # {} => search[s].at = "over" /\ Traced(path[s], committed[s], s)
    /\ overlapped = {} =>
          /\ ~hung
          /\ DOMAIN tree = {} \/ \E s \in Searches : Grown(tree, nodeCounter, s) /\ Summed(tree, nodeCounter)

\* What a step leaves of a search that is alone, in a tree it is alone in.
Outcome(s, n, chain) ==
    /\ ~hung' /\ Grown(tree', n, s) /\ Summed(tree', n)
    /\ \/ search'[s].at = "over" /\ (path'[s] = path[s] \/ Traced(path'[s], chain, s))
       \/ path'[s] = path[s] /\ search'[s].at \notin {"idle", "over"} /\ AloneAt(s, search'[s], tree', n, chain)

LEMMA EndIs ==
    ASSUME SearchTyped, ~hung, rootId = 1, NEW s \in Searches, NEW n, NEW t, NEW chain, NEW here,
           Grown(t, n, s), Summed(t, n), Chained(t, chain, here), ExecutedIn(t, chain), End(s, t)
    PROVE  Outcome(s, n, chain)
<1>1. BestPath(t, 1) = chain /\ ~Endless(t, 1)
  BY BestPathIsTheChain, NoWalkIsEndless
<1>2. /\ tree' = t /\ search' = [search EXCEPT ![s].at = "over", ![s].candidates = {}]
      /\ path' = [path EXCEPT ![s] = {t[i] : i \in BestPath(t, 1)}] /\ hung' = Endless(t, 1)
  BY DEF End
<1>3. search \in [Searches -> Searching] /\ path = [r \in Searches |-> path[r]]
  BY DEF SearchTyped
<1>4. path'[s] = {t[i] : i \in chain}
  BY <1>1, <1>2, <1>3
<1>5. search'[s].at = "over"
  <2>1. search[s] \in Searching
    BY <1>3
  <2> QED
    BY <1>2, <1>3, <2>1 DEF Searching
<1>6. Traced(path'[s], chain, s)
  BY <1>4, ChainIsTraced
<1> QED
  BY <1>1, <1>2, <1>5, <1>6 DEF Outcome

LEMMA RoundIs ==
    ASSUME SearchTyped, ~hung, rootId = 1, NEW s \in Searches, NEW n, NEW t, NEW chain, NEW here, NEW depth,
           Grown(t, n, s), Summed(t, n), Chained(t, chain, here), ExecutedIn(t, chain), Round(s, t, here, depth)
    PROVE  Outcome(s, n, chain)
<1>1. CASE End(s, t)
  BY <1>1, EndIs
<1>3. CASE Fails(s, t)
  <2>1. /\ tree' = t /\ search' = [search EXCEPT ![s].at = "over", ![s].candidates = {}] /\ UNCHANGED <<path, hung>>
    BY <1>3 DEF Fails
  <2>2. search \in [Searches -> Searching] /\ search[s] \in Searching
    BY DEF SearchTyped
  <2>3. search'[s].at = "over"
    BY <2>1, <2>2 DEF Searching
  <2> QED
    BY <2>1, <2>3 DEF Outcome
<1>2. CASE ~End(s, t) /\ ~Fails(s, t)
  <2>1. /\ tree' = t /\ hung' = hung /\ path' = path
        /\ search' = [search EXCEPT ![s] = [at |-> "expand", here |-> here, depth |-> depth,
                                            iterations |-> search[s].iterations + 1, candidates |-> {}]]
    BY <1>2 DEF Round
  <2>2. search'[s] = [at |-> "expand", here |-> here, depth |-> depth,
                      iterations |-> search[s].iterations + 1, candidates |-> {}]
    BY <2>1 DEF SearchTyped
  <2>3. AloneAt(s, search'[s], t, n, chain)
    BY <2>2 DEF AloneAt
  <2> QED
    BY <2>1, <2>2, <2>3 DEF Outcome
<1> QED
  BY <1>1, <1>2, <1>3

\* The others are as they were, and the rounds of the search are within its bound.
OthersStand(s) ==
    /\ \E rec \in Searching : /\ search' = [search EXCEPT ![s] = rec]
                              /\ rec.iterations <= MaxDepth * PerLevel
    /\ \A r \in Searches : r # s => path'[r] = path[r]
    /\ path' = [r \in Searches |-> path'[r]]

LEMMA ProductIs ==
    ASSUME TreeAssumption
    PROVE  MaxDepth * PerLevel \in Nat /\ 1 <= MaxDepth * PerLevel
<1>1. MaxDepth \in Nat \ {0} /\ PerLevel \in Nat \ {0}
  BY DEF TreeAssumption
<1>2. \A a, b \in Nat : a >= 1 /\ b >= 1 => a * b \in Nat /\ a * b >= 1
  BY Z3
<1>3. MaxDepth \in Nat /\ PerLevel \in Nat /\ MaxDepth >= 1 /\ PerLevel >= 1
  BY <1>1
<1> QED
  BY <1>2, <1>3

LEMMA EndStands == ASSUME SearchTyped, NEW s \in Searches, NEW t, End(s, t) PROVE OthersStand(s)
<1>1. /\ search' = [search EXCEPT ![s].at = "over", ![s].candidates = {}]
      /\ path' = [path EXCEPT ![s] = {t[i] : i \in BestPath(t, rootId)}]
  BY DEF End
<1>2. search \in [Searches -> Searching] /\ path = [r \in Searches |-> path[r]] /\ search[s].iterations <= MaxDepth * PerLevel
  BY DEF SearchTyped, SearchesAreBounded
<1> DEFINE rec == [search[s] EXCEPT !.at = "over", !.candidates = {}]
<1>3. search' = [search EXCEPT ![s] = rec]
  BY <1>1, <1>2
<1>4. rec \in Searching /\ rec.iterations = search[s].iterations
  <2>1. search[s] \in Searching
    BY <1>2
  <2> QED
    BY <2>1 DEF Searching
<1>5. \A r \in Searches : r # s => path'[r] = path[r]
  BY <1>1, <1>2
<1>6. path' = [r \in Searches |-> path'[r]]
  BY <1>1, <1>2
<1> QED
  BY <1>2, <1>3, <1>4, <1>5, <1>6 DEF OthersStand

LEMMA FailStands == ASSUME SearchTyped, NEW s \in Searches, NEW t, Fails(s, t) PROVE OthersStand(s)
<1>1. /\ search' = [search EXCEPT ![s].at = "over", ![s].candidates = {}]
      /\ path' = path
  BY DEF Fails
<1>2. search \in [Searches -> Searching] /\ path = [r \in Searches |-> path[r]] /\ search[s].iterations <= MaxDepth * PerLevel
  BY DEF SearchTyped, SearchesAreBounded
<1> DEFINE rec == [search[s] EXCEPT !.at = "over", !.candidates = {}]
<1>3. search' = [search EXCEPT ![s] = rec]
  BY <1>1, <1>2
<1>4. rec \in Searching /\ rec.iterations = search[s].iterations
  <2>1. search[s] \in Searching
    BY <1>2
  <2> QED
    BY <2>1 DEF Searching
<1>5. \A r \in Searches : r # s => path'[r] = path[r]
  BY <1>1, <1>2
<1>6. path' = [r \in Searches |-> path'[r]]
  BY <1>1, <1>2
<1> QED
  BY <1>2, <1>3, <1>4, <1>5, <1>6 DEF OthersStand

LEMMA RoundStands ==
    ASSUME TreeAssumption, SearchTyped, NEW s \in Searches, NEW t, NEW here \in Nat, NEW depth \in Nat, Round(s, t, here, depth)
    PROVE  OthersStand(s)
<1>1. CASE End(s, t)
  BY <1>1, EndStands
<1>3. CASE Fails(s, t)
  BY <1>3, FailStands
<1>2. CASE ~End(s, t) /\ ~Fails(s, t)
  <2> DEFINE rec == [at |-> "expand", here |-> here, depth |-> depth, iterations |-> search[s].iterations + 1,
                     candidates |-> {}]
  <2>1. ~CapReached(search[s].iterations, depth) /\ path' = path /\ search' = [search EXCEPT ![s] = rec]
    BY <1>2 DEF Round
  <2>2. /\ search[s].iterations \in Nat /\ path = [r \in Searches |-> path[r]]
        /\ search[s].iterations <= MaxDepth * PerLevel
    <3>1. search[s] \in Searching
      BY DEF SearchTyped
    <3> QED
      BY <3>1 DEF SearchTyped, SearchesAreBounded, Searching
  <2>3. ~(search[s].iterations >= MaxDepth * PerLevel)
    BY <2>1 DEF CapReached
  <2>4. MaxDepth * PerLevel \in Nat
    BY ProductIs
  <2> DEFINE bound == MaxDepth * PerLevel
  <2>5. search[s].iterations + 1 <= bound /\ search[s].iterations + 1 \in Nat
    <3>1. bound \in Nat /\ ~(search[s].iterations >= bound)
      BY <2>3, <2>4
    <3> HIDE DEF bound
    <3> QED
      BY <2>2, <3>1
  <2>6. rec \in Searching /\ rec.iterations <= bound
    <3> HIDE DEF bound
    <3> QED
      BY <2>5 DEF Searching
  <2> QED
    BY <2>1, <2>2, <2>6 DEF OthersStand
<1> QED
  BY <1>1, <1>2, <1>3

\* A search goes to another await.
Awaits(s, to, ids) == search' = [search EXCEPT ![s].at = to, ![s].candidates = ids] /\ path' = path

LEMMA AwaitStands ==
    ASSUME SearchTyped, NEW s \in Searches, NEW to \in {"simulate", "execute", "reflect", "over"}, NEW ids \in SUBSET Nat,
           Awaits(s, to, ids)
    PROVE  /\ OthersStand(s) /\ search'[s].at = to /\ search'[s].candidates = ids
           /\ search'[s].here = search[s].here
<1>2. search \in [Searches -> Searching] /\ path = [r \in Searches |-> path[r]] /\ search[s].iterations <= MaxDepth * PerLevel
  BY DEF SearchTyped, SearchesAreBounded
<1> DEFINE rec == [search[s] EXCEPT !.at = to, !.candidates = ids]
<1>1. search' = [search EXCEPT ![s].at = to, ![s].candidates = ids] /\ path' = path
  BY DEF Awaits
<1>3. search' = [search EXCEPT ![s] = rec] /\ search'[s] = rec
  BY <1>1, <1>2
<1>4. /\ rec \in Searching /\ rec.iterations = search[s].iterations
      /\ rec.at = to /\ rec.candidates = ids /\ rec.here = search[s].here
  <2>1. search[s] \in Searching
    BY <1>2
  <2> QED
    BY <2>1 DEF Searching
<1> HIDE DEF rec
<1> QED
  BY <1>1, <1>2, <1>3, <1>4 DEF OthersStand

LEMMA ExpandedStep ==
    ASSUME TreeAssumption, TreeInv, ~hung, NEW s \in Searches, Expanded(s)
    PROVE  /\ OthersStand(s) /\ nodeCounter' \in Nat /\ UNCHANGED <<rootId, overlapped, committed>>
           /\ search[s].at = "expand"
           /\ s \notin overlapped => Outcome(s, nodeCounter', committed[s])
<1>1. SearchTyped /\ search[s].at = "expand" /\ UNCHANGED <<rootId, overlapped, committed>>
  BY DEF TreeInv, Expanded
<1>2. nodeCounter \in Nat /\ search \in [Searches -> Searching] /\ search[s] \in Searching
  BY <1>1 DEF SearchTyped
<1>3. s \notin overlapped => rootId = 1 /\ AloneAt(s, search[s], tree, nodeCounter, committed[s])
  BY <1>1 DEF TreeInv, Alone, Active
<1>4. PICK n \in 0..Branching :
          IF n = 0 THEN End(s, tree) /\ nodeCounter' = nodeCounter
          ELSE /\ search' = [search EXCEPT ![s].at = "simulate", ![s].candidates = nodeCounter + 1 .. nodeCounter + n]
               /\ nodeCounter' = nodeCounter + n /\ UNCHANGED <<tree, path, hung>>
  BY DEF Expanded
<1>5. CASE n = 0
  <2>1. End(s, tree) /\ nodeCounter' = nodeCounter
    BY <1>4, <1>5
  <2>2. s \notin overlapped => Outcome(s, nodeCounter', committed[s])
    <3> SUFFICES ASSUME s \notin overlapped PROVE Outcome(s, nodeCounter', committed[s])
      OBVIOUS
    <3>1. /\ Grown(tree, nodeCounter, s) /\ Summed(tree, nodeCounter) /\ Chained(tree, committed[s], search[s].here)
          /\ ExecutedIn(tree, committed[s])
      BY <1>1, <1>3 DEF AloneAt
    <3> QED
      BY <1>1, <1>3, <2>1, <3>1, EndIs
  <2> QED
    BY <1>1, <1>2, <2>1, <2>2, EndStands
<1>6. CASE n # 0
  <2> DEFINE ids == nodeCounter + 1 .. nodeCounter + n
  <2>1. /\ search' = [search EXCEPT ![s].at = "simulate", ![s].candidates = ids]
        /\ nodeCounter' = nodeCounter + n /\ UNCHANGED <<tree, path, hung>> /\ n \in Nat
    BY <1>4, <1>6 DEF TreeAssumption
  <2>2. ids \in SUBSET Nat /\ nodeCounter' \in Nat /\ nodeCounter <= nodeCounter'
    BY <1>2, <2>1
  <2>3. \A c \in ids : c \in 1..nodeCounter' /\ c > nodeCounter
    BY <1>2, <2>1
  <2> HIDE DEF ids
  <2>4. Awaits(s, "simulate", ids)
    BY <2>1 DEF Awaits
  <2>5. OthersStand(s) /\ search'[s].at = "simulate" /\ search'[s].candidates = ids /\ search'[s].here = search[s].here
    BY <1>1, <2>2, <2>4, AwaitStands
  <2>6. s \notin overlapped => Outcome(s, nodeCounter', committed[s])
    <3> SUFFICES ASSUME s \notin overlapped PROVE Outcome(s, nodeCounter', committed[s])
      OBVIOUS
    <3>1. /\ Grown(tree, nodeCounter, s) /\ Summed(tree, nodeCounter) /\ Chained(tree, committed[s], search[s].here)
          /\ ExecutedIn(tree, committed[s])
      BY <1>1, <1>3 DEF AloneAt
    <3>2. Grown(tree, nodeCounter', s) /\ Summed(tree, nodeCounter')
      BY <2>2, <3>1, SummedExtends
    <3>3. DOMAIN tree \subseteq 1..nodeCounter /\ search[s].here \in DOMAIN tree
      BY <3>1 DEF Grown, Chained
    <3>4. \A c \in ids : c \in 1..nodeCounter' /\ c \notin DOMAIN tree /\ search[s].here < c
      BY <1>2, <2>3, <3>3
    <3>5. AloneAt(s, search'[s], tree', nodeCounter', committed[s])
      BY <2>1, <2>5, <3>1, <3>2, <3>4 DEF AloneAt
    <3> QED
      BY <2>1, <2>5, <3>2, <3>5 DEF Outcome
  <2> QED
    BY <1>1, <2>2, <2>5, <2>6
<1> QED
  BY <1>5, <1>6

LEMMA SimulatedStep ==
    ASSUME TreeAssumption, TreeInv, ~hung, NEW s \in Searches, Simulated(s)
    PROVE  /\ OthersStand(s) /\ UNCHANGED <<rootId, overlapped, nodeCounter>> /\ search[s].at = "simulate"
           /\ \E chain : committed' = [committed EXCEPT ![s] = chain]
           /\ s \notin overlapped => Outcome(s, nodeCounter, committed'[s])
<1>1. SearchTyped /\ search[s].at = "simulate" /\ UNCHANGED <<rootId, overlapped, nodeCounter>>
  BY DEF TreeInv, Simulated
<1>2. search \in [Searches -> Searching] /\ search[s] \in Searching /\ committed = [r \in Searches |-> committed[r]] /\ path = [r \in Searches |-> path[r]]
  BY <1>1 DEF SearchTyped
<1>02. search[s].here \in Nat /\ search[s].depth \in Nat /\ search[s].candidates \in SUBSET Nat
  BY <1>2 DEF Searching
<1>3. s \notin overlapped => rootId = 1 /\ AloneAt(s, search[s], tree, nodeCounter, committed[s])
  BY <1>1 DEF TreeInv, Alone, Active
<1>4. s \notin overlapped => /\ Grown(tree, nodeCounter, s) /\ Summed(tree, nodeCounter)
                             /\ Chained(tree, committed[s], search[s].here) /\ ExecutedIn(tree, committed[s])
                             /\ search[s].here \in DOMAIN tree
  BY <1>1, <1>3 DEF AloneAt, Chained
<1>5. CASE End(s, tree) /\ UNCHANGED committed
  <2>1. s \notin overlapped => Outcome(s, nodeCounter, committed'[s])
    BY <1>1, <1>3, <1>4, <1>5, EndIs
  <2>2. committed' = [committed EXCEPT ![s] = committed[s]]
    BY <1>2, <1>5
  <2> QED
    BY <1>1, <1>5, <2>1, <2>2, EndStands
<1>6. CASE NeverAtRoot(tree, search[s].here) /\ hung' = TRUE /\ UNCHANGED <<tree, search, path, committed>>
  <2>1. s \in overlapped
    BY <1>4, <1>6, NoWalkIsEndless
  <2>2. search' = [search EXCEPT ![s] = search[s]] /\ committed' = [committed EXCEPT ![s] = committed[s]]
    BY <1>2, <1>6
  <2>3. OthersStand(s)
    BY <1>1, <1>2, <1>6, <2>2 DEF OthersStand, SearchTyped, SearchesAreBounded
  <2> QED
    BY <1>1, <2>1, <2>2, <2>3
<1>7. ASSUME NEW live \in SUBSET search[s].candidates, NEW i \in live, NEW visits \in 1..Simulations(live), NEW t, NEW to \in {"open", "executed", "pruned"},
             t = Registered(Backpropagated(tree, search[s].here, Simulations(live)), s, i, visits, to),
             \/ to = "executed" /\ End(s, t) /\ committed' = [committed EXCEPT ![s] = committed[s] \cup {i}]
             \/ to = "pruned" /\ Round(s, t, search[s].here, search[s].depth) /\ UNCHANGED committed
             \/ /\ to = "executed" /\ Round(s, t, i, search[s].depth + 1)
                /\ committed' = [committed EXCEPT ![s] = committed[s] \cup {i}]
             \/ /\ to = "open" /\ tree' = t /\ UNCHANGED <<path, hung, committed>>
                /\ search' = [search EXCEPT ![s].at = "execute", ![s].candidates = {i}]
      PROVE  /\ OthersStand(s) /\ \E chain : committed' = [committed EXCEPT ![s] = chain]
             /\ s \notin overlapped => Outcome(s, nodeCounter, committed'[s])
  <2>0. i \in Nat /\ search[s].depth + 1 \in Nat
    BY <1>02
  <2>1. s \notin overlapped => /\ rootId = 1
                               /\ Grown(t, nodeCounter, s) /\ Summed(t, nodeCounter) /\ Chained(t, committed[s], search[s].here)
                               /\ i \in DOMAIN t /\ i \notin committed[s] /\ t[i].parent = search[s].here
                               /\ to = "executed" => Chained(t, committed[s] \cup {i}, i)
                               /\ ExecutedIn(t, committed[s] \cup {i}) /\ (to # "executed" => ExecutedIn(t, committed[s]))
    <3> SUFFICES ASSUME s \notin overlapped
                 PROVE  /\ rootId = 1
                        /\ Grown(t, nodeCounter, s) /\ Summed(t, nodeCounter) /\ Chained(t, committed[s], search[s].here)
                        /\ i \in DOMAIN t /\ i \notin committed[s] /\ t[i].parent = search[s].here
                        /\ to = "executed" => Chained(t, committed[s] \cup {i}, i)
                        /\ ExecutedIn(t, committed[s] \cup {i}) /\ (to # "executed" => ExecutedIn(t, committed[s]))
      OBVIOUS
    <3>1. rootId = 1 /\ AloneAt(s, search[s], tree, nodeCounter, committed[s])
      BY <1>3
    <3>2. t = Registered(Backpropagated(tree, search[s].here, Simulations(live)), s, i, visits, to)
      BY <1>7
    <3>3. search[s].at = "simulate"
      BY <1>1
    <3>4. /\ Grown(t, nodeCounter, s) /\ Summed(t, nodeCounter) /\ Chained(t, committed[s], search[s].here)
          /\ i \in DOMAIN t /\ i \notin committed[s] /\ t[i].parent = search[s].here
          /\ to = "executed" => Chained(t, committed[s] \cup {i}, i)
          /\ ExecutedIn(t, committed[s] \cup {i}) /\ (to # "executed" => ExecutedIn(t, committed[s]))
      <4>1. Placed(s, search[s], nodeCounter, committed[s], i, to, t)
        <5>1. \A c \in search[s].candidates : c \in 1..nodeCounter
          BY <3>1, <3>3 DEF AloneAt
        <5>2. nodeCounter \in Nat /\ IsFiniteSet(1..nodeCounter)
          BY <1>1, FS_Interval DEF SearchTyped
        <5>3. Cardinality(live) \in Nat
          BY <5>1, <5>2, FS_Subset, FS_CardinalityType
        <5>4. Simulations(live) \in Nat
          BY <5>3 DEF TreeAssumption, Simulations
        <5> QED
          BY <3>1, <3>2, <3>3, <5>4, PutIs
      <4> QED
        BY <4>1 DEF Placed
    <3> QED
      BY <3>1, <3>4
  <2>2. CASE to = "executed" /\ End(s, t) /\ committed' = [committed EXCEPT ![s] = committed[s] \cup {i}]
    <3>1. committed'[s] = committed[s] \cup {i}
      BY <1>2, <2>2
    <3>2. s \notin overlapped => Outcome(s, nodeCounter, committed[s] \cup {i})
      BY <1>1, <2>1, <2>2, EndIs
    <3> QED
      BY <1>1, <2>2, <3>1, <3>2, EndStands
  <2>3. CASE to = "pruned" /\ Round(s, t, search[s].here, search[s].depth) /\ UNCHANGED committed
    <3>1. committed' = [committed EXCEPT ![s] = committed[s]]
      BY <1>2, <2>3
    <3>2. s \notin overlapped => Outcome(s, nodeCounter, committed[s])
      BY <1>1, <2>1, <2>3, RoundIs
    <3>3. OthersStand(s)
      BY <1>1, <1>02, <2>3, RoundStands
    <3> QED
      BY <2>3, <3>1, <3>2, <3>3
  <2>4. CASE /\ to = "executed" /\ Round(s, t, i, search[s].depth + 1)
             /\ committed' = [committed EXCEPT ![s] = committed[s] \cup {i}]
    <3>1. committed'[s] = committed[s] \cup {i}
      BY <1>2, <2>4
    <3>2. s \notin overlapped => Outcome(s, nodeCounter, committed[s] \cup {i})
      BY <1>1, <2>1, <2>4, RoundIs
    <3>3. OthersStand(s)
      BY <1>1, <2>0, <2>4, RoundStands
    <3> QED
      BY <2>4, <3>1, <3>2, <3>3
  <2>5. CASE /\ to = "open" /\ tree' = t /\ UNCHANGED <<path, hung, committed>>
             /\ search' = [search EXCEPT ![s].at = "execute", ![s].candidates = {i}]
    <3>1. committed' = [committed EXCEPT ![s] = committed[s]]
      BY <1>2, <2>5
    <3>2. Awaits(s, "execute", {i}) /\ {i} \in SUBSET Nat
      BY <2>0, <2>5 DEF Awaits
    <3>3. /\ OthersStand(s) /\ search'[s].at = "execute" /\ search'[s].candidates = {i}
          /\ search'[s].here = search[s].here
      BY <1>1, <3>2, AwaitStands
    <3>4. s \notin overlapped => Outcome(s, nodeCounter, committed[s])
      <4> SUFFICES ASSUME s \notin overlapped PROVE Outcome(s, nodeCounter, committed[s])
        OBVIOUS
      <4>1. AloneAt(s, search'[s], t, nodeCounter, committed[s])
        BY <2>1, <3>3 DEF AloneAt
      <4> QED
        BY <2>1, <2>5, <3>3, <4>1 DEF Outcome
    <3> QED
      BY <2>5, <3>1, <3>3, <3>4
  <2> QED
    BY <1>7, <2>2, <2>3, <2>4, <2>5
<1>8. CASE ~(End(s, tree) /\ UNCHANGED committed) /\
           ~(NeverAtRoot(tree, search[s].here) /\ hung' = TRUE /\ UNCHANGED <<tree, search, path, committed>>)
  <2> DEFINE Put(live, i, visits, to) == Registered(Backpropagated(tree, search[s].here, Simulations(live)), s, i, visits, to)
  <2>11. PICK live \in SUBSET search[s].candidates : \E i \in live, visits \in 1..Simulations(live) :
           \/ End(s, Put(live, i, visits, "executed")) /\ committed' = [committed EXCEPT ![s] = committed[s] \cup {i}]
           \/ Round(s, Put(live, i, visits, "pruned"), search[s].here, search[s].depth) /\ UNCHANGED committed
           \/ /\ Round(s, Put(live, i, visits, "executed"), i, search[s].depth + 1)
              /\ committed' = [committed EXCEPT ![s] = committed[s] \cup {i}]
           \/ /\ tree' = Put(live, i, visits, "open") /\ UNCHANGED <<path, hung, committed>>
              /\ search' = [search EXCEPT ![s].at = "execute", ![s].candidates = {i}]
    BY <1>8 DEF Simulated
  <2>1. PICK i \in live, visits \in 1..Simulations(live) :
           \/ End(s, Put(live, i, visits, "executed")) /\ committed' = [committed EXCEPT ![s] = committed[s] \cup {i}]
           \/ Round(s, Put(live, i, visits, "pruned"), search[s].here, search[s].depth) /\ UNCHANGED committed
           \/ /\ Round(s, Put(live, i, visits, "executed"), i, search[s].depth + 1)
              /\ committed' = [committed EXCEPT ![s] = committed[s] \cup {i}]
           \/ /\ tree' = Put(live, i, visits, "open") /\ UNCHANGED <<path, hung, committed>>
              /\ search' = [search EXCEPT ![s].at = "execute", ![s].candidates = {i}]
    BY <2>11
  <2> HIDE DEF Put
  <2>2. \A to : Put(live, i, visits, to) = Registered(Backpropagated(tree, search[s].here, Simulations(live)), s, i, visits, to)
    BY DEF Put
  <2>3. PICK to \in {"open", "executed", "pruned"} :
           \/ to = "executed" /\ End(s, Put(live, i, visits, to)) /\ committed' = [committed EXCEPT ![s] = committed[s] \cup {i}]
           \/ to = "pruned" /\ Round(s, Put(live, i, visits, to), search[s].here, search[s].depth) /\ UNCHANGED committed
           \/ /\ to = "executed" /\ Round(s, Put(live, i, visits, to), i, search[s].depth + 1)
              /\ committed' = [committed EXCEPT ![s] = committed[s] \cup {i}]
           \/ /\ to = "open" /\ tree' = Put(live, i, visits, to) /\ UNCHANGED <<path, hung, committed>>
              /\ search' = [search EXCEPT ![s].at = "execute", ![s].candidates = {i}]
    BY <2>1, Zenon
  <2> QED
    BY <1>1, <1>7, <2>2, <2>3
<1> QED
  BY <1>5, <1>6, <1>8

\* A node the search goes on from.
LEMMA AdvanceStep ==
    ASSUME TreeAssumption, TreeInv, ~hung, NEW s \in Searches, search[s].at \in {"execute", "reflect"}, NEW i \in search[s].candidates,
           Advance(s, i)
    PROVE  /\ OthersStand(s) /\ \E chain : committed' = [committed EXCEPT ![s] = chain]
           /\ s \notin overlapped => Outcome(s, nodeCounter, committed'[s])
<1>1. SearchTyped /\ committed = [r \in Searches |-> committed[r]] /\ search[s] \in Searching
  BY DEF TreeInv, SearchTyped
<1>2. i \in Nat /\ search[s].depth + 1 \in Nat
  BY <1>1 DEF Searching
<1> DEFINE t == Marked(s, i, "executed")
<1>3. Round(s, t, i, search[s].depth + 1) /\ committed' = [committed EXCEPT ![s] = @ \cup {i}]
  BY DEF Advance
<1> HIDE DEF t
<1>4. committed' = [committed EXCEPT ![s] = committed[s] \cup {i}] /\ committed'[s] = committed[s] \cup {i}
  BY <1>1, <1>3
<1>5. ASSUME s \notin overlapped PROVE Outcome(s, nodeCounter, committed[s] \cup {i})
  <2>1. rootId = 1 /\ AloneAt(s, search[s], tree, nodeCounter, committed[s])
    BY <1>5 DEF TreeInv, Alone, Active
  <2>2. t = Marked(s, i, "executed")
    BY DEF t
  <2>4. Placed(s, search[s], nodeCounter, committed[s], i, "executed", t)
    BY <2>1, <2>2, MarkedIs
  <2>3. /\ Grown(t, nodeCounter, s) /\ Summed(t, nodeCounter) /\ Chained(t, committed[s] \cup {i}, i)
        /\ ExecutedIn(t, committed[s] \cup {i})
    BY <2>4 DEF Placed
  <2> QED
    BY <1>1, <1>3, <2>1, <2>3, RoundIs
<1> QED
  BY <1>1, <1>2, <1>3, <1>4, <1>5, RoundStands

LEMMA ExecutedStep ==
    ASSUME TreeAssumption, TreeInv, ~hung, NEW s \in Searches, Executed(s) \/ Throws(s)
    PROVE  /\ OthersStand(s) /\ UNCHANGED <<rootId, overlapped, nodeCounter>> /\ search[s].at = "execute"
           /\ \E chain : committed' = [committed EXCEPT ![s] = chain]
           /\ s \notin overlapped => Outcome(s, nodeCounter, committed'[s])
<1>1. SearchTyped /\ search[s].at = "execute" /\ UNCHANGED <<rootId, overlapped, nodeCounter>>
  BY DEF TreeInv, Executed, Throws
<1>2. committed = [r \in Searches |-> committed[r]] /\ search[s] \in Searching /\ search[s].candidates \in SUBSET Nat
  BY <1>1 DEF SearchTyped, Searching
<1>3. s \notin overlapped => rootId = 1 /\ AloneAt(s, search[s], tree, nodeCounter, committed[s])
  BY <1>1 DEF TreeInv, Alone, Active
<1>4. CASE Executed(s)
  <2>1. PICK i \in search[s].candidates :
           \/ Advance(s, i)
           \/ /\ tree' = Marked(s, i, "executed") /\ UNCHANGED <<path, hung, committed>>
              /\ search' = [search EXCEPT ![s].at = "reflect"]
    BY <1>4 DEF Executed
  <2>2. CASE Advance(s, i)
    BY <1>1, <2>2, AdvanceStep
  <2>3. CASE /\ tree' = Marked(s, i, "executed") /\ UNCHANGED <<path, hung, committed>>
             /\ search' = [search EXCEPT ![s].at = "reflect"]
    <3>1. committed' = [committed EXCEPT ![s] = committed[s]]
      BY <1>2, <2>3
    <3>2. Awaits(s, "reflect", search[s].candidates)
      <4>1. search' = [search EXCEPT ![s].at = "reflect", ![s].candidates = search[s].candidates]
        BY <1>2, <2>3 DEF Searching
      <4> QED
        BY <2>3, <4>1 DEF Awaits
    <3>4. /\ OthersStand(s) /\ search'[s].at = "reflect" /\ search'[s].candidates = search[s].candidates
          /\ search'[s].here = search[s].here
      BY <1>1, <1>2, <3>2, AwaitStands
    <3>5. ASSUME s \notin overlapped PROVE Outcome(s, nodeCounter, committed[s])
      <4> DEFINE t == Marked(s, i, "executed")
      <4>1. /\ Grown(t, nodeCounter, s) /\ Summed(t, nodeCounter) /\ Chained(t, committed[s], search[s].here)
            /\ i \in DOMAIN t /\ i \notin committed[s] /\ t[i].parent = search[s].here /\ search[s].candidates = {i}
            /\ ExecutedIn(t, committed[s] \cup {i})
        <5>1. AloneAt(s, search[s], tree, nodeCounter, committed[s]) /\ search[s].at \in {"execute", "reflect"}
          BY <1>1, <1>3, <3>5
        <5>2. Placed(s, search[s], nodeCounter, committed[s], i, "executed", t) /\ search[s].candidates = {i}
          BY <5>1, MarkedIs
        <5> HIDE DEF t
        <5> QED
          BY <5>2 DEF Placed
      <4> HIDE DEF t
      <4>2. AloneAt(s, search'[s], t, nodeCounter, committed[s])
        BY <3>4, <4>1 DEF AloneAt
      <4>3. tree' = t
        BY <2>3 DEF t
      <4> QED
        BY <2>3, <3>4, <4>1, <4>2, <4>3 DEF Outcome
    <3>6. committed'[s] = committed[s]
      BY <2>3
    <3> QED
      BY <1>1, <3>1, <3>4, <3>5, <3>6
  <2> QED
    BY <1>1, <2>1, <2>2, <2>3
<1>5. CASE Throws(s)
  <2>1. /\ search' = [search EXCEPT ![s].at = "over", ![s].candidates = {}]
        /\ UNCHANGED <<tree, path, hung, committed>>
    BY <1>5 DEF Throws, Fails
  <2>2. committed' = [committed EXCEPT ![s] = committed[s]]
    BY <1>2, <2>1
  <2>3. Awaits(s, "over", {})
    BY <2>1 DEF Awaits
  <2>4. OthersStand(s) /\ search'[s].at = "over"
    BY <1>1, <2>3, AwaitStands
  <2>5. s \notin overlapped => Grown(tree, nodeCounter, s) /\ Summed(tree, nodeCounter)
    BY <1>3 DEF AloneAt
  <2> QED
    BY <1>1, <2>1, <2>2, <2>4, <2>5 DEF Outcome
<1> QED
  BY <1>4, <1>5

LEMMA ReflectedStep ==
    ASSUME TreeAssumption, TreeInv, ~hung, NEW s \in Searches, Reflected(s)
    PROVE  /\ OthersStand(s) /\ UNCHANGED <<rootId, overlapped, nodeCounter>> /\ search[s].at = "reflect"
           /\ \E chain : committed' = [committed EXCEPT ![s] = chain]
           /\ s \notin overlapped => Outcome(s, nodeCounter, committed'[s])
<1>1. SearchTyped /\ search[s].at = "reflect" /\ UNCHANGED <<rootId, overlapped, nodeCounter>>
  BY DEF TreeInv, Reflected
<1>2. committed = [r \in Searches |-> committed[r]] /\ search[s] \in Searching
  BY <1>1 DEF SearchTyped
<1>02. search[s].here \in Nat /\ search[s].depth \in Nat
  BY <1>2 DEF Searching
<1>3. s \notin overlapped => rootId = 1 /\ AloneAt(s, search[s], tree, nodeCounter, committed[s])
  BY <1>1 DEF TreeInv, Alone, Active
<1>4. PICK i \in search[s].candidates :
         \/ Advance(s, i)
         \/ Round(s, Backtracked(s, i), search[s].here, search[s].depth) /\ UNCHANGED committed
  BY DEF Reflected
<1>5. CASE Advance(s, i)
  BY <1>1, <1>5, AdvanceStep
<1>6. CASE Round(s, Backtracked(s, i), search[s].here, search[s].depth) /\ UNCHANGED committed
  <2>1. committed' = [committed EXCEPT ![s] = committed[s]]
    BY <1>2, <1>6
  <2> DEFINE t == Marked(s, i, "pruned")
  <2>2. Round(s, t, search[s].here, search[s].depth)
    BY <1>6 DEF Backtracked
  <2>3. OthersStand(s)
    <3> HIDE DEF t
    <3> QED
      BY <1>1, <1>02, <2>2, RoundStands
  <2>4. ASSUME s \notin overlapped PROVE Outcome(s, nodeCounter, committed[s])
    <3>2. Placed(s, search[s], nodeCounter, committed[s], i, "pruned", t)
      BY <1>1, <1>3, <2>4, MarkedIs
    <3> HIDE DEF t
    <3>1. /\ Grown(t, nodeCounter, s) /\ Summed(t, nodeCounter) /\ Chained(t, committed[s], search[s].here)
          /\ ExecutedIn(t, committed[s])
      BY <3>2 DEF Placed
    <3> QED
      BY <1>1, <1>3, <2>2, <2>4, <3>1, RoundIs
  <2> QED
    BY <1>1, <1>6, <2>1, <2>3, <2>4
<1> QED
  BY <1>4, <1>5, <1>6

\* A search begins: alone, or beside the others.
LEMMA BeginStep == ASSUME TreeAssumption, TreeInv, ~hung, NEW s \in Searches, Begin(s) PROVE TreeInv'
<1>1. PICK at \in {"expand", "over"} :
      /\ SearchTyped /\ search[s].at = "idle" /\ tree' = [i \in {1} |-> Node(s, 0, 0, "open")] /\ rootId' = 1 /\ nodeCounter' = 1
      /\ search' = [search EXCEPT ![s] = [at |-> at, here |-> 1, depth |-> 0, iterations |-> 1, candidates |-> {}]]
      /\ committed' = [committed EXCEPT ![s] = {1}]
      /\ overlapped' = IF Active = {} THEN overlapped ELSE overlapped \cup Active \cup {s}
      /\ path' = path \/ (at = "over" /\ path' = [path EXCEPT ![s] = {Node(s, 0, 0, "open")}])
      /\ UNCHANGED hung
  BY DEF TreeInv, Begin
<1>2. /\ search \in [Searches -> Searching] /\ committed = [r \in Searches |-> committed[r]]
      /\ overlapped \subseteq Searches /\ path = [r \in Searches |-> path[r]]
  BY <1>1 DEF SearchTyped
<1> DEFINE rec == [at |-> at, here |-> 1, depth |-> 0, iterations |-> 1, candidates |-> {}]
<1>3. search' = [search EXCEPT ![s] = rec] /\ search'[s] = rec /\ rec \in Searching
  BY <1>1, <1>2 DEF Searching
<1>4. SearchTyped'
  <2>1. search' \in [Searches -> Searching]
    BY <1>2, <1>3
  <2>2. overlapped' \subseteq Searches
    BY <1>1, <1>2 DEF Active
  <2>3. SearchesAreBounded'
    <3>1. \A r \in Searches : search'[r].iterations = IF r = s THEN 1 ELSE search[r].iterations
      BY <1>2, <1>3
    <3> QED
      BY <1>1, <3>1, ProductIs DEF SearchTyped, SearchesAreBounded
  <2>4. path' = [r \in Searches |-> path'[r]]
    BY <1>1, <1>2
  <2> QED
    BY <1>1, <2>1, <2>2, <2>3, <2>4 DEF SearchTyped
<1>5. \A r \in Searches : r # s => search'[r] = search[r] /\ committed'[r] = committed[r] /\ path'[r] = path[r]
  BY <1>1, <1>2
<1>6. Active' = Active \cup (IF at = "expand" THEN {s} ELSE {})
  <2>1. \A r \in Searches : r \in Active' <=> r \in Active \/ (r = s /\ at = "expand")
    BY <1>1, <1>3, <1>5 DEF Active
  <2> QED
    BY <2>1 DEF Active
\* The new tree is a root.
<1>7. Grown(tree', nodeCounter', s) /\ Summed(tree', nodeCounter') /\ Chained(tree', {1}, 1) /\ ExecutedIn(tree', {1})
  <2> DEFINE t == [i \in {1} |-> Node(s, 0, 0, "open")]
  <2>1. /\ DOMAIN t = {1} /\ t[1].by = s /\ t[1].parent = 0 /\ t[1].kids = {} /\ t[1].visits = 0 /\ t[1].state = "open"
        /\ t[1] \in TreeNode /\ t = [i \in DOMAIN t |-> t[i]]
    BY DEF Node, TreeNode
  <2> HIDE DEF t
  <2>2. Grown(t, 1, s)
    <3>1. t \in [DOMAIN t -> TreeNode] /\ DOMAIN t \subseteq 1..1
      BY <2>1
    <3>2. \A i \in DOMAIN t : i = 1
      BY <2>1
    <3>3. {k \in DOMAIN t : t[k].parent = 1} = {}
      BY <2>1
    <3> QED
      BY <2>1, <3>1, <3>2, <3>3 DEF Grown
  <2>3. Summed(t, 1)
    <3> SUFFICES ASSUME NEW i \in DOMAIN t PROVE \E f : Sums(t, t[i].kids, 1, f) /\ t[i].visits >= f[1]
      BY DEF Summed
    <3>1. i = 1
      BY <2>1
    <3> DEFINE f == [k \in 0..1 |-> 0]
    <3>2. Sums(t, {}, 1, f) /\ f[1] = 0
      BY DEF Sums
    <3> HIDE DEF f
    <3> QED
      BY <2>1, <3>1, <3>2
  <2>4. Chained(t, {1}, 1) /\ ExecutedIn(t, {1})
    BY <2>1 DEF Chained, ExecutedIn
  <2>5. tree' = t /\ nodeCounter' = 1
    BY <1>1 DEF t
  <2> QED
    BY <2>2, <2>3, <2>4, <2>5
<1>8. ASSUME NEW r \in Active' \ overlapped' PROVE Alone(r)'
  <2>1. Active = {} /\ r = s /\ at = "expand"
    BY <1>1, <1>6, <1>8
  <2>2. committed'[s] = {1}
    BY <1>1, <1>2
  <2>3. AloneAt(s, search'[s], tree', nodeCounter', committed'[s])
    BY <1>3, <1>7, <2>2 DEF AloneAt
  <2> QED
    BY <1>1, <1>6, <2>1, <2>3 DEF Alone
<1>9. ASSUME NEW r \in Searches \ overlapped', path'[r] # {} PROVE search'[r].at = "over" /\ Traced(path'[r], committed'[r], r)
  <2>1. r \notin overlapped /\ r \in Searches
    BY <1>1, <1>9
  <2>2. CASE r # s
    <3>1. path[r] # {}
      BY <1>5, <1>9, <2>1, <2>2
    <3>2. search[r].at = "over" /\ Traced(path[r], committed[r], r)
      BY <2>1, <3>1 DEF TreeInv
    <3> QED
      BY <1>5, <2>1, <2>2, <3>2
  <2>3. CASE r = s
    <3>1. path[s] = {}
      BY <1>1, <2>1, <2>3 DEF TreeInv
    <3>2. path'[s] = {Node(s, 0, 0, "open")} /\ at = "over"
      BY <1>1, <1>2, <1>9, <2>3, <3>1
    <3>3. {tree'[i] : i \in {1}} = path'[s]
      BY <1>1, <3>2
    <3>4. Traced(path'[s], {1}, s)
      BY <1>7, <3>3, ChainIsTraced
    <3> QED
      BY <1>1, <1>2, <1>3, <2>3, <3>2, <3>4
  <2> QED
    BY <2>2, <2>3
<1>10. ~hung' /\ \E r \in Searches : Grown(tree', nodeCounter', r) /\ Summed(tree', nodeCounter')
  BY <1>1, <1>7
<1> QED
  BY <1>4, <1>8, <1>9, <1>10 DEF TreeInv

\* What the other actions have in common.
LEMMA OthersStandStep ==
    ASSUME TreeInv, ~hung, NEW s \in Active, OthersStand(s), nodeCounter' \in Nat, UNCHANGED <<rootId, overlapped>>,
           \E chain : committed' = [committed EXCEPT ![s] = chain],
           s \notin overlapped => Outcome(s, nodeCounter', committed'[s])
    PROVE  TreeInv'
<1>1. SearchTyped /\ s \in Searches /\ search[s].at \notin {"idle", "over"}
  BY DEF TreeInv, Active
<1>2. search \in [Searches -> Searching] /\ committed = [r \in Searches |-> committed[r]] /\ overlapped \subseteq Searches
  BY <1>1 DEF SearchTyped
<1>3. PICK rec \in Searching : search' = [search EXCEPT ![s] = rec] /\ rec.iterations <= MaxDepth * PerLevel
  BY DEF OthersStand
<1>4. search' \in [Searches -> Searching] /\ search'[s] = rec /\ \A r \in Searches : r # s => search'[r] = search[r]
  BY <1>1, <1>2, <1>3
<1>5. /\ committed' = [r \in Searches |-> committed'[r]] /\ path' = [r \in Searches |-> path'[r]]
      /\ \A r \in Searches : r # s => committed'[r] = committed[r] /\ path'[r] = path[r]
  <2>1. PICK chain : committed' = [committed EXCEPT ![s] = chain]
    OBVIOUS
  <2>2. committed' = [r \in Searches |-> IF r = s THEN chain ELSE committed[r]]
    BY <1>2, <2>1
  <2> QED
    BY <2>2 DEF OthersStand
<1>6. SearchTyped'
  <2>1. SearchesAreBounded'
    BY <1>1, <1>3, <1>4 DEF SearchTyped, SearchesAreBounded
  <2> QED
    BY <1>2, <1>4, <1>5, <2>1 DEF SearchTyped
<1>7. Active' \subseteq Active
  <2>1. \A r \in Searches : r \in Active' => r \in Active
    BY <1>4 DEF Active
  <2> QED
    BY <2>1 DEF Active
<1>8. s \notin overlapped => Alone(s)
  BY DEF TreeInv
<1>9. \A r \in Active \ overlapped : Alone(r)
  BY DEF TreeInv
<1>10. ASSUME NEW r \in Active' \ overlapped' PROVE Alone(r)'
  <2>1. r \in Active \ overlapped
    BY <1>7, <1>10
  <2>2. Active = {r}
    BY <1>9, <2>1 DEF Alone
  <2>3. r = s /\ s \notin overlapped /\ rootId = 1
    BY <1>8, <2>1, <2>2 DEF Alone
  <2>4. Outcome(s, nodeCounter', committed'[s]) /\ search'[s].at # "over"
    BY <1>10, <2>3 DEF Active
  <2>5. AloneAt(s, search'[s], tree', nodeCounter', committed'[s])
    BY <2>4 DEF Outcome
  <2>6. Active' = {s}
    BY <1>7, <1>10, <2>2, <2>3
  <2> QED
    BY <2>3, <2>5, <2>6 DEF Alone
<1>11. ASSUME NEW r \in Searches \ overlapped', path'[r] # {} PROVE search'[r].at = "over" /\ Traced(path'[r], committed'[r], r)
  <2>0. r \in Searches \ overlapped
    BY <1>11
  <2>1. path[r] # {} => search[r].at = "over" /\ Traced(path[r], committed[r], r)
    BY <2>0 DEF TreeInv
  <2>2. CASE r = s
    <3>1. path[s] = {}
      BY <1>1, <2>1, <2>2
    <3>2. Outcome(s, nodeCounter', committed'[s])
      BY <2>0, <2>2
    <3> QED
      BY <1>11, <2>2, <3>1, <3>2 DEF Outcome
  <2>3. CASE r # s
    BY <1>4, <1>5, <1>11, <2>0, <2>1, <2>3
  <2> QED
    BY <2>2, <2>3
<1>12. overlapped' = {} => ~hung' /\ \E r \in Searches : Grown(tree', nodeCounter', r) /\ Summed(tree', nodeCounter')
  BY <1>1 DEF Outcome
<1> QED
  BY <1>6, <1>10, <1>11, <1>12 DEF TreeInv

LEMMA TreeStart == TreeAssumption /\ Init => TreeInv
<1> SUFFICES ASSUME TreeAssumption, Init PROVE TreeInv
  OBVIOUS
<1>1. \A s \in Searches : search[s] = [at |-> "idle", here |-> 0, depth |-> 0, iterations |-> 0, candidates |-> {}]
  BY DEF Init
<1>2. search \in [Searches -> Searching]
  BY DEF Init, Searching
<1>3. SearchesAreBounded
  BY <1>1, ProductIs DEF SearchesAreBounded
<1>4. SearchTyped
  BY <1>2, <1>3 DEF Init, SearchTyped
<1>5. Active = {}
  BY <1>1 DEF Active
<1>6. \A s \in Searches : path[s] = {}
  BY DEF Init
<1>7. ~hung /\ DOMAIN tree = {}
  BY DEF Init
<1> QED
  BY <1>4, <1>5, <1>6, <1>7 DEF TreeInv

LEMMA TreeStep == TreeAssumption /\ TreeInv /\ [Next]_treeVars => TreeInv'
<1> SUFFICES ASSUME TreeAssumption, TreeInv, [Next]_treeVars PROVE TreeInv'
  OBVIOUS
<1>1. CASE Next
  <2>1. ~hung
    BY <1>1 DEF Next
  <2>2. PICK s \in Searches : Begin(s) \/ Expanded(s) \/ Simulated(s) \/ Executed(s) \/ Reflected(s) \/ Throws(s)
    BY <1>1 DEF Next
  <2>3. CASE Begin(s)
    BY <2>1, <2>3, BeginStep
  <2>0. nodeCounter \in Nat /\ committed = [r \in Searches |-> committed[r]]
    BY DEF TreeInv, SearchTyped
  <2>4. CASE Expanded(s)
    <3>1. /\ OthersStand(s) /\ nodeCounter' \in Nat /\ UNCHANGED <<rootId, overlapped, committed>> /\ search[s].at = "expand"
          /\ s \notin overlapped => Outcome(s, nodeCounter', committed[s])
      BY <2>1, <2>4, ExpandedStep
    <3>2. s \in Active
      BY <3>1 DEF Active
    <3>3. committed' = [committed EXCEPT ![s] = committed[s]]
      BY <2>0, <3>1
    <3>4. s \notin overlapped => Outcome(s, nodeCounter', committed'[s])
      BY <3>1
    <3>5. \E chain : committed' = [committed EXCEPT ![s] = chain]
      BY <3>3
    <3> QED
      BY <2>1, <3>1, <3>2, <3>4, <3>5, OthersStandStep
  <2>5. CASE Simulated(s)
    <3>1. /\ OthersStand(s) /\ UNCHANGED <<rootId, overlapped, nodeCounter>> /\ search[s].at = "simulate"
          /\ \E chain : committed' = [committed EXCEPT ![s] = chain]
          /\ s \notin overlapped => Outcome(s, nodeCounter, committed'[s])
      BY <2>1, <2>5, SimulatedStep
    <3>2. s \in Active
      BY <3>1 DEF Active
    <3>3. nodeCounter' \in Nat /\ (s \notin overlapped => Outcome(s, nodeCounter', committed'[s]))
      BY <2>0, <3>1
    <3> QED
      BY <2>1, <3>1, <3>2, <3>3, OthersStandStep
  <2>6. CASE Executed(s) \/ Throws(s)
    <3>1. /\ OthersStand(s) /\ UNCHANGED <<rootId, overlapped, nodeCounter>> /\ search[s].at = "execute"
          /\ \E chain : committed' = [committed EXCEPT ![s] = chain]
          /\ s \notin overlapped => Outcome(s, nodeCounter, committed'[s])
      BY <2>1, <2>6, ExecutedStep
    <3>2. s \in Active
      BY <3>1 DEF Active
    <3>3. nodeCounter' \in Nat /\ (s \notin overlapped => Outcome(s, nodeCounter', committed'[s]))
      BY <2>0, <3>1
    <3> QED
      BY <2>1, <3>1, <3>2, <3>3, OthersStandStep
  <2>7. CASE Reflected(s)
    <3>1. /\ OthersStand(s) /\ UNCHANGED <<rootId, overlapped, nodeCounter>> /\ search[s].at = "reflect"
          /\ \E chain : committed' = [committed EXCEPT ![s] = chain]
          /\ s \notin overlapped => Outcome(s, nodeCounter, committed'[s])
      BY <2>1, <2>7, ReflectedStep
    <3>2. s \in Active
      BY <3>1 DEF Active
    <3>3. nodeCounter' \in Nat /\ (s \notin overlapped => Outcome(s, nodeCounter', committed'[s]))
      BY <2>0, <3>1
    <3> QED
      BY <2>1, <3>1, <3>2, <3>3, OthersStandStep
  <2> QED
    BY <2>2, <2>3, <2>4, <2>5, <2>6, <2>7
<1>2. CASE UNCHANGED treeVars
  <2>1. UNCHANGED <<tree, rootId, nodeCounter, search, path, hung, committed, overlapped>>
    BY <1>2 DEF treeVars
  <2>2. SearchTyped' /\ Active' = Active
    BY <2>1 DEF TreeInv, SearchTyped, SearchesAreBounded, Active
  <2>3. ASSUME NEW s \in Active' \ overlapped' PROVE Alone(s)'
    <3>1. Alone(s)
      BY <2>1, <2>2, <2>3 DEF TreeInv
    <3> QED
      BY <2>1, <2>2, <3>1 DEF Alone
  <2> QED
    BY <2>1, <2>2, <2>3 DEF TreeInv
<1> QED
  BY <1>1, <1>2

LEMMA TreeSound == TreeInv => SearchesAreBounded /\ WalksEnd /\ PathIsWhatWasDone /\ VisitsAddUp
<1> SUFFICES ASSUME TreeInv PROVE SearchesAreBounded /\ WalksEnd /\ PathIsWhatWasDone /\ VisitsAddUp
  OBVIOUS
<1>1. SearchesAreBounded
  BY DEF TreeInv, SearchTyped
<1>2. WalksEnd
  BY DEF TreeInv, WalksEnd
<1>3. PathIsWhatWasDone
  BY DEF TreeInv, PathIsWhatWasDone, Traced
<1>4. VisitsAddUp
  <2> SUFFICES ASSUME overlapped = {}, NEW i \in DOMAIN tree PROVE tree[i].visits >= VisitsOf(tree, tree[i].kids)
    BY DEF VisitsAddUp
  <2>1. PICK s \in Searches : Grown(tree, nodeCounter, s) /\ Summed(tree, nodeCounter)
    BY DEF TreeInv
  <2> QED
    BY <2>1, VisitsAreSummed
<1> QED
  BY <1>1, <1>2, <1>3, <1>4
=============================================================================
