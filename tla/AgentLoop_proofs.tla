-------------------------- MODULE AgentLoop_proofs --------------------------
(***************************************************************************)
(* Proofs about AgentLoop.tla, for any tools, turns and limits.            *)
(***************************************************************************)
EXTENDS AgentLoop, Induction, SequenceTheorems

-----------------------------------------------------------------------------
(* The batches of a turn.                                                  *)

BatchSeq == Seq([parallel : BOOLEAN, calls : SUBSET Nat])

\* What the loop of planToolBatches makes of its list for call i.
Grown(asked, toRun, bs, i) == IF i \in toRun THEN Placed(asked, bs, i) ELSE bs

\* The plan of the first k calls: they are split up in order, neighbours that share
\* a batch only read, and every other batch has one call.
Planned(asked, toRun, k, bs) ==
    /\ bs \in BatchSeq
    /\ \A p \in DOMAIN bs : \A i \in bs[p].calls : i \in toRun /\ i <= k
    /\ \A i \in toRun : i <= k => \E p \in DOMAIN bs : i \in bs[p].calls
    /\ \A p \in DOMAIN bs : IF bs[p].parallel THEN \A i \in bs[p].calls : asked[i] \in ReadTools
                                              ELSE \A i, j \in bs[p].calls : i = j
    /\ \A p, q \in DOMAIN bs : p < q => \A i \in bs[p].calls, j \in bs[q].calls : i < j

\* The last element of a sequence and those before it.
LEMMA LastFront ==
    ASSUME NEW B, NEW bs \in Seq(B), bs # <<>>
    PROVE  /\ Len(bs) \in Nat \ {0} /\ Last(bs) = bs[Len(bs)] /\ Last(bs) \in B
           /\ Front(bs) \in Seq(B) /\ Len(Front(bs)) = Len(bs) - 1
           /\ \A p \in 1 .. Len(bs) - 1 : Front(bs)[p] = bs[p]
<1>1. PICK n \in Nat \ {0} : n = Len(bs)
  OBVIOUS
<1>2. \A p \in 1 .. n : bs[p] \in B
  BY <1>1
<1>3. /\ n - 1 = IF 1 <= n - 1 THEN (n - 1) - 1 + 1 ELSE 0
      /\ 1 .. (n - 1) - 1 + 1 = 1 .. n - 1 /\ 1 .. n - 1 \subseteq 1 .. n
      /\ \A p \in 1 .. n - 1 : 1 + p - 1 = p
  OBVIOUS
<1>4. Front(bs) \in Seq(B) /\ Len(Front(bs)) = n - 1 /\ \A p \in 1 .. n - 1 : Front(bs)[p] = bs[p]
  BY <1>1, <1>2, <1>3, SubSeqProperties DEF Front
<1> QED
  BY <1>1, <1>2, <1>4 DEF Last

\* A call placed in a list of batches leaves a list of batches.
LEMMA GrownType ==
    ASSUME NEW asked, NEW toRun, NEW bs \in BatchSeq, NEW i \in Nat
    PROVE  Grown(asked, toRun, bs, i) \in BatchSeq
<1> DEFINE B == [parallel : BOOLEAN, calls : SUBSET Nat]
<1>1. IsParallelSafe(asked[i]) \in BOOLEAN
  BY DEF IsParallelSafe
<1>2. [parallel |-> IsParallelSafe(asked[i]), calls |-> {i}] \in B
  BY <1>1
<1>3. ASSUME bs # <<>>
      PROVE  Front(bs) \in Seq(B) /\ [parallel |-> TRUE, calls |-> Last(bs).calls \cup {i}] \in B
  BY <1>3, LastFront DEF BatchSeq
<1> HIDE DEF B
<1>4. bs \in Seq(B)
  BY DEF B, BatchSeq
<1>5. Grown(asked, toRun, bs, i) \in Seq(B)
  BY <1>2, <1>3, <1>4 DEF Grown, Placed
<1> QED
  BY <1>5 DEF B, BatchSeq

\* The plan is what the loop makes of the empty list, one call after the other.
LEMMA PlanChain ==
    ASSUME NEW S, NEW asked \in Seq(S), NEW toRun
    PROVE  \E f : /\ f[0] = <<>>
                  /\ \A k \in 1 .. Len(asked) : f[k] = Grown(asked, toRun, f[k - 1], k)
                  /\ PlanToolBatches(asked, toRun) = f[Len(asked)]
<1>0. PICK base : base = <<>>
  OBVIOUS
<1> DEFINE n == Len(asked)
           id == [i \in DOMAIN asked |-> i]
           F == [p \in BatchSeq \X (1 .. n) |-> Grown(asked, toRun, p[1], p[2])]
           Rec(h) == [s \in SUBSET (DOMAIN id) |-> IF s = {} THEN <<>>
                        ELSE IF id[Max(s)] \in toRun THEN Placed(asked, h[s \ {Max(s)}], id[Max(s)])
                             ELSE h[s \ {Max(s)}]]
           h0 == CHOOSE h : h = Rec(h)
<1>1. \A v \in BatchSeq : \A k \in 1 .. n : F[<<v, k>>] \in BatchSeq
  BY GrownType
<1>2. n \in Nat /\ base \in BatchSeq
  BY <1>0 DEF BatchSeq
<1>3. DOMAIN asked = 1 .. n /\ DOMAIN id = 1 .. n /\ \A i \in 1 .. n : id[i] = i
  OBVIOUS
<1> HIDE DEF n
<1>4. PICK h : IsFold(n, BatchSeq, base, F, h)
  <2> HIDE DEF F
  <2> QED
    BY <1>1, <1>2, FoldExists
<1>5. \A s \in SUBSET (1 .. n) : s # {} => Max(s) \in 1 .. n /\ s \ {Max(s)} \in SUBSET (1 .. n)
  BY <1>2, IndexSets
<1>6. \A hh : Rec(hh) = [s \in SUBSET (1 .. n) |-> IF s = {} THEN <<>>
                           ELSE Grown(asked, toRun, hh[s \ {Max(s)}], Max(s))]
  <2> HIDE DEF id
  <2> QED
    BY <1>3, <1>5 DEF Grown
<1>7. h0 = Rec(h0)
  <2>1. h = [s \in SUBSET (1 .. n) |-> IF s = {} THEN <<>>
               ELSE Grown(asked, toRun, h[s \ {Max(s)}], Max(s))]
    BY <1>0, <1>4, <1>5 DEF Folded, IsFold
  <2> HIDE DEF Rec
  <2>2. h = Rec(h)
    BY <1>6, <2>1
  <2>3. \E hh : hh = Rec(hh)
    BY <2>2
  <2> QED
    BY <2>3
<1>8. PlanToolBatches(asked, toRun) = h0[1 .. n]
  <2>1. PlanToolBatches(asked, toRun) = h0[DOMAIN id]
    BY DEF PlanToolBatches, FoldLeftDomain, FoldLeft, MapThenFoldSet
  <2> QED
    BY <2>1, <1>3
<1> HIDE DEF h0
<1>9. \A s \in SUBSET (1 .. n) :
         h0[s] = IF s = {} THEN <<>> ELSE Grown(asked, toRun, h0[s \ {Max(s)}], Max(s))
  <2>1. h0 = [s \in SUBSET (1 .. n) |-> IF s = {} THEN <<>>
                ELSE Grown(asked, toRun, h0[s \ {Max(s)}], Max(s))]
    BY <1>6, <1>7
  <2> QED
    BY <2>1
<1> DEFINE f == [k \in 0 .. n |-> h0[1 .. k]]
<1>10. \A k \in 0 .. n : f[k] = h0[1 .. k]
  OBVIOUS
<1> HIDE DEF f
<1>11. 0 \in 0 .. n /\ n \in 0 .. n /\ \A k \in 1 .. n : k - 1 \in 0 .. n /\ k \in 0 .. n
  BY <1>2
<1>12. \A k \in 1 .. n : /\ Max(1 .. k) = k /\ (1 .. k) \ {k} = 1 .. k - 1
                         /\ 1 .. k # {} /\ 1 .. k \in SUBSET (1 .. n)
  BY <1>2, IndexSets
<1>13. f[0] = <<>>
  BY <1>9, <1>10, <1>11, IndexSets
<1>14. ASSUME NEW k \in 1 .. n PROVE f[k] = Grown(asked, toRun, f[k - 1], k)
  <2>1. f[k] = h0[1 .. k] /\ f[k - 1] = h0[1 .. k - 1]
    BY <1>10, <1>11
  <2>2. h0[1 .. k] = Grown(asked, toRun, h0[(1 .. k) \ {Max(1 .. k)}], Max(1 .. k))
    BY <1>9, <1>12
  <2> QED
    BY <1>12, <2>1, <2>2
<1> QED
  BY <1>8, <1>10, <1>11, <1>13, <1>14 DEF n

\* A call placed after those before it leaves a plan.
LEMMA GrownPlan ==
    ASSUME NEW asked, NEW toRun \in SUBSET (Nat \ {0}), NEW k \in Nat \ {0}, NEW bs,
           Planned(asked, toRun, k - 1, bs)
    PROVE  Planned(asked, toRun, k, Grown(asked, toRun, bs, k))
<1> DEFINE B == [parallel : BOOLEAN, calls : SUBSET Nat]
           cs == Grown(asked, toRun, bs, k)
<1>1. bs \in Seq(B) /\ cs \in BatchSeq
  BY GrownType DEF Planned, BatchSeq
<1>2. PICK n \in Nat : n = Len(bs) /\ DOMAIN bs = 1 .. n
  BY <1>1
<1>4. /\ \A p \in 1 .. n : \A i \in bs[p].calls : i \in toRun /\ i \in Nat /\ i <= k - 1
      /\ \A i \in toRun : i <= k - 1 => \E p \in 1 .. n : i \in bs[p].calls
      /\ \A p \in 1 .. n : IF bs[p].parallel THEN \A i \in bs[p].calls : asked[i] \in ReadTools
                                             ELSE \A i, j \in bs[p].calls : i = j
      /\ \A p, q \in 1 .. n : p < q => \A i \in bs[p].calls, j \in bs[q].calls : i < j
  BY <1>2 DEF Planned
<1>5. \A i \in toRun : i <= k <=> i <= k - 1 \/ i = k
  OBVIOUS
<1>6. CASE k \notin toRun
  <2>1. cs = bs
    BY <1>6 DEF Grown
  <2>2. /\ \A p \in 1 .. n : \A i \in bs[p].calls : i \in toRun /\ i <= k
        /\ \A i \in toRun : i <= k => \E p \in 1 .. n : i \in bs[p].calls
    BY <1>4, <1>5, <1>6
  <2> QED
    BY <1>1, <1>2, <1>4, <2>1, <2>2 DEF Planned
<1>7. CASE k \in toRun /\ IsParallelSafe(asked[k]) /\ bs # <<>> /\ Last(bs).parallel
  <2> DEFINE b == [parallel |-> TRUE, calls |-> Last(bs).calls \cup {k}]
  <2>1. /\ n # 0 /\ Last(bs) = bs[n] /\ Last(bs) \in B
        /\ Front(bs) \in Seq(B) /\ Len(Front(bs)) = n - 1
        /\ \A p \in 1 .. n - 1 : Front(bs)[p] = bs[p]
    BY <1>1, <1>2, <1>7, LastFront, ZenonT(30)
  <2>2. b.parallel = TRUE /\ b.calls = bs[n].calls \cup {k} /\ b \in B
    BY <2>1
  <2>3. cs = Append(Front(bs), b)
    BY <1>7 DEF Grown, Placed
  <2> HIDE DEF cs, B, b
  <2>4. Len(cs) = n /\ DOMAIN cs = 1 .. n /\ cs[n] = b /\ \A p \in 1 .. n - 1 : cs[p] = bs[p]
    BY <1>2, <2>1, <2>2, <2>3
  <2>5. \A p \in 1 .. n : /\ p = n => cs[p].calls = bs[p].calls \cup {k}
                          /\ p # n => cs[p] = bs[p] /\ p \in 1 .. n - 1
    BY <2>1, <2>2, <2>4
  <2>6. \A p \in 1 .. n : \A i \in cs[p].calls : i \in toRun /\ i <= k
    BY <1>4, <1>5, <1>7, <2>5
  <2>7. ASSUME NEW i \in toRun, i <= k PROVE \E p \in 1 .. n : i \in cs[p].calls
    <3>1. CASE i = k
      BY <2>1, <2>5, <3>1
    <3>2. CASE i # k
      <4>1. PICK p \in 1 .. n : i \in bs[p].calls
        BY <1>4, <1>5, <2>7, <3>2
      <4> QED
        BY <2>5, <4>1
    <3> QED
      BY <3>1, <3>2
  <2>8. ASSUME NEW p \in 1 .. n
        PROVE  IF cs[p].parallel THEN \A i \in cs[p].calls : asked[i] \in ReadTools
                                 ELSE \A i, j \in cs[p].calls : i = j
    <3>1. CASE p = n
      <4>1. \A i \in bs[n].calls : asked[i] \in ReadTools
        BY <1>4, <1>7, <2>1, <3>1
      <4>2. asked[k] \in ReadTools
        BY <1>7 DEF IsParallelSafe
      <4> QED
        BY <2>2, <2>4, <3>1, <4>1, <4>2
    <3>2. CASE p # n
      BY <1>4, <2>5, <3>2
    <3> QED
      BY <3>1, <3>2
  <2>9. ASSUME NEW p \in 1 .. n, NEW q \in 1 .. n, p < q, NEW i \in cs[p].calls, NEW j \in cs[q].calls
        PROVE  i < j
    <3>1. p # n /\ i \in bs[p].calls
      BY <2>5, <2>9
    <3>2. i \in Nat /\ i <= k - 1
      BY <1>4, <3>1
    <3>3. j = k \/ j \in bs[q].calls
      BY <2>5, <2>9
    <3>4. CASE j = k
      BY <3>2, <3>4
    <3>5. CASE j \in bs[q].calls
      BY <1>4, <2>9, <3>1, <3>5
    <3> QED
      BY <3>3, <3>4, <3>5
  <2> QED
    <3>1. Planned(asked, toRun, k, cs)
      BY <1>1, <2>4, <2>6, <2>7, <2>8, <2>9 DEF Planned
    <3> QED
      BY <3>1 DEF cs
<1>8. CASE k \in toRun /\ ~(IsParallelSafe(asked[k]) /\ bs # <<>> /\ Last(bs).parallel)
  <2> DEFINE b == [parallel |-> IsParallelSafe(asked[k]), calls |-> {k}]
  <2>1. b.parallel = IsParallelSafe(asked[k]) /\ b.calls = {k} /\ b \in B
    BY DEF IsParallelSafe
  <2>2. cs = Append(bs, b)
    BY <1>8 DEF Grown, Placed
  <2> HIDE DEF cs, B, b
  <2>3. Len(cs) = n + 1 /\ DOMAIN cs = 1 .. n + 1 /\ cs[n + 1] = b /\ \A p \in 1 .. n : cs[p] = bs[p]
    BY <1>1, <1>2, <2>1, <2>2
  <2>4. \A p \in 1 .. n + 1 : /\ p = n + 1 => cs[p].calls = {k} /\ cs[p] = b
                              /\ p # n + 1 => cs[p] = bs[p] /\ p \in 1 .. n
    BY <1>2, <2>1, <2>3
  <2>5. \A p \in 1 .. n + 1 : \A i \in cs[p].calls : i \in toRun /\ i <= k
    BY <1>4, <1>5, <1>8, <2>4
  <2>6. ASSUME NEW i \in toRun, i <= k PROVE \E p \in 1 .. n + 1 : i \in cs[p].calls
    <3>1. CASE i = k
      BY <2>4, <3>1
    <3>2. CASE i # k
      <4>1. PICK p \in 1 .. n : i \in bs[p].calls
        BY <1>4, <1>5, <2>6, <3>2
      <4>2. p \in 1 .. n + 1 /\ p # n + 1
        OBVIOUS
      <4> QED
        BY <2>4, <4>1, <4>2
    <3> QED
      BY <3>1, <3>2
  <2>7. ASSUME NEW p \in 1 .. n + 1
        PROVE  IF cs[p].parallel THEN \A i \in cs[p].calls : asked[i] \in ReadTools
                                 ELSE \A i, j \in cs[p].calls : i = j
    <3>1. CASE p = n + 1
      BY <2>1, <2>4, <3>1 DEF IsParallelSafe
    <3>2. CASE p # n + 1
      BY <1>4, <2>4, <3>2
    <3> QED
      BY <3>1, <3>2
  <2>8. ASSUME NEW p \in 1 .. n + 1, NEW q \in 1 .. n + 1, p < q,
               NEW i \in cs[p].calls, NEW j \in cs[q].calls
        PROVE  i < j
    <3>1. p \in 1 .. n /\ i \in bs[p].calls
      BY <2>4, <2>8
    <3>2. i \in Nat /\ i <= k - 1
      BY <1>4, <3>1
    <3>3. j = k \/ (q \in 1 .. n /\ j \in bs[q].calls)
      BY <2>4, <2>8
    <3>4. CASE j = k
      BY <3>2, <3>4
    <3>5. CASE q \in 1 .. n /\ j \in bs[q].calls
      BY <1>4, <2>8, <3>1, <3>5
    <3> QED
      BY <3>3, <3>4, <3>5
  <2> QED
    <3>1. Planned(asked, toRun, k, cs)
      BY <1>1, <2>3, <2>5, <2>6, <2>7, <2>8 DEF Planned
    <3> QED
      BY <3>1 DEF cs
<1> QED
  BY <1>6, <1>7, <1>8

\* planToolBatches (src/src/tools/tool.ts): every call to be run is in one batch and
\* no other, the batches keep the order of the calls, and one that holds more than
\* one call holds only tools that are known to read.
THEOREM PlanIsOrderedPartition ==
    ASSUME NEW S, NEW asked \in Seq(S), NEW toRun \in SUBSET DOMAIN asked
    PROVE  Planned(asked, toRun, Len(asked), PlanToolBatches(asked, toRun))
<1>1. PICK f : /\ f[0] = <<>>
               /\ \A k \in 1 .. Len(asked) : f[k] = Grown(asked, toRun, f[k - 1], k)
               /\ PlanToolBatches(asked, toRun) = f[Len(asked)]
  BY PlanChain
<1>2. PICK n \in Nat : n = Len(asked)
  OBVIOUS
<1>3. toRun \in SUBSET (Nat \ {0})
  BY <1>2
<1> DEFINE T == {k \in 0 .. n : Planned(asked, toRun, k, f[k])}
<1>4. 0 \in T
  <2>1. <<>> \in BatchSeq /\ \A i \in toRun : ~(i <= 0)
    BY <1>3 DEF BatchSeq
  <2>2. Planned(asked, toRun, 0, <<>>)
    BY <2>1 DEF Planned
  <2> QED
    BY <1>1, <1>2, <2>2
<1>5. ASSUME NEW k \in 1 .. n, k - 1 \in T PROVE k \in T
  BY <1>1, <1>2, <1>3, <1>5, GrownPlan
<1>6. 0 .. n \subseteq T
  <2> HIDE DEF T
  <2> QED
    BY <1>2, <1>4, <1>5, BoundedInduction
<1>7. n \in T
  BY <1>6
<1> QED
  BY <1>1, <1>2, <1>7
-----------------------------------------------------------------------------
(* The repetition guard.                                                   *)

Outcomes == {"none", "ok", "error", "raw"}
Sigs == [Names -> [result : Outcomes, count : Nat]]

\* What the repetition guard needs to be defined: calls of known names, results for
\* all of them.
Countable == sigSeen \in Sigs /\ turn \in Seq(Names) /\ slots \in [DOMAIN turn -> Outcomes]

\* Looking at one call leaves the guard's table well formed.
LEMMA SeenType ==
    ASSUME Countable, NEW seen \in Sigs, NEW i \in 1 .. Len(turn)
    PROVE  /\ Seen(seen, i) \in Sigs
           /\ \A name \in Names \ {turn[i]} : Seen(seen, i)[name] = seen[name]
<1>1. turn[i] \in Names /\ slots[i] \in Outcomes
  BY DEF Countable
<1>2. seen[turn[i]].count \in Nat
  BY <1>1 DEF Sigs
<1>3. [result |-> slots[i],
       count |-> IF seen[turn[i]].result = slots[i] THEN seen[turn[i]].count + 1 ELSE 1]
        \in [result : Outcomes, count : Nat]
  BY <1>1, <1>2
<1> QED
  BY <1>1, <1>3 DEF Seen, Sigs

\* The guard's table after n calls is what becomes of the first table, one call
\* after the other.
LEMMA SeenSteps ==
    ASSUME Countable, NEW n \in 0 .. Len(turn)
    PROVE  \E f : /\ f[0] = sigSeen
                  /\ \A k \in 1 .. n : f[k] = Seen(f[k - 1], k)
                  /\ SeenUpTo(n) = f[n]
<1> DEFINE id == [i \in 1 .. n |-> i]
           F == [p \in Sigs \X (1 .. n) |-> Seen(p[1], p[2])]
           Rec(h) == [s \in SUBSET (DOMAIN id) |-> IF s = {} THEN sigSeen
                        ELSE Seen(h[s \ {Max(s)}], id[Max(s)])]
           h0 == CHOOSE h : h = Rec(h)
<1>1. n \in Nat /\ sigSeen \in Sigs /\ 1 .. n \subseteq 1 .. Len(turn)
  BY DEF Countable
<1>2. \A v \in Sigs : \A k \in 1 .. n : F[<<v, k>>] \in Sigs
  BY <1>1, SeenType
<1>3. DOMAIN id = 1 .. n /\ \A i \in 1 .. n : id[i] = i
  OBVIOUS
<1>4. PICK h : IsFold(n, Sigs, sigSeen, F, h)
  <2> HIDE DEF F
  <2> QED
    BY <1>1, <1>2, FoldExists
<1>5. \A s \in SUBSET (1 .. n) : s # {} => Max(s) \in 1 .. n /\ s \ {Max(s)} \in SUBSET (1 .. n)
  BY <1>1, IndexSets
<1>6. \A hh : Rec(hh) = [s \in SUBSET (1 .. n) |-> IF s = {} THEN sigSeen
                           ELSE Seen(hh[s \ {Max(s)}], Max(s))]
  <2> HIDE DEF id
  <2> QED
    BY <1>3, <1>5
<1>7. h0 = Rec(h0)
  <2>1. h = [s \in SUBSET (1 .. n) |-> IF s = {} THEN sigSeen ELSE Seen(h[s \ {Max(s)}], Max(s))]
    BY <1>4, <1>5 DEF Folded, IsFold
  <2> HIDE DEF Rec
  <2>2. h = Rec(h)
    BY <1>6, <2>1
  <2>3. \E hh : hh = Rec(hh)
    BY <2>2
  <2> QED
    BY <2>3
<1>8. SeenUpTo(n) = h0[1 .. n]
  <2>1. SeenUpTo(n) = h0[DOMAIN id]
    BY DEF SeenUpTo, FoldLeft, MapThenFoldSet
  <2> QED
    BY <2>1, <1>3
<1> HIDE DEF h0
<1>9. \A s \in SUBSET (1 .. n) :
         h0[s] = IF s = {} THEN sigSeen ELSE Seen(h0[s \ {Max(s)}], Max(s))
  <2>1. h0 = [s \in SUBSET (1 .. n) |-> IF s = {} THEN sigSeen
                ELSE Seen(h0[s \ {Max(s)}], Max(s))]
    BY <1>6, <1>7
  <2> QED
    BY <2>1
<1> DEFINE f == [k \in 0 .. n |-> h0[1 .. k]]
<1>10. \A k \in 0 .. n : f[k] = h0[1 .. k]
  OBVIOUS
<1> HIDE DEF f
<1>11. 0 \in 0 .. n /\ n \in 0 .. n /\ \A k \in 1 .. n : k - 1 \in 0 .. n /\ k \in 0 .. n
  BY <1>1
<1>12. \A k \in 1 .. n : /\ Max(1 .. k) = k /\ (1 .. k) \ {k} = 1 .. k - 1
                         /\ 1 .. k # {} /\ 1 .. k \in SUBSET (1 .. n)
  BY <1>1, IndexSets
<1>13. f[0] = sigSeen
  BY <1>9, <1>10, <1>11, IndexSets
<1>14. ASSUME NEW k \in 1 .. n PROVE f[k] = Seen(f[k - 1], k)
  <2>1. f[k] = h0[1 .. k] /\ f[k - 1] = h0[1 .. k - 1]
    BY <1>10, <1>11
  <2>2. h0[1 .. k] = Seen(h0[(1 .. k) \ {Max(1 .. k)}], Max(1 .. k))
    BY <1>9, <1>12
  <2> QED
    BY <1>12, <2>1, <2>2
<1> QED
  BY <1>8, <1>10, <1>11, <1>13, <1>14

\* The same as a recursion over the calls of the turn.
LEMMA SeenChain ==
    ASSUME Countable
    PROVE  /\ SeenUpTo(0) = sigSeen
           /\ \A k \in 1 .. Len(turn) : SeenUpTo(k) = Seen(SeenUpTo(k - 1), k)
           /\ \A k \in 0 .. Len(turn) : SeenUpTo(k) \in Sigs
<1>1. PICK n \in Nat : n = Len(turn)
  BY DEF Countable
<1>2. PICK f : /\ f[0] = sigSeen
               /\ \A k \in 1 .. n : f[k] = Seen(f[k - 1], k)
  <2>1. n \in 0 .. Len(turn)
    BY <1>1
  <2> QED
    BY <2>1, SeenSteps
<1>3. ASSUME NEW k \in 0 .. n PROVE SeenUpTo(k) = f[k]
  <2>1. PICK g : /\ g[0] = sigSeen
                 /\ \A j \in 1 .. k : g[j] = Seen(g[j - 1], j)
                 /\ SeenUpTo(k) = g[k]
    BY <1>1, SeenSteps
  <2> DEFINE T == {j \in 0 .. k : g[j] = f[j]}
  <2>2. 0 \in T
    BY <1>2, <2>1
  <2>3. \A j \in 1 .. k : j - 1 \in T => j \in T
    BY <1>2, <2>1
  <2>4. k \in T
    <3> HIDE DEF T
    <3>1. k \in Nat /\ k \in 0 .. k
      OBVIOUS
    <3> QED
      BY <2>2, <2>3, <3>1, BoundedInduction
  <2> QED
    BY <2>1, <2>4
<1>4. \A k \in 0 .. n : SeenUpTo(k) \in Sigs
  <2> DEFINE T == {k \in 0 .. n : f[k] \in Sigs}
  <2>1. 0 \in T
    BY <1>2 DEF Countable
  <2>2. \A k \in 1 .. n : k - 1 \in T => k \in T
    BY <1>1, <1>2, SeenType
  <2>3. 0 .. n \subseteq T
    <3> HIDE DEF T
    <3> QED
      BY <2>1, <2>2, BoundedInduction
  <2> QED
    BY <1>3, <2>3
<1>5. \A k \in 1 .. n : k \in 0 .. n /\ k - 1 \in 0 .. n
  OBVIOUS
<1> QED
  BY <1>1, <1>2, <1>3, <1>4, <1>5

\* A turn that is not stuck leaves no call with MaxIdenticalCalls results in a row.
LEMMA NotStuckBound ==
    ASSUME Countable, ~Stuck, \A name \in Names : sigSeen[name].count < MaxIdenticalCalls
    PROVE  \A name \in Names : SeenUpTo(Len(turn))[name].count < MaxIdenticalCalls
<1>1. PICK n \in Nat : n = Len(turn) /\ DOMAIN turn = 1 .. n
  BY DEF Countable
<1> DEFINE Low(k) == \A name \in Names : SeenUpTo(k)[name].count < MaxIdenticalCalls
           T == {k \in 0 .. n : Low(k)}
<1>2. 0 \in T
  BY SeenChain
<1>3. ASSUME NEW k \in 1 .. n, k - 1 \in T PROVE k \in T
  <2>1. SeenUpTo(k) = Seen(SeenUpTo(k - 1), k) /\ SeenUpTo(k) \in Sigs /\ SeenUpTo(k - 1) \in Sigs
    BY <1>1, SeenChain
  <2>2. ASSUME NEW name \in Names PROVE SeenUpTo(k)[name].count < MaxIdenticalCalls
    <3>1. CASE name = turn[k]
      <4>1. SeenUpTo(k)[name].count \in Nat
        BY <2>1 DEF Sigs
      <4>2. ~(SeenUpTo(k)[turn[k]].count >= MaxIdenticalCalls)
        BY <1>1 DEF Stuck
      <4> QED
        BY <3>1, <4>1, <4>2 DEF MaxIdenticalCalls
    <3>2. CASE name # turn[k]
      <4>1. SeenUpTo(k)[name] = SeenUpTo(k - 1)[name]
        BY <1>1, <2>1, <3>2, SeenType
      <4> QED
        BY <1>3, <4>1
    <3> QED
      BY <3>1, <3>2
  <2> QED
    BY <2>2
<1>4. n \in T
  <2> HIDE DEF T
  <2>1. n \in 0 .. n
    OBVIOUS
  <2> QED
    BY <1>2, <1>3, <2>1, BoundedInduction
<1> QED
  BY <1>1, <1>4
-----------------------------------------------------------------------------
(* The transcript.                                                         *)

Message == [role : {"system", "user", "assistant", "tool"}, step : 0 .. MaxSteps, n : Nat]

\* A transcript starts with two messages that no call asks for or answers.
Headed(msgs) == Len(msgs) >= 2 /\ \A k \in {1, 2} : msgs[k].role \in {"system", "user"}

\* One paired transcript after the other is paired.
LEMMA PairedConcat ==
    ASSUME NEW a \in Seq(Message), NEW b \in Seq(Message), Paired(a), Paired(b)
    PROVE  Paired(a \o b)
<1>1. PICK la \in Nat : la = Len(a) /\ DOMAIN a = 1 .. la
  OBVIOUS
<1>2. PICK lb \in Nat : lb = Len(b) /\ DOMAIN b = 1 .. lb
  OBVIOUS
<1> DEFINE c == a \o b
<1>3. /\ DOMAIN c = 1 .. la + lb
      /\ \A k \in 1 .. la : c[k] = a[k]
      /\ \A k \in la + 1 .. la + lb : c[k] = b[k - la] /\ k - la \in 1 .. lb
  BY <1>1, <1>2
<1>4. /\ \A k \in 1 .. la : a[k].n \in Nat
      /\ \A k \in 1 .. lb : b[k].n \in Nat
  <2>1. (\A k \in 1 .. la : a[k] \in Message) /\ \A k \in 1 .. lb : b[k] \in Message
    BY <1>1, <1>2
  <2> QED
    BY <2>1 DEF Message
<1> HIDE DEF c
<1>5. ASSUME NEW k \in 1 .. la + lb, c[k].role = "assistant", NEW i \in 1 .. c[k].n
      PROVE  k + i \in 1 .. la + lb /\ c[k + i] = Answers(c[k].step, i)
  <2>1. CASE k \in 1 .. la
    <3>1. i \in 1 .. a[k].n /\ i \in Nat
      BY <1>3, <1>4, <1>5, <2>1
    <3>2. k + i \in 1 .. la /\ a[k + i] = Answers(a[k].step, i)
      BY <1>1, <1>3, <1>5, <2>1, <3>1 DEF Paired
    <3> QED
      BY <1>3, <2>1, <3>2
  <2>2. CASE k \notin 1 .. la
    <3>1. k - la \in 1 .. lb /\ c[k] = b[k - la]
      BY <1>3, <2>2
    <3>2. i \in 1 .. b[k - la].n /\ i \in Nat
      BY <1>4, <1>5, <3>1
    <3>3. (k - la) + i \in 1 .. lb /\ b[(k - la) + i] = Answers(b[k - la].step, i)
      BY <1>2, <1>5, <3>1, <3>2 DEF Paired
    <3>4. k + i \in la + 1 .. la + lb /\ (k + i) - la = (k - la) + i
      BY <3>2, <3>3
    <3> QED
      BY <1>3, <3>1, <3>3, <3>4, SMTT(30)
  <2> QED
    BY <2>1, <2>2
<1>6. ASSUME NEW k \in 1 .. la + lb, c[k].role = "tool"
      PROVE  \E j \in 1 .. k - 1 : /\ c[j].role = "assistant" /\ k - j <= c[j].n
                                   /\ c[k] = Answers(c[j].step, k - j)
  <2>1. CASE k \in 1 .. la
    <3>1. PICK j \in 1 .. k - 1 : /\ a[j].role = "assistant" /\ k - j <= a[j].n
                                  /\ a[k] = Answers(a[j].step, k - j)
      BY <1>1, <1>3, <1>6, <2>1 DEF Paired
    <3>2. j \in 1 .. la
      BY <2>1
    <3> QED
      BY <1>3, <2>1, <3>1, <3>2
  <2>2. CASE k \notin 1 .. la
    <3>1. k - la \in 1 .. lb /\ c[k] = b[k - la]
      BY <1>3, <2>2
    <3>2. PICK j \in 1 .. (k - la) - 1 : /\ b[j].role = "assistant" /\ (k - la) - j <= b[j].n
                                         /\ b[k - la] = Answers(b[j].step, (k - la) - j)
      BY <1>2, <1>6, <3>1 DEF Paired
    <3>3. /\ j + la \in la + 1 .. la + lb /\ (j + la) - la = j
          /\ j + la \in 1 .. k - 1 /\ k - (j + la) = (k - la) - j
      BY <3>1
    <3> QED
      BY <1>3, <3>1, <3>2, <3>3
  <2> QED
    BY <2>1, <2>2
<1>7. Paired(c)
  BY <1>3, <1>5, <1>6 DEF Paired
<1> QED
  BY <1>7 DEF c

\* Texts are paired, and so is a call of the model with all of its answers.
LEMMA PairedPieces ==
    /\ Paired(<<>>)
    /\ \A role \in {"system", "user", "assistant"} : <<Text(role)>> \in Seq(Message) /\ Paired(<<Text(role)>>)
    /\ \A s \in 0 .. MaxSteps, n \in Nat : /\ <<Asks(s, n)>> \o Results(s, n) \in Seq(Message)
                                           /\ Paired(<<Asks(s, n)>> \o Results(s, n))
<1>1. Paired(<<>>)
  BY DEF Paired
<1>2. ASSUME NEW role \in {"system", "user", "assistant"}
      PROVE  <<Text(role)>> \in Seq(Message) /\ Paired(<<Text(role)>>)
  <2> DEFINE t == <<Text(role)>>
  <2>1. /\ DOMAIN t = {1} /\ t[1].role # "tool" /\ t[1].n = 0 /\ Text(role) \in Message
    BY LoopAssumption DEF Text, Message
  <2>2. t \in Seq(Message)
    BY <2>1
  <2> HIDE DEF t
  <2>3. Paired(t)
    BY <2>1 DEF Paired
  <2> QED
    BY <2>2, <2>3 DEF t
<1>3. ASSUME NEW s \in 0 .. MaxSteps, NEW n \in Nat
      PROVE  /\ <<Asks(s, n)>> \o Results(s, n) \in Seq(Message)
             /\ Paired(<<Asks(s, n)>> \o Results(s, n))
  <2> DEFINE c == <<Asks(s, n)>> \o Results(s, n)
  <2>1. Asks(s, n) \in Message /\ \A i \in 1 .. n : Answers(s, i) \in Message
    BY DEF Asks, Answers, Message
  <2>2. Results(s, n) \in Seq(Message) /\ Len(Results(s, n)) = n /\ \A i \in 1 .. n : Results(s, n)[i] = Answers(s, i)
    BY <2>1 DEF Results
  <2>3. c \in Seq(Message) /\ DOMAIN c = 1 .. n + 1 /\ c[1] = Asks(s, n)
    BY <2>1, <2>2
  <2>4. \A i \in 1 .. n : i + 1 \in 1 .. n + 1 /\ c[i + 1] = Answers(s, i)
    BY <2>1, <2>2
  <2> HIDE DEF c
  <2>5. \A k \in 1 .. n + 1 : k = 1 \/ (k - 1 \in 1 .. n /\ c[k] = Answers(s, k - 1))
    BY <2>4
  <2>6. /\ c[1].role = "assistant" /\ c[1].n = n /\ c[1].step = s
        /\ \A k \in 1 .. n + 1 : k # 1 => c[k].role = "tool"
    BY <2>3, <2>5 DEF Asks, Answers
  <2>7. Paired(c)
    <3>1. ASSUME NEW k \in 1 .. n + 1, c[k].role = "assistant", NEW i \in 1 .. c[k].n
          PROVE  k + i \in 1 .. n + 1 /\ c[k + i] = Answers(c[k].step, i)
      <4>1. k = 1 /\ i \in 1 .. n
        BY <2>6, <3>1
      <4> QED
        BY <2>4, <2>6, <4>1
    <3>2. ASSUME NEW k \in 1 .. n + 1, c[k].role = "tool"
          PROVE  \E j \in 1 .. k - 1 : /\ c[j].role = "assistant" /\ k - j <= c[j].n
                                       /\ c[k] = Answers(c[j].step, k - j)
      <4>1. k # 1 /\ 1 \in 1 .. k - 1 /\ k - 1 <= n
        BY <2>6, <3>2
      <4> QED
        BY <2>5, <2>6, <4>1
    <3> QED
      BY <2>3, <3>1, <3>2 DEF Paired
  <2> QED
    BY <2>3, <2>7 DEF c
<1> QED
  BY <1>1, <1>2, <1>3

\* What is left of a paired transcript from a message on that is no tool result.
LEMMA PairedTail ==
    ASSUME NEW a \in Seq(Message), Paired(a), NEW q \in 1 .. Len(a), a[q].role # "tool"
    PROVE  Paired(SubSeq(a, q, Len(a)))
<1>1. PICK la \in Nat : la = Len(a) /\ DOMAIN a = 1 .. la /\ \A k \in 1 .. la : a[k] \in Message
  OBVIOUS
<1> DEFINE c == SubSeq(a, q, Len(a))
           lc == la - q + 1
<1>2. lc \in Nat /\ DOMAIN c = 1 .. lc /\ \A k \in 1 .. lc : c[k] = a[q + k - 1] /\ q + k - 1 \in 1 .. la
  BY <1>1
<1> HIDE DEF c
<1>3. ASSUME NEW k \in 1 .. lc, c[k].role = "assistant", NEW i \in 1 .. c[k].n
      PROVE  k + i \in 1 .. lc /\ c[k + i] = Answers(c[k].step, i)
  <2>1. q + k - 1 \in 1 .. la /\ c[k] = a[q + k - 1] /\ i \in Nat /\ i >= 1
    BY <1>1, <1>2 DEF Message
  <2>2. (q + k - 1) + i \in 1 .. la /\ a[(q + k - 1) + i] = Answers(c[k].step, i)
    BY <1>1, <1>3, <2>1 DEF Paired
  <2>3. k + i \in 1 .. lc /\ q + (k + i) - 1 = (q + k - 1) + i
    BY <1>1, <2>1, <2>2
  <2> QED
    BY <1>2, <2>2, <2>3
<1>4. ASSUME NEW k \in 1 .. lc, c[k].role = "tool"
      PROVE  \E j \in 1 .. k - 1 : /\ c[j].role = "assistant" /\ k - j <= c[j].n
                                   /\ c[k] = Answers(c[j].step, k - j)
  <2> DEFINE m == q + k - 1
  <2>1. m \in 1 .. la /\ c[k] = a[m]
    BY <1>2
  <2>2. PICK j \in 1 .. m - 1 : /\ a[j].role = "assistant" /\ m - j <= a[j].n
                                /\ a[m] = Answers(a[j].step, m - j)
    BY <1>1, <1>4, <2>1 DEF Paired
  <2>3. j >= q
    <3> SUFFICES ASSUME j < q PROVE FALSE
      BY <1>1
    <3>0. j \in 1 .. la /\ a[j].n \in Nat /\ m \in Nat /\ q <= m /\ m - j <= a[j].n
      BY <1>1, <2>1, <2>2, SMTT(30) DEF Message
    <3>1. q - j \in 1 .. a[j].n /\ j + (q - j) = q
      <4> HIDE DEF m
      <4>1. \A x, y, w, z \in Nat : x < y /\ y <= w /\ w - x <= z => y - x \in 1 .. z /\ x + (y - x) = y
        OBVIOUS
      <4>2. j \in Nat /\ q \in Nat /\ a[j].n \in Nat
        BY <3>0
      <4> QED
        BY <3>0, <4>1, <4>2
    <3>2. a[q] = Answers(a[j].step, q - j)
      BY <1>1, <2>2, <3>0, <3>1 DEF Paired
    <3> QED
      BY <3>2 DEF Answers
  <2>4. /\ j - q + 1 \in 1 .. lc /\ q + (j - q + 1) - 1 = j
        /\ j - q + 1 \in 1 .. k - 1 /\ k - (j - q + 1) = m - j
    BY <1>1, <2>1, <2>3
  <2> QED
    BY <1>2, <2>1, <2>2, <2>4
<1>5. Paired(c)
  BY <1>2, <1>3, <1>4 DEF Paired
<1> QED
  BY <1>5 DEF c

\* The suffix that gcMessages keeps is paired when the transcript was.
LEMMA PairedSuffix ==
    ASSUME NEW a \in Seq(Message), Len(a) >= 2, NEW keep \in Nat
    PROVE  Suffix(a, keep) \in Seq(Message) /\ (Paired(a) => Paired(Suffix(a, keep)))
<1> DEFINE p == IF Len(a) - keep > 2 THEN Len(a) - keep + 1 ELSE 3
           recent == SubSeq(a, p, Len(a))
           m == IF p <= Len(a) THEN Len(a) - p + 1 ELSE 0
           orphans == {i \in 1 .. Len(recent) : \A j \in 1 .. i : recent[j].role = "tool"}
<1>1. PICK la \in Nat : la = Len(a) /\ la >= 2 /\ DOMAIN a = 1 .. la /\ \A k \in 1 .. la : a[k] \in Message
  OBVIOUS
<1>2. p \in Nat /\ p >= 3 /\ m \in Nat /\ (p > la => m = 0) /\ (p <= la => m = la - p + 1)
  <2>1. p = IF la - keep > 2 THEN la - keep + 1 ELSE 3
    BY <1>1
  <2>2. m = IF p <= la THEN la - p + 1 ELSE 0
    BY <1>1
  <2> HIDE DEF p, m
  <2>3. p \in Nat /\ p >= 3
    BY <2>1
  <2> QED
    BY <2>2, <2>3
<1>3. \A k \in p .. la : a[k] \in Message
  BY <1>1, <1>2
<1> HIDE DEF p, m
<1>4. /\ recent \in Seq(Message) /\ Len(recent) = m
      /\ \A k \in 1 .. m : recent[k] = a[p + k - 1] /\ p + k - 1 \in 1 .. la
  <2>1. la - p + 1 = m \/ (m = 0 /\ 1 .. la - p + 1 = {})
    BY <1>1, <1>2
  <2>2. m = (IF p <= la THEN la - p + 1 ELSE 0) /\ p \in Int /\ la \in Int
    BY <1>1, <1>2
  <2>3. /\ recent \in Seq(Message) /\ Len(recent) = m
        /\ \A k \in 1 .. la - p + 1 : recent[k] = a[p + k - 1]
    BY <1>1, <1>3, <2>2, SubSeqProperties
  <2>4. ASSUME NEW k \in 1 .. m PROVE k \in 1 .. la - p + 1 /\ p + k - 1 \in 1 .. la
    <3>1. m # 0
      BY <1>2
    <3>2. m = la - p + 1
      BY <2>1, <3>1
    <3> QED
      BY <1>1, <1>2, <3>2
  <2> QED
    BY <2>3, <2>4, Zenon
<1> HIDE DEF recent
<1> DEFINE T == 1 .. m \ orphans
<1>5. Suffix(a, keep) = SubSeq(recent, Cardinality(orphans) + 1, Len(recent))
  BY DEF Suffix, recent, p
<1>6. CASE T = {}
  <2>1. orphans = 1 .. m /\ Cardinality(orphans) = m
    <3>1. orphans \subseteq 1 .. m
      BY <1>4
    <3> HIDE DEF orphans
    <3>2. orphans = 1 .. m
      BY <1>6, <3>1
    <3> QED
      BY <1>2, <3>2, FS_Interval
  <2>2. Suffix(a, keep) = <<>>
    <3> HIDE DEF orphans
    <3>1. m + 1 \in Int /\ m \in Int /\ m < m + 1
      BY <1>2
    <3> QED
      BY <1>4, <1>5, <2>1, <3>1, SubSeqEmpty
  <2> QED
    BY <2>2, PairedPieces
<1>7. CASE T # {}
  <2>1. PICK t \in T : \A k \in T : t <= k
    <3>1. T \in SUBSET Nat
      OBVIOUS
    <3> HIDE DEF T
    <3> QED
      BY <1>7, <3>1, LeastNat
  <2>2. t \in 1 .. m /\ t \notin orphans /\ \A k \in 1 .. m : k < t => k \in orphans
    BY <1>2, <2>1
  <2>3. \A k \in orphans : k \in 1 .. m /\ \A j \in 1 .. k : recent[j].role = "tool"
    BY <1>4
  <2>4. PICK j \in 1 .. t : recent[j].role # "tool"
    BY <1>4, <2>2
  <2>5. orphans = 1 .. t - 1
    <3>1. \A k \in orphans : k < t
      BY <2>2, <2>3, <2>4
    <3> HIDE DEF orphans
    <3>2. \A k \in 1 .. m : k \in orphans <=> k < t
      BY <2>2, <3>1
    <3>3. orphans \subseteq 1 .. m /\ t \in 1 .. m /\ \A k \in 1 .. m : k < t <=> k \in 1 .. t - 1
      BY <1>2, <2>2, <2>3
    <3>4. 1 .. t - 1 \subseteq 1 .. m
      BY <1>2, <3>3
    <3> QED
      BY <3>2, <3>3, <3>4
  <2>6. j = t
    <3> HIDE DEF orphans
    <3>1. j \in 1 .. m /\ (j < t => j \in orphans)
      BY <1>2, <2>2
    <3> QED
      BY <2>2, <2>3, <2>4, <3>1
  <2>7. Cardinality(orphans) = t - 1
    <3>1. t - 1 \in Nat
      BY <2>2
    <3> HIDE DEF orphans
    <3> QED
      BY <2>2, <2>5, <3>1, FS_Interval
  <2> HIDE DEF orphans
  <2> DEFINE q == p + t - 1
  <2>8. q \in 1 .. la /\ a[q].role # "tool"
    BY <1>4, <2>2, <2>4, <2>6
  <2>9. Suffix(a, keep) = SubSeq(a, q, la)
    <3>1. Suffix(a, keep) = SubSeq(recent, t, m)
      BY <1>4, <1>5, <2>2, <2>7
    <3>2. /\ SubSeq(recent, t, m) \in Seq(Message) /\ Len(SubSeq(recent, t, m)) = m - t + 1
          /\ \A k \in 1 .. m - t + 1 : SubSeq(recent, t, m)[k] = recent[t + k - 1]
      <4>1. t \in Int /\ m \in Int /\ t <= m /\ \A k \in t .. m : recent[k] \in Message
        BY <1>4, <2>2
      <4> QED
        BY <4>1, SubSeqProperties
    <3>3. /\ SubSeq(a, q, la) \in Seq(Message) /\ Len(SubSeq(a, q, la)) = la - q + 1
          /\ \A k \in 1 .. la - q + 1 : SubSeq(a, q, la)[k] = a[q + k - 1]
      <4>1. q \in Int /\ la \in Int /\ q <= la /\ \A k \in q .. la : a[k] \in Message
        BY <1>1, <2>8
      <4> HIDE DEF q
      <4> QED
        BY <4>1, SubSeqProperties
    <3>4. m - t + 1 = la - q + 1
      <4>1. p <= la
        BY <1>2, <2>2
      <4> QED
        BY <1>1, <1>2, <2>2, <4>1
    <3>5. \A k \in 1 .. m - t + 1 : recent[t + k - 1] = a[q + k - 1]
      <4>1. \A k \in 1 .. m - t + 1 : t + k - 1 \in 1 .. m /\ p + (t + k - 1) - 1 = q + k - 1
        BY <1>2, <2>2
      <4> QED
        BY <1>4, <4>1
    <3> HIDE DEF q
    <3>6. SubSeq(recent, t, m) = SubSeq(a, q, la)
      <4> DEFINE u == SubSeq(recent, t, m)
                 v == SubSeq(a, q, la)
      <4>1. Len(u) = Len(v) /\ \A k \in 1 .. Len(u) : u[k] = v[k]
        BY <3>2, <3>3, <3>4, <3>5
      <4>2. u \in Seq(Message) /\ v \in Seq(Message)
        BY <3>2, <3>3
      <4> HIDE DEF u, v
      <4>3. u = v
        BY <4>1, <4>2, SeqEqual
      <4> QED
        BY <4>3 DEF u, v
    <3> QED
      BY <3>1, <3>6
  <2> HIDE DEF q
  <2>10. SubSeq(a, q, la) \in Seq(Message)
    BY <1>1, <2>8
  <2> QED
    BY <1>1, <2>8, <2>9, <2>10, PairedTail
<1> QED
  BY <1>6, <1>7

\* What recoverContext sends in place of a transcript is one that the provider would
\* not refuse either, and keeps its head.
LEMMA RecoveredPaired ==
    ASSUME NEW a \in Seq(Message), Headed(a), NEW try \in Nat, NEW b \in Recovered(a, try)
    PROVE  b \in Seq(Message) /\ Headed(b) /\ (Paired(a) => Paired(b))
<1>1. CASE b = a
  BY <1>1
<1>2. CASE b # a
  <2>1. PICK keep \in {2, 4, 6} : b = SubSeq(a, 1, 2) \o Suffix(a, keep)
    BY <1>2 DEF Recovered
  <2> DEFINE h == SubSeq(a, 1, 2)
             t == Suffix(a, keep)
  <2>2. Len(a) \in Nat /\ Len(a) >= 2 /\ a[1] \in Message /\ a[2] \in Message
    BY DEF Headed
  <2>3. h \in Seq(Message) /\ Len(h) = 2 /\ h[1] = a[1] /\ h[2] = a[2]
    BY <2>2
  <2>4. t \in Seq(Message) /\ (Paired(a) => Paired(t))
    BY <2>2, PairedSuffix
  <2> HIDE DEF h, t
  <2>5. DOMAIN h = {1, 2}
    BY <2>3
  <2>6. Paired(h)
    BY <2>3, <2>5 DEF Paired, Headed
  <2>7. b = h \o t
    BY <2>1 DEF h, t
  <2>8. b \in Seq(Message) /\ Len(b) >= 2 /\ b[1] = a[1] /\ b[2] = a[2]
    <3>1. /\ b \in Seq(Message) /\ Len(b) = Len(h) + Len(t)
          /\ \A i \in 1 .. Len(h) + Len(t) : b[i] = IF i <= Len(h) THEN h[i] ELSE t[i - Len(h)]
      BY <2>3, <2>4, <2>7, ConcatProperties
    <3>2. Len(t) \in Nat
      BY <2>4
    <3> QED
      BY <2>3, <3>1, <3>2
  <2>9. Headed(b)
    BY <2>8 DEF Headed
  <2> QED
    BY <2>3, <2>4, <2>6, <2>7, <2>8, <2>9, PairedConcat
<1> QED
  BY <1>1, <1>2
-----------------------------------------------------------------------------
(* The inductive invariant.                                                *)

\* Where the loop is in its body, or in the last words of a goal it reached.
Looping == {"rails", "model", "batches", "final"}

\* The calls that are planned and not yet started.
Remaining == {i \in DOMAIN turn : \E p \in DOMAIN batches : i \in batches[p].calls}

Types == TypeOK /\ sigSeen \in Sigs /\ batches \in BatchSeq

\* A counter that is about to grow has not reached its limit, and what belongs to the
\* batches is empty when none are run.
Limits ==
    /\ pc \in Looping => truncatedTurns <= MaxTruncatedTurns
    /\ pc \in {"model", "batches"} => step < MaxSteps
    /\ pc = "batches" => toolResults + Len(turn) <= MaxToolCalls
    /\ pc = "completion" => usdCost = 0
    /\ pc # "batches" => running = {} /\ batches = <<>>

\* A request offers what was disclosed, and everything not withheld is disclosed.
Shown == toolSpecs = disclosed /\ Tools \ Deferred \subseteq disclosed

\* The batches to come keep the order of the calls, and only reads share one.
PlanSound ==
    /\ \A p \in DOMAIN batches : \/ \A i \in batches[p].calls : turn[i] \in ReadTools
                                 \/ \A i, j \in batches[p].calls : i = j
    /\ \A p, q \in DOMAIN batches :
          p < q => \A i \in batches[p].calls, j \in batches[q].calls : i < j

\* What was started, and what is still planned, is paid for by the results that are
\* counted against the cap, or will be when the turn is collected.
Budgeted ==
    /\ started <= MaxToolCalls
    /\ pc \in {"rails", "model"} => started <= toolResults
    /\ pc = "batches" => started + Cardinality(Remaining) <= toolResults + Len(turn)

\* A loop that goes on has seen no result too often.
Unstuck == pc \in Looping => \A name \in Names : sigSeen[name].count < MaxIdenticalCalls

\* The transcript is paired between turns, and lacks the answers of the current turn
\* while its tools run; what is sent was paired, unless its results were lost.
Transcript ==
    /\ Headed(messages)
    /\ pc \in Calling => Headed(request)
    /\ pc \in {"rails", "model", "final", "completion", "synthesis"} => Paired(messages)
    /\ pc = "left" => Paired(messages) \/ "raw" \in ToSet(slots)
    /\ pc = "batches" => /\ messages # <<>> /\ Headed(Front(messages)) /\ Paired(Front(messages))
                         /\ Last(messages) = Asks(step, Len(turn))
    /\ AlwaysPaired

IInv == /\ Types /\ Limits /\ Shown /\ PlanSound /\ WritersAlone /\ Budgeted
        /\ Unstuck /\ Transcript

\* The variables and limits of a well-typed state, as the proofs use them.
LEMMA TypeFacts ==
    ASSUME Types
    PROVE  /\ Countable
           /\ turn \in Seq(Names) /\ Len(turn) \in Nat /\ DOMAIN turn = 1 .. Len(turn)
           /\ messages \in Seq(Message) /\ request \in Seq(Message)
           /\ \A asked \in Turns : asked \in Seq(Names) /\ Len(asked) \in Nat /\ DOMAIN asked = 1 .. Len(asked)
           /\ MaxSteps \in Nat \ {0} /\ MaxToolCalls \in Nat \ {0} /\ MaxBudget \in Nat \ {0}
<1>1. ASSUME NEW asked \in Turns PROVE asked \in Seq(Names)
  <2>1. asked \in Seq(UNION {ToSet(t) : t \in Turns})
    BY LoopAssumption
  <2>2. UNION {ToSet(t) : t \in Turns} \subseteq Names
    BY DEF Names
  <2> QED
    BY <2>1, <2>2, SeqMonotonic
<1>2. turn \in Seq(Names)
  <2>1. turn \in Turns \/ turn = <<>>
    BY DEF Types, TypeOK
  <2> QED
    BY <1>1, <2>1, EmptySeq
<1>3. \A asked \in Seq(Names) : Len(asked) \in Nat /\ DOMAIN asked = 1 .. Len(asked)
  OBVIOUS
<1>4. messages \in Seq(Message) /\ request \in Seq(Message)
  BY DEF Types, TypeOK, Message
<1>5. Countable
  BY <1>2 DEF Countable, Types, TypeOK, Outcomes
<1> QED
  BY <1>1, <1>2, <1>3, <1>4, <1>5, LoopAssumption

\* The initial state satisfies the invariant.
LEMMA InitInvariant == Init => IInv
<1> SUFFICES ASSUME Init PROVE IInv
  OBVIOUS
<1>1. /\ MaxSteps \in Nat \ {0} /\ MaxToolCalls \in Nat \ {0} /\ MaxBudget \in Nat \ {0}
      /\ Deferred \subseteq Tools
  BY LoopAssumption
<1> DEFINE m == <<Text("system"), Text("user"), Text("assistant"), Text("user")>>
<1>2. m \in Seq(Message) /\ Len(m) = 4 /\ Headed(m) /\ Paired(m)
  <2>1. /\ DOMAIN m = 1 .. 4 /\ Len(m) = 4
        /\ \A k \in 1 .. 4 : m[k] \in Message /\ m[k].role # "tool" /\ m[k].n = 0
        /\ m[1].role = "system" /\ m[2].role = "user"
    BY <1>1 DEF Text, Message
  <2>2. m \in Seq(Message)
    BY <1>1 DEF Text, Message
  <2> HIDE DEF m
  <2> QED
    BY <2>1, <2>2 DEF Headed, Paired
<1>3. /\ messages = m /\ request \in {<<>>, m} /\ (pc = "completion" => request = m)
      /\ pc \in {"rails", "completion"}
  BY DEF Init
<1>4. /\ attempt = 0 /\ step = 0 /\ started = 0 /\ toolResults = 0
      /\ truncatedTurns = 0 /\ usdCost = 0
  BY DEF Init
<1>17. /\ stopReason = "max_iterations" /\ responseText = "" /\ aborted = FALSE
       /\ disclosed = Tools \ Deferred /\ toolSpecs = disclosed /\ running = {}
  BY DEF Init
<1>5. /\ turn = <<>> /\ slots = <<>> /\ batches = <<>>
      /\ sigSeen = [name \in Names |-> [result |-> "none", count |-> 0]]
  BY DEF Init
<1> HIDE DEF m
<1>6. \A msgs \in {messages, request} : msgs \in Seq(Message)
  BY <1>2, <1>3, EmptySeq
<1>7. slots \in [DOMAIN turn -> {"none", "ok", "error", "raw"}]
  <2>1. <<>> \in [1 .. Len(<<>>) -> {"none", "ok", "error", "raw"}] /\ DOMAIN <<>> = 1 .. Len(<<>>)
    BY EmptySeq, LenProperties
  <2> QED
    BY <1>5, <2>1
<1>8. DOMAIN batches = {} /\ batches \in BatchSeq
  BY <1>5 DEF BatchSeq
<1>9. sigSeen \in Sigs /\ \A name \in Names : sigSeen[name].count = 0
  BY <1>5 DEF Sigs, Outcomes
<1>10. Types
  <2>1. pc \in {"rails", "batches", "left", "returned"} \cup Calling
    BY <1>3 DEF Calling
  <2>2. turn \in Turns \cup {<<>>} /\ running \subseteq DOMAIN turn
    BY <1>5, <1>17
  <2>3. \A b \in ToSet(batches) : b.calls \subseteq DOMAIN turn
    BY <1>8 DEF ToSet
  <2>4. /\ attempt \in 0 .. MaxContextRecovery /\ step \in 0 .. MaxSteps
        /\ started \in Nat /\ toolResults \in 0 .. MaxToolCalls
        /\ truncatedTurns \in 0 .. MaxTruncatedTurns + 1
        /\ usdCost \in 0 .. MaxBudget
    BY <1>1, <1>4 DEF MaxContextRecovery, MaxTruncatedTurns
  <2>6. /\ disclosed \subseteq Tools /\ toolSpecs \subseteq disclosed /\ aborted \in BOOLEAN
        /\ stopReason \in {"max_iterations", "aborted", "max_budget", "refused", "error",
                           "max_tool_calls", "done"}
        /\ responseText \in {"", "text", "fixed"}
    BY <1>17
  <2>5. \A name \in Names : sigSeen[name].count \in Nat
    BY <1>9
  <2> QED
    BY <1>6, <1>7, <1>8, <1>9, <2>1, <2>2, <2>3, <2>4, <2>5, <2>6 DEF Types, TypeOK, Message
<1>11. Limits
  <2>1. pc \notin {"model", "batches"} /\ running = {} /\ batches = <<>> /\ usdCost = 0
    BY <1>3, <1>4, <1>5, <1>17
  <2>2. truncatedTurns <= MaxTruncatedTurns
    BY <1>4 DEF MaxTruncatedTurns
  <2> QED
    BY <2>1, <2>2 DEF Limits
<1>12. Shown /\ WritersAlone
  BY <1>17 DEF Shown, WritersAlone
<1>13. PlanSound
  BY <1>8 DEF PlanSound
<1>14. Budgeted
  BY <1>1, <1>3, <1>4 DEF Budgeted
<1>15. Unstuck
  BY <1>9 DEF Unstuck, MaxIdenticalCalls
<1>16. Transcript
  BY <1>2, <1>3 DEF Transcript, AlwaysPaired, Calling
<1> QED
  BY <1>10, <1>11, <1>12, <1>13, <1>14, <1>15, <1>16 DEF IInv
-----------------------------------------------------------------------------
(* Types, and the limits of the counters.                                  *)

\* Messages added to a transcript leave a transcript with the same head.
LEMMA GrownTranscript ==
    ASSUME NEW a \in Seq(Message), NEW b \in Seq(Message)
    PROVE  a \o b \in Seq(Message) /\ (Headed(a) => Headed(a \o b))
<1>1. PICK la \in Nat, lb \in Nat : la = Len(a) /\ lb = Len(b)
  OBVIOUS
<1>2. /\ a \o b \in Seq(Message) /\ Len(a \o b) = la + lb
      /\ \A i \in 1 .. la + lb : (a \o b)[i] = IF i <= la THEN a[i] ELSE b[i - la]
  BY <1>1, ConcatProperties
<1>3. ASSUME Headed(a) PROVE Headed(a \o b)
  <2>1. la >= 2 /\ a[1].role \in {"system", "user"} /\ a[2].role \in {"system", "user"}
    BY <1>1, <1>3 DEF Headed
  <2>2. la + lb >= 2 /\ (a \o b)[1] = a[1] /\ (a \o b)[2] = a[2]
    BY <1>2, <2>1
  <2> QED
    BY <1>2, <2>1, <2>2 DEF Headed
<1> QED
  BY <1>2, <1>3

\* The same with one more message, which can be taken off again.
LEMMA AppendedTranscript ==
    ASSUME NEW a \in Seq(Message), NEW m \in Message
    PROVE  /\ Append(a, m) \in Seq(Message) /\ Append(a, m) # <<>> /\ Append(a, m) = a \o <<m>>
           /\ Last(Append(a, m)) = m /\ Front(Append(a, m)) = a
<1> DEFINE c == Append(a, m)
<1>1. c \in Seq(Message) /\ c # <<>> /\ c = a \o <<m>> /\ Len(c) = Len(a) + 1 /\ c[Len(a) + 1] = m
  OBVIOUS
<1>2. \A i \in 1 .. Len(a) : c[i] = a[i]
  OBVIOUS
<1> HIDE DEF c
<1>3. Last(c) = m
  BY <1>1 DEF Last
<1>4. Front(c) = a
  <2>1. Front(c) \in Seq(Message) /\ Len(Front(c)) = Len(a) /\ \A i \in 1 .. Len(a) : Front(c)[i] = a[i]
    <3>1. Len(a) \in Nat /\ Len(c) - 1 = Len(a)
      BY <1>1
    <3>2. /\ Front(c) \in Seq(Message) /\ Len(Front(c)) = Len(c) - 1
          /\ \A p \in 1 .. Len(c) - 1 : Front(c)[p] = c[p]
      BY <1>1, LastFront
    <3> QED
      BY <1>2, <3>1, <3>2
  <2> QED
    BY <2>1, SeqEqual
<1> QED
  BY <1>1, <1>3, <1>4 DEF c

\* What was spent stays within the budget, which it is counted up to.
LEMMA AddUsageType ==
    ASSUME Types, NEW cost \in {0, 1}, AddUsage(cost)
    PROVE  usdCost' \in 0 .. MaxBudget
<1>1. usdCost \in 0 .. MaxBudget /\ MaxBudget \in Nat
  BY TypeFacts DEF Types, TypeOK
<1> QED
  BY <1>1 DEF AddUsage

\* The messages of the loop are well typed.
LEMMA MessageTypes ==
    ASSUME Types
    PROVE  /\ \A role \in {"system", "user", "assistant", "tool"} : Text(role) \in Message
           /\ \A n \in Nat : Asks(step, n) \in Message /\ Results(step, n) \in Seq(Message)
<1>1. MaxSteps \in Nat /\ step \in 0 .. MaxSteps
  BY TypeFacts DEF Types, TypeOK
<1>2. ASSUME NEW n \in Nat PROVE Results(step, n) \in Seq(Message)
  <2>1. \A i \in 1 .. n : Answers(step, i) \in Message
    BY <1>1 DEF Answers, Message
  <2> QED
    BY <2>1 DEF Results
<1>3. \A role \in {"system", "user", "assistant", "tool"} : Text(role) \in Message
  <2>1. 0 \in 0 .. MaxSteps /\ 0 \in Nat
    BY <1>1
  <2> QED
    BY <2>1 DEF Text, Message
<1>4. \A n \in Nat : Asks(step, n) \in Message
  BY <1>1 DEF Asks, Message
<1> QED
  BY <1>2, <1>3, <1>4

\* A step keeps the transcript and the request well typed.
LEMMA TranscriptTypes ==
    ASSUME Types, Transcript, [Next]_vars
    PROVE  messages' \in Seq(Message) /\ request' \in Seq(Message)
<1>0. messages \in Seq(Message) /\ request \in Seq(Message)
  BY TypeFacts
<1>1. <<>> \in Seq(Message)
  BY EmptySeq
<1>2. CASE TooLong
  <2>1. Headed(request) /\ attempt \in Nat
    <3>1. pc \in Calling
      BY <1>2 DEF TooLong, Calling
    <3>2. attempt \in 0 .. MaxContextRecovery
      BY DEF Types, TypeOK
    <3>3. attempt \in Nat
      BY <3>2 DEF MaxContextRecovery
    <3> QED
      BY <3>1, <3>3 DEF Transcript
  <2> QED
    BY <1>0, <1>2, <2>1, RecoveredPaired DEF TooLong
<1>3. ASSUME NEW cost \in {0, 1}, Truncated(cost)
      PROVE  messages' \in Seq(Message) /\ request' \in Seq(Message)
  <2>1. <<Text("assistant"), Text("user")>> \in Seq(Message)
    BY MessageTypes
  <2>2. request \o <<Text("assistant"), Text("user")>> \in Seq(Message)
    BY <1>0, <2>1, GrownTranscript
  <2> QED
    BY <1>0, <1>1, <1>3, <2>2 DEF Truncated, Reply, NoCall, Leave
<1>4. ASSUME NEW cost \in {0, 1}, NEW asked \in Turns, Capped(cost, asked)
      PROVE  messages' \in Seq(Message) /\ request' \in Seq(Message)
  <2>1. Len(asked) \in Nat
    BY TypeFacts
  <2>2. Append(request, Asks(step, Len(asked))) \in Seq(Message)
    BY <1>0, <2>1, MessageTypes, AppendedTranscript
  <2>3. Append(request, Asks(step, Len(asked))) \o Results(step, Len(asked)) \in Seq(Message)
    BY <2>1, <2>2, MessageTypes, GrownTranscript
  <2> QED
    BY <1>1, <1>4, <2>3 DEF Capped, Reply, NoCall
<1>5. ASSUME NEW cost \in {0, 1}, NEW asked \in Turns, NEW found, Accepted(cost, asked, found)
      PROVE  messages' \in Seq(Message) /\ request' \in Seq(Message)
  <2>1. Len(asked) \in Nat
    BY TypeFacts
  <2>2. Append(request, Asks(step, Len(asked))) \in Seq(Message)
    BY <1>0, <2>1, MessageTypes, AppendedTranscript
  <2> QED
    BY <1>1, <1>5, <2>2 DEF Accepted, Reply, NoCall
<1>6. ASSUME NEW goal, Collect(goal)
      PROVE  messages' \in Seq(Message) /\ request' \in Seq(Message)
  <2>1. messages \o Results(step, Len(turn)) \in Seq(Message)
    BY <1>0, TypeFacts, MessageTypes, GrownTranscript
  <2> QED
    BY <1>0, <1>6, <2>1 DEF Collect, Call, callVars
<1>7. CASE WrapUp
  BY <1>0, <1>7, MessageTypes, AppendedTranscript DEF WrapUp, Call
<1>8. ASSUME NEW text, Completed(text) PROVE messages' \in Seq(Message) /\ request' \in Seq(Message)
  <2>1. Append(messages, Text("user")) \in Seq(Message)
    BY <1>0, MessageTypes, AppendedTranscript
  <2> QED
    BY <1>0, <1>1, <1>8, <2>1 DEF Completed, Call, NoCall
<1>9. ASSUME NEW loaded, AskModel(loaded) PROVE messages' \in Seq(Message) /\ request' \in Seq(Message)
  BY <1>0, <1>9 DEF AskModel, Call
<1>10. ASSUME NEW cost, NEW text,
              Refused(cost) \/ Answered(cost, text) \/ Final(cost, text) \/ WrappedUp(cost, text)
       PROVE  messages' \in Seq(Message) /\ request' \in Seq(Message)
  BY <1>0, <1>1, <1>10 DEF Refused, Answered, Final, WrappedUp, Reply, CallFails, NoCall
<1>11. ASSUME NEW i, Rails \/ StartBatch \/ ToolReturns(i) \/ CollectThrows \/ Return \/ Abort
       PROVE  messages' \in Seq(Message) /\ request' \in Seq(Message)
  BY <1>0, <1>11 DEF Rails, StartBatch, ToolReturns, CollectThrows, Return, Abort, callVars
<1>12. ASSUME NEW text, ModelFails \/ CompletionFails \/ Synthesized(text)
       PROVE  messages' \in Seq(Message) /\ request' \in Seq(Message)
  BY <1>0, <1>1, <1>12 DEF ModelFails, CompletionFails, Synthesized, CallFails, NoCall
<1>13. CASE UNCHANGED vars
  BY <1>0, <1>13 DEF vars, callVars
<1> QED
  BY <1>2, <1>3, <1>4, <1>5, <1>6, <1>7, <1>8, <1>9, <1>10, <1>11, <1>12, <1>13
     DEF Next, Progress

\* The parts of TypeOK that single steps disturb: the counters, the mode of the loop,
\* the calls of the turn.
Counters == /\ attempt \in 0 .. MaxContextRecovery /\ step \in 0 .. MaxSteps
            /\ started \in Nat /\ toolResults \in 0 .. MaxToolCalls
            /\ truncatedTurns \in 0 .. MaxTruncatedTurns + 1 /\ usdCost \in 0 .. MaxBudget
Modes == /\ pc \in {"rails", "batches", "left", "returned"} \cup Calling
         /\ disclosed \subseteq Tools /\ toolSpecs \subseteq disclosed
         /\ aborted \in BOOLEAN
         /\ stopReason \in {"max_iterations", "aborted", "max_budget", "refused", "error",
                            "max_tool_calls", "done"}
         /\ responseText \in {"", "text", "fixed"}
Work == /\ turn \in Turns \cup {<<>>} /\ slots \in [DOMAIN turn -> Outcomes]
        /\ running \subseteq DOMAIN turn
        /\ sigSeen \in Sigs /\ batches \in BatchSeq
        /\ \A p \in DOMAIN batches : batches[p].calls \subseteq DOMAIN turn

\* A state is well typed when its transcripts and these three parts of it are.
LEMMA TypesSplit ==
    Types <=> /\ messages \in Seq(Message) /\ request \in Seq(Message)
              /\ Counters /\ Modes /\ Work
<1>1. sigSeen \in Sigs => \A name \in Names : sigSeen[name].count \in Nat
  BY DEF Sigs
<1>2. (\A b \in ToSet(batches) : b.calls \subseteq DOMAIN turn)
        <=> \A p \in DOMAIN batches : batches[p].calls \subseteq DOMAIN turn
  BY DEF ToSet
<1>3. (\A msgs \in {messages, request} : msgs \in Seq(Message))
        <=> messages \in Seq(Message) /\ request \in Seq(Message)
  OBVIOUS
<1> QED
  BY <1>1, <1>2, <1>3 DEF Types, TypeOK, Counters, Modes, Work, Message, Outcomes

\* A step that does nothing to the calls of a turn and starts no new one.
Quiet ==
    /\ UNCHANGED <<toolVars, toolResults, sigSeen>>
    /\ pc' = "batches" => pc = "batches"
    /\ pc' \in {"rails", "model"} => pc \in {"rails", "model"}
    /\ pc' = "final" => pc = "final"
    /\ pc = "batches" /\ pc' # "batches" => AllBack

\* Every step is such a one, or accepts a turn, starts a batch of it, brings a result
\* or collects them.
LEMMA StepKinds ==
    ASSUME [Next]_vars
    PROVE  \/ Quiet
           \/ \E cost \in {0, 1}, asked \in Turns, found \in SUBSET (Deferred \ disclosed) :
                 Accepted(cost, asked, found)
           \/ StartBatch
           \/ \E i \in running : ToolReturns(i)
           \/ \E goal \in {"open", "completed", "throws"} : Collect(goal)
<1>1. Rails => Quiet
  BY DEF Rails, Quiet, workVars, toolVars, Leave
<1>2. ASSUME NEW loaded, AskModel(loaded) PROVE Quiet
  BY <1>2 DEF AskModel, Quiet, toolVars, Call
<1>3. TooLong => Quiet
  BY DEF TooLong, Quiet, workVars
<1>4. ASSUME NEW cost, Refused(cost) PROVE Quiet
  BY <1>4 DEF Refused, Quiet, workVars, Leave, Reply
<1>5. ASSUME NEW cost, Truncated(cost) PROVE Quiet
  BY <1>5 DEF Truncated, Quiet, workVars, Leave, Reply
<1>6. ASSUME NEW cost, NEW asked, Capped(cost, asked) PROVE Quiet
  BY <1>6 DEF Capped, Quiet, workVars, Leave, Reply
<1>7. ASSUME NEW cost, NEW text, Answered(cost, text) \/ Final(cost, text) \/ WrappedUp(cost, text)
      PROVE  Quiet
  BY <1>7 DEF Answered, Final, WrappedUp, Quiet, workVars, Leave, Reply, CallFails
<1>8. ModelFails => Quiet
  BY DEF ModelFails, Quiet, workVars, Leave, CallFails
<1>9. CollectThrows => Quiet
  BY DEF CollectThrows, Quiet, workVars, Leave
<1>10. WrapUp => Quiet
  BY DEF WrapUp, Quiet, workVars, Call
<1>11. Return => Quiet
  BY DEF Return, Quiet, workVars
<1>12. CompletionFails => Quiet
  BY DEF CompletionFails, Quiet, workVars
<1>13. ASSUME NEW text, Completed(text) \/ Synthesized(text) PROVE Quiet
  BY <1>13 DEF Completed, Synthesized, Quiet, workVars, Call
<1>14. Abort => Quiet
  BY DEF Abort, Quiet, workVars
<1>15. UNCHANGED vars => Quiet
  BY DEF vars, Quiet, workVars
<1> QED
  BY <1>1, <1>2, <1>3, <1>4, <1>5, <1>6, <1>7, <1>8, <1>9, <1>10, <1>11, <1>12, <1>13,
     <1>14, <1>15 DEF Next, Progress

\* A step keeps the calls of the turn and their plan well typed.
LEMMA WorkStep ==
    ASSUME Types, Limits, [Next]_vars
    PROVE  Work'
<1>0. Work /\ Countable
  BY TypesSplit, TypeFacts
<1>1. CASE Quiet
  BY <1>0, <1>1 DEF Quiet, Work, toolVars
<1>2. ASSUME NEW cost \in {0, 1}, NEW asked \in Turns, NEW found \in SUBSET (Deferred \ disclosed),
             Accepted(cost, asked, found)
      PROVE  Work'
  <2> DEFINE toRun == {i \in DOMAIN asked : Runs(asked, i, found)}
             plan == PlanToolBatches(asked, toRun)
  <2>1. asked \in Seq(Names) /\ DOMAIN asked = 1 .. Len(asked)
    BY TypeFacts
  <2>2. Planned(asked, toRun, Len(asked), plan)
    <3>1. toRun \in SUBSET DOMAIN asked
      OBVIOUS
    <3> HIDE DEF toRun
    <3> QED
      BY <2>1, <3>1, PlanIsOrderedPartition
  <2>3. batches' = plan /\ turn' = asked /\ sigSeen' = sigSeen /\ running' = running /\ pc = "model"
    BY <1>2 DEF Accepted, Reply
  <2>4. slots' \in [DOMAIN asked -> Outcomes]
    <3>1. \A i \in DOMAIN asked : Unrun(asked, i, found) \in Outcomes /\ "none" \in Outcomes
      BY DEF Unrun, Outcomes
    <3> QED
      BY <1>2, <3>1 DEF Accepted
  <2>5. plan \in BatchSeq /\ \A p \in DOMAIN plan : plan[p].calls \subseteq toRun
    <3> HIDE DEF plan, toRun
    <3>1. plan \in BatchSeq /\ \A p \in DOMAIN plan : \A i \in plan[p].calls : i \in toRun
      BY <2>2 DEF Planned
    <3> QED
      BY <3>1
  <2>6. toRun \subseteq DOMAIN asked /\ running = {}
    BY <2>3 DEF Limits
  <2> HIDE DEF plan, toRun
  <2> QED
    BY <1>0, <2>3, <2>4, <2>5, <2>6 DEF Work
<1>3. CASE StartBatch
  <2>1. /\ running' = batches[1].calls /\ batches' = Tail(batches) /\ batches # <<>>
        /\ turn' = turn /\ slots' = slots /\ sigSeen' = sigSeen
    BY <1>3 DEF StartBatch
  <2>2. batches \in Seq([parallel : BOOLEAN, calls : SUBSET Nat])
    BY <1>0 DEF Work, BatchSeq
  <2>3. batches' \in BatchSeq /\ 1 \in DOMAIN batches
    BY <2>1, <2>2 DEF BatchSeq
  <2>4. \A p \in DOMAIN batches' : p + 1 \in DOMAIN batches /\ batches'[p] = batches[p + 1]
    BY <2>1, <2>2
  <2> QED
    BY <1>0, <2>1, <2>3, <2>4 DEF Work
<1>4. ASSUME NEW i \in running, ToolReturns(i) PROVE Work'
  <2>1. running' = running \ {i} /\ UNCHANGED <<turn, batches, sigSeen>>
    BY <1>4 DEF ToolReturns
  <2>2. PICK result \in Outcomes : slots' = [slots EXCEPT ![i] = result]
    BY <1>4 DEF ToolReturns, Outcomes
  <2>3. slots' \in [DOMAIN turn -> Outcomes]
    BY <1>0, <2>2 DEF Work
  <2> QED
    BY <1>0, <2>1, <2>3 DEF Work
<1>5. ASSUME NEW goal, Collect(goal) PROVE Work'
  <2>1. /\ turn' = <<>> /\ slots' = <<>> /\ UNCHANGED <<batches, running>>
        /\ running = {} /\ batches = <<>> /\ sigSeen' = SeenUpTo(Len(turn))
    BY <1>5 DEF Collect, AllBack
  <2>2. sigSeen' \in Sigs
    <3>1. Len(turn) \in 0 .. Len(turn)
      BY TypeFacts
    <3> QED
      BY <1>0, <2>1, <3>1, SeenChain
  <2>3. slots' \in [DOMAIN turn' -> Outcomes]
    <3>1. <<>> \in [1 .. Len(<<>>) -> Outcomes] /\ DOMAIN <<>> = 1 .. Len(<<>>)
      BY EmptySeq, LenProperties
    <3> QED
      BY <2>1, <3>1
  <2>4. batches' \in BatchSeq /\ DOMAIN batches' = {}
    BY <1>0, <2>1 DEF Work
  <2>5. turn' \in Turns \cup {<<>>} /\ running' \subseteq DOMAIN turn'
    BY <2>1
  <2> QED
    BY <2>2, <2>3, <2>4, <2>5 DEF Work
<1> QED
  BY <1>1, <1>2, <1>3, <1>4, <1>5, StepKinds

\* A step keeps the counters within their limits.
LEMMA CountersStep ==
    ASSUME Types, Limits, [Next]_vars
    PROVE  Counters'
<1>0. /\ MaxSteps \in Nat /\ MaxToolCalls \in Nat /\ Len(turn) \in Nat
      /\ Counters /\ MaxContextRecovery = 3 /\ MaxTruncatedTurns = 2
  BY TypesSplit, TypeFacts DEF MaxContextRecovery, MaxTruncatedTurns
<1>1. ASSUME NEW cost \in {0, 1}, Refused(cost) PROVE Counters'
  BY <1>0, <1>1, AddUsageType DEF Refused, Reply, NoCall, Counters, workVars, toolVars
<1>2. ASSUME NEW cost \in {0, 1}, Truncated(cost) PROVE Counters'
  <2>1. pc = "model" /\ AddUsage(cost) /\ attempt' = 0 /\ UNCHANGED <<started, toolResults>>
    BY <1>2 DEF Truncated, Reply, NoCall, workVars, toolVars
  <2>2. truncatedTurns' = truncatedTurns + 1 /\ step' \in {step, step + 1}
    BY <1>2 DEF Truncated
  <2>3. truncatedTurns <= 2 /\ step < MaxSteps
    BY <1>0, <2>1 DEF Limits, Looping
  <2> QED
    BY <1>0, <2>1, <2>2, <2>3, AddUsageType DEF Counters
<1>3. ASSUME NEW cost \in {0, 1}, NEW asked, Capped(cost, asked) PROVE Counters'
  <2>1. AddUsage(cost) /\ attempt' = 0 /\ UNCHANGED <<step, started, toolResults, truncatedTurns>>
    BY <1>3 DEF Capped, Reply, NoCall, workVars, toolVars
  <2> QED
    BY <1>0, <2>1, AddUsageType DEF Counters
<1>4. ASSUME NEW cost \in {0, 1}, NEW asked, NEW found, Accepted(cost, asked, found)
      PROVE  Counters'
  BY <1>0, <1>4, AddUsageType DEF Accepted, Reply, NoCall, Counters
<1>5. ASSUME NEW cost \in {0, 1}, NEW text, Answered(cost, text) PROVE Counters'
  BY <1>0, <1>5, AddUsageType DEF Answered, Reply, NoCall, Counters, workVars, toolVars
<1>6. ASSUME NEW cost \in {0, 1}, NEW text, Final(cost, text) PROVE Counters'
  <2>1. attempt' = 0 /\ UNCHANGED <<step, started, toolResults, truncatedTurns>>
    BY <1>6 DEF Final, Reply, CallFails, NoCall, workVars, toolVars
  <2>2. AddUsage(cost) \/ usdCost' = usdCost
    BY <1>6 DEF Final, Reply, CallFails
  <2> QED
    BY <1>0, <2>1, <2>2, AddUsageType DEF Counters
<1>7. ASSUME NEW cost \in {0, 1}, NEW text, WrappedUp(cost, text) PROVE Counters'
  <2>1. attempt' = 0 /\ UNCHANGED <<step, started, toolResults, truncatedTurns>>
    BY <1>7 DEF WrappedUp, Reply, CallFails, NoCall, workVars, toolVars
  <2>2. AddUsage(cost) \/ usdCost' = usdCost
    BY <1>7 DEF WrappedUp, Reply, CallFails
  <2> QED
    BY <1>0, <2>1, <2>2, AddUsageType DEF Counters
<1>8. CASE TooLong
  BY <1>0, <1>8 DEF TooLong, Counters, workVars, toolVars
<1>9. CASE StartBatch
  <2>1. /\ batches # <<>> /\ running' = batches[1].calls /\ started' = started + Cardinality(running')
        /\ UNCHANGED <<callVars, step, toolResults, truncatedTurns, usdCost>>
    BY <1>9 DEF StartBatch
  <2>2. Work
    BY TypesSplit
  <2>3. running' \subseteq 1 .. Len(turn)
    <3>1. 1 \in DOMAIN batches
      BY <2>1, <2>2, EmptySeq DEF Work, BatchSeq
    <3> QED
      BY <2>1, <2>2, <3>1, TypeFacts DEF Work
  <2>4. Cardinality(running') \in Nat
    <3>1. IsFiniteSet(1 .. Len(turn))
      BY <1>0, FS_Interval
    <3>2. IsFiniteSet(running')
      BY <2>3, <3>1, FS_Subset
    <3> QED
      BY <3>2, FS_CardinalityType
  <2> QED
    BY <1>0, <2>1, <2>4 DEF Counters, callVars
<1>10. ASSUME NEW i, ToolReturns(i) PROVE Counters'
  BY <1>0, <1>10 DEF ToolReturns, Counters, callVars
<1>11. ASSUME NEW goal, Collect(goal) PROVE Counters'
  <2>1. /\ pc = "batches" /\ toolResults' = toolResults + Len(turn) /\ step' \in {step, step + 1}
        /\ attempt' \in {attempt, 0} /\ UNCHANGED <<started, truncatedTurns, usdCost>>
    BY <1>11 DEF Collect, AllBack, Call, callVars
  <2>2. step < MaxSteps /\ toolResults + Len(turn) <= MaxToolCalls
    BY <2>1 DEF Limits
  <2> QED
    BY <1>0, <2>1, <2>2 DEF Counters
<1>12. ASSUME NEW loaded, AskModel(loaded) PROVE Counters'
  BY <1>0, <1>12 DEF AskModel, Call, Counters, toolVars
<1>13. ASSUME Rails \/ CollectThrows \/ Return \/ Abort \/ UNCHANGED vars PROVE Counters'
  BY <1>0, <1>13
     DEF Rails, CollectThrows, Return, Abort, vars, Counters, callVars, workVars, toolVars
<1>14. ASSUME NEW text, ModelFails \/ CompletionFails \/ Synthesized(text) \/ Completed(text) \/ WrapUp
       PROVE  Counters'
  <2>1. attempt' = 0 /\ UNCHANGED <<step, started, toolResults, truncatedTurns, usdCost>>
    <3>1. Completed(text) => attempt' = 0
      BY DEF Completed, Call, NoCall
    <3> QED
      BY <1>14, <3>1
         DEF ModelFails, CompletionFails, Synthesized, Completed, WrapUp, Call, CallFails, NoCall,
             workVars, toolVars
  <2> QED
    BY <1>0, <2>1 DEF Counters
<1> QED
  BY <1>1, <1>2, <1>3, <1>4, <1>5, <1>6, <1>7, <1>8, <1>9, <1>10, <1>11, <1>12, <1>13, <1>14
     DEF Next, Progress

\* A step keeps what is offered among what is disclosed, and the loop in its modes.
LEMMA ModesStep ==
    ASSUME Types, [Next]_vars
    PROVE  Modes'
<1>0. Modes /\ Deferred \subseteq Tools
  BY TypesSplit, LoopAssumption
<1>1. ASSUME NEW loaded \in SUBSET Deferred, AskModel(loaded) PROVE Modes'
  BY <1>0, <1>1 DEF AskModel, Call, Calling, Modes
<1>2. ASSUME NEW cost, NEW asked, NEW found \in SUBSET (Deferred \ disclosed), Accepted(cost, asked, found)
      PROVE  Modes'
  BY <1>0, <1>2 DEF Accepted, Modes
<1>3. ASSUME NEW cost, NEW asked, NEW text \in Words,
             \/ Refused(cost) \/ Truncated(cost) \/ Capped(cost, asked) \/ Answered(cost, text)
             \/ Final(cost, text) \/ WrappedUp(cost, text)
      PROVE  Modes'
  BY <1>0, <1>3
     DEF Refused, Truncated, Capped, Answered, Final, WrappedUp, Leave, Words, Modes, workVars, seenVars
<1>4. ASSUME NEW i, Rails \/ TooLong \/ ModelFails \/ StartBatch \/ ToolReturns(i) \/ CollectThrows
      PROVE  Modes'
  BY <1>0, <1>4
     DEF Rails, TooLong, ModelFails, StartBatch, ToolReturns, CollectThrows, Leave, Modes, workVars, seenVars
<1>5. ASSUME NEW goal, Collect(goal) PROVE Modes'
  BY <1>0, <1>5 DEF Collect, Leave, Call, Calling, Modes, seenVars
<1>6. ASSUME NEW text \in Words,
             WrapUp \/ Return \/ CompletionFails \/ Completed(text) \/ Synthesized(text) \/ Abort
      PROVE  Modes'
  BY <1>0, <1>6
     DEF WrapUp, Return, CompletionFails, Completed, Synthesized, Abort, Call, Calling, Words, Modes,
         workVars, seenVars
<1>7. CASE UNCHANGED vars
  BY <1>0, <1>7 DEF vars, Modes, workVars, seenVars
<1> QED
  <2>1. ASSUME NEW cost, NEW asked,
               \/ \E text \in Words : Answered(cost, text) \/ Final(cost, text) \/ WrappedUp(cost, text)
               \/ Refused(cost) \/ Truncated(cost) \/ Capped(cost, asked)
        PROVE  Modes'
    BY <1>3, <2>1 DEF Words
  <2>2. (\E text \in Words : Completed(text) \/ Synthesized(text)) \/ Abort \/ WrapUp \/ Return
           \/ CompletionFails => Modes'
    BY <1>6 DEF Words
  <2>3. (\E cost \in {0, 1}, asked \in Turns, found \in SUBSET (Deferred \ disclosed) :
            Accepted(cost, asked, found)) => Modes'
    BY <1>2
  <2>4. (\E loaded \in SUBSET Deferred : AskModel(loaded)) => Modes'
    BY <1>1
  <2> QED
    BY <1>4, <1>5, <1>7, <2>1, <2>2, <2>3, <2>4 DEF Next, Progress

\* A step keeps the state well typed.
LEMMA TypesStep ==
    ASSUME Types, Limits, Transcript, [Next]_vars
    PROVE  Types'
<1>1. messages' \in Seq(Message) /\ request' \in Seq(Message) /\ Counters' /\ Modes' /\ Work'
  BY TranscriptTypes, CountersStep, ModesStep, WorkStep
<1>2. sigSeen' \in Sigs => \A name \in Names : sigSeen'[name].count \in Nat
  BY DEF Sigs
<1>3. (\A p \in DOMAIN batches : batches[p].calls \subseteq DOMAIN turn)'
         => \A b \in ToSet(batches') : b.calls \subseteq DOMAIN turn'
  BY DEF ToSet
<1> QED
  BY <1>1, <1>2, <1>3 DEF Types, TypeOK, Counters, Modes, Work, Message, Outcomes

\* A step leaves a counter that may still grow below its limit.
LEMMA LimitsStep ==
    ASSUME Types, Limits, [Next]_vars
    PROVE  Limits'
<1>0. /\ MaxTruncatedTurns = 2 /\ Counters /\ Len(turn) \in Nat
      /\ \A asked \in Turns : Len(asked) \in Nat
  BY TypesSplit, TypeFacts DEF MaxTruncatedTurns
<1>1. ASSUME NEW loaded, AskModel(loaded) PROVE Limits'
  BY <1>1 DEF AskModel, Call, Limits, Looping, toolVars
<1>2. ASSUME NEW cost, NEW asked \in Turns, NEW found, Accepted(cost, asked, found) PROVE Limits'
  <2>1. /\ pc = "model" /\ pc' = "batches" /\ turn' = asked
        /\ UNCHANGED <<step, truncatedTurns, toolResults>>
        /\ toolResults + Len(asked) <= MaxToolCalls
    BY <1>2 DEF Accepted, Reply, WithinCap
  <2> QED
    BY <2>1 DEF Limits, Looping
<1>3. ASSUME NEW cost, Truncated(cost) PROVE Limits'
  <2>1. /\ pc = "model" /\ running' = running /\ batches' = batches
        /\ (pc' = "rails" /\ truncatedTurns' <= MaxTruncatedTurns) \/ pc' = "left"
    <3>0. truncatedTurns' = truncatedTurns + 1
      BY <1>3 DEF Truncated
    <3>1. truncatedTurns \in Int
      BY <1>0 DEF Counters
    <3>2. ~(truncatedTurns' > MaxTruncatedTurns) => truncatedTurns' <= MaxTruncatedTurns
      BY <1>0, <3>0, <3>1
    <3> QED
      BY <1>3, <3>2 DEF Truncated, Reply, Leave, workVars, toolVars
  <2> QED
    BY <2>1 DEF Limits, Looping
<1>4. ASSUME NEW cost, NEW asked, NEW text,
             Refused(cost) \/ Capped(cost, asked) \/ Answered(cost, text) \/ Final(cost, text)
                \/ WrappedUp(cost, text)
      PROVE  Limits'
  <2>1. /\ pc \in {"model", "final", "wrapup"} /\ pc' \in {"left", "returned"}
        /\ UNCHANGED <<running, batches>>
    BY <1>4 DEF Refused, Capped, Answered, Final, WrappedUp, Reply, CallFails, Leave, workVars, toolVars
  <2> QED
    BY <2>1 DEF Limits, Looping
<1>5. CASE TooLong
  BY <1>5 DEF TooLong, Limits, workVars, toolVars
<1>6. ASSUME Rails \/ ModelFails PROVE Limits'
  BY <1>6 DEF Rails, ModelFails, CallFails, Leave, Limits, Looping, workVars, toolVars
<1>7. ASSUME NEW i, StartBatch \/ ToolReturns(i) \/ CollectThrows PROVE Limits'
  <2>1. CASE CollectThrows
    BY <2>1 DEF CollectThrows, AllBack, Leave, Limits, Looping, workVars, toolVars
  <2>2. CASE StartBatch
    BY <2>2 DEF StartBatch, Limits
  <2>3. CASE ToolReturns(i)
    BY <2>3 DEF ToolReturns, Limits
  <2> QED
    BY <1>7, <2>1, <2>2, <2>3
<1>8. ASSUME NEW goal, Collect(goal) PROVE Limits'
  <2>1. /\ pc = "batches" /\ running' = {} /\ batches' = <<>>
        /\ pc' \in {"left", "final", "rails"} /\ UNCHANGED <<truncatedTurns>>
    BY <1>8 DEF Collect, AllBack, Leave, Call
  <2> QED
    BY <2>1 DEF Limits, Looping
<1>9. ASSUME NEW text, WrapUp \/ Return \/ CompletionFails \/ Completed(text) \/ Synthesized(text)
      PROVE  Limits'
  <2>1. /\ pc # "batches" /\ pc' \in {"wrapup", "returned", "synthesis"} /\ UNCHANGED <<running, batches>>
    BY <1>9 DEF WrapUp, Return, CompletionFails, Completed, Synthesized, Call, workVars, toolVars
  <2> QED
    BY <2>1 DEF Limits, Looping
<1>10. CASE Abort \/ UNCHANGED vars
  BY <1>10 DEF Abort, vars, Limits, workVars, toolVars
<1> QED
  BY <1>1, <1>2, <1>3, <1>4, <1>5, <1>6, <1>7, <1>8, <1>9, <1>10 DEF Next, Progress

\* A step keeps the request in line with what was disclosed.
LEMMA ShownStep ==
    ASSUME Shown, [Next]_vars
    PROVE  Shown'
<1>1. ASSUME NEW loaded, AskModel(loaded) PROVE Shown'
  BY <1>1 DEF AskModel, Shown
<1>2. ASSUME NEW cost, NEW asked, NEW found, Accepted(cost, asked, found) PROVE Shown'
  BY <1>2 DEF Accepted, Shown
<1>3. ASSUME NEW cost, NEW asked, NEW text,
             \/ Refused(cost) \/ Truncated(cost) \/ Capped(cost, asked) \/ Answered(cost, text)
             \/ Final(cost, text) \/ WrappedUp(cost, text)
      PROVE  Shown'
  BY <1>3 DEF Refused, Truncated, Capped, Answered, Final, WrappedUp, Shown, workVars, seenVars
<1>4. ASSUME NEW i, NEW goal,
             \/ Rails \/ TooLong \/ ModelFails \/ StartBatch \/ ToolReturns(i) \/ CollectThrows
             \/ Collect(goal)
      PROVE  Shown'
  BY <1>4 DEF Rails, TooLong, ModelFails, StartBatch, ToolReturns, CollectThrows, Collect, Shown,
              workVars, seenVars
<1>5. ASSUME NEW text,
             \/ WrapUp \/ Return \/ CompletionFails \/ Completed(text) \/ Synthesized(text) \/ Abort
             \/ UNCHANGED vars
      PROVE  Shown'
  BY <1>5 DEF WrapUp, Return, CompletionFails, Completed, Synthesized, Abort, vars, Shown,
              workVars, seenVars
<1> QED
  BY <1>1, <1>2, <1>3, <1>4, <1>5 DEF Next, Progress
-----------------------------------------------------------------------------
(* The plan, the cap on tool calls and the repetition guard.               *)

\* A step keeps the order of the batches, and a tool that may write by itself.
LEMMA PlanStep ==
    ASSUME Types, Limits, PlanSound, WritersAlone, [Next]_vars
    PROVE  PlanSound' /\ WritersAlone'
<1>0. Work
  BY TypesSplit
<1>1. CASE Quiet
  BY <1>1 DEF Quiet, PlanSound, WritersAlone, toolVars
<1>2. ASSUME NEW cost \in {0, 1}, NEW asked \in Turns, NEW found \in SUBSET (Deferred \ disclosed),
             Accepted(cost, asked, found)
      PROVE  PlanSound' /\ WritersAlone'
  <2> DEFINE toRun == {i \in DOMAIN asked : Runs(asked, i, found)}
             plan == PlanToolBatches(asked, toRun)
  <2>1. Planned(asked, toRun, Len(asked), plan)
    <3>1. toRun \in SUBSET DOMAIN asked /\ asked \in Seq(Names)
      BY TypeFacts
    <3> HIDE DEF toRun
    <3> QED
      BY <3>1, PlanIsOrderedPartition
  <2>2. batches' = plan /\ turn' = asked /\ running' = {}
    BY <1>2 DEF Accepted, Reply, Limits
  <2> HIDE DEF plan, toRun
  <2>3. \A p \in DOMAIN plan : \/ \A i \in plan[p].calls : asked[i] \in ReadTools
                               \/ \A i, j \in plan[p].calls : i = j
    BY <2>1 DEF Planned
  <2>4. \A p, q \in DOMAIN plan : p < q => \A i \in plan[p].calls, j \in plan[q].calls : i < j
    BY <2>1 DEF Planned
  <2> QED
    BY <2>2, <2>3, <2>4 DEF PlanSound, WritersAlone
<1>3. CASE StartBatch
  <2>1. running' = batches[1].calls /\ batches' = Tail(batches) /\ batches # <<>> /\ turn' = turn
    BY <1>3 DEF StartBatch
  <2>2. batches \in Seq([parallel : BOOLEAN, calls : SUBSET Nat])
    BY <1>0 DEF Work, BatchSeq
  <2>3. /\ 1 \in DOMAIN batches
        /\ \A p \in DOMAIN batches' : p \in Nat /\ p + 1 \in DOMAIN batches /\ batches'[p] = batches[p + 1]
    BY <2>1, <2>2
  <2>4. WritersAlone'
    BY <2>1, <2>3 DEF PlanSound, WritersAlone
  <2>5. PlanSound'
    <3>1. \A p \in DOMAIN batches' : \/ \A i \in batches'[p].calls : turn'[i] \in ReadTools
                                     \/ \A i, j \in batches'[p].calls : i = j
      BY <2>1, <2>3 DEF PlanSound
    <3>2. \A p, q \in DOMAIN batches' :
             p < q => \A i \in batches'[p].calls, j \in batches'[q].calls : i < j
      <4>1. \A p, q \in DOMAIN batches' : p < q => p + 1 < q + 1
        BY <2>3
      <4> QED
        BY <2>3, <4>1 DEF PlanSound
    <3> QED
      BY <3>1, <3>2 DEF PlanSound
  <2> QED
    BY <2>4, <2>5
<1>4. ASSUME NEW i \in running, ToolReturns(i) PROVE PlanSound' /\ WritersAlone'
  BY <1>4 DEF ToolReturns, PlanSound, WritersAlone
<1>5. ASSUME NEW goal, Collect(goal) PROVE PlanSound' /\ WritersAlone'
  <2>1. running' = {} /\ batches' = <<>>
    BY <1>5 DEF Collect, AllBack
  <2> QED
    BY <2>1 DEF PlanSound, WritersAlone
<1> QED
  BY <1>1, <1>2, <1>3, <1>4, <1>5, StepKinds

\* What is planned is a finite set of calls of the turn.
LEMMA RemainingFinite ==
    ASSUME Types
    PROVE  IsFiniteSet(Remaining) /\ Cardinality(Remaining) \in Nat
<1>1. Remaining \subseteq 1 .. Len(turn) /\ Len(turn) \in Nat
  BY TypeFacts DEF Remaining
<1>2. IsFiniteSet(1 .. Len(turn))
  BY <1>1, FS_Interval
<1>3. IsFiniteSet(Remaining)
  BY <1>1, <1>2, FS_Subset
<1> QED
  BY <1>3, FS_CardinalityType

\* A step starts no call that the cap on tool calls has no room for.
LEMMA BudgetStep ==
    ASSUME Types, Types', Limits, PlanSound, Budgeted, [Next]_vars
    PROVE  Budgeted'
<1>0. /\ started \in Nat /\ toolResults \in Nat /\ Len(turn) \in Nat /\ MaxToolCalls \in Nat /\ Work
      /\ IsFiniteSet(Remaining) /\ Cardinality(Remaining) \in Nat
  <2>1. Counters /\ Work
    BY TypesSplit
  <2> QED
    BY <2>1, TypeFacts, RemainingFinite DEF Counters
<1>1. CASE Quiet
  <2>1. /\ UNCHANGED <<turn, batches, started, toolResults>>
        /\ pc' = "batches" => pc = "batches"
        /\ pc' \in {"rails", "model"} => pc \in {"rails", "model"}
    BY <1>1 DEF Quiet, toolVars
  <2>2. Remaining' = Remaining
    BY <2>1 DEF Remaining
  <2> QED
    BY <2>1, <2>2 DEF Budgeted
<1>2. ASSUME NEW cost \in {0, 1}, NEW asked \in Turns, NEW found \in SUBSET (Deferred \ disclosed),
             Accepted(cost, asked, found)
      PROVE  Budgeted'
  <2>1. /\ pc = "model" /\ pc' = "batches" /\ turn' = asked /\ started' = started
        /\ toolResults' = toolResults
    BY <1>2 DEF Accepted, Reply
  <2>2. Remaining' \subseteq 1 .. Len(asked) /\ Len(asked) \in Nat
    BY <2>1, TypeFacts DEF Remaining
  <2>3. Cardinality(Remaining') \in Nat /\ Cardinality(Remaining') <= Len(asked)
    <3>1. IsFiniteSet(1 .. Len(asked)) /\ Cardinality(1 .. Len(asked)) = Len(asked)
      BY <2>2, FS_Interval
    <3>2. IsFiniteSet(Remaining') /\ Cardinality(Remaining') <= Cardinality(1 .. Len(asked))
      BY <2>2, <3>1, FS_Subset
    <3> QED
      BY <3>1, <3>2, FS_CardinalityType
  <2>4. started <= MaxToolCalls /\ started <= toolResults
    BY <2>1 DEF Budgeted
  <2> QED
    BY <1>0, <2>1, <2>2, <2>3, <2>4 DEF Budgeted
<1>3. CASE StartBatch
  <2> DEFINE head == batches[1].calls
  <2>1. /\ pc = "batches" /\ pc' = "batches" /\ batches' = Tail(batches) /\ batches # <<>>
        /\ started' = started + Cardinality(head) /\ UNCHANGED <<turn, toolResults>>
    BY <1>3 DEF StartBatch
  <2>2. batches \in Seq([parallel : BOOLEAN, calls : SUBSET Nat])
    BY <1>0 DEF Work, BatchSeq
  <2>3. /\ 1 \in DOMAIN batches /\ DOMAIN batches = 1 .. Len(batches) /\ Len(batches) \in Nat
        /\ DOMAIN batches' = 1 .. Len(batches) - 1
        /\ \A p \in DOMAIN batches' : batches'[p] = batches[p + 1]
    BY <2>1, <2>2
  <2>4. head \subseteq DOMAIN turn /\ DOMAIN turn \subseteq Nat
    <3>1. \A q \in DOMAIN batches : batches[q].calls \subseteq DOMAIN turn
      BY <1>0 DEF Work
    <3>2. DOMAIN turn \subseteq Nat
      BY TypeFacts
    <3> QED
      BY <2>3, <3>1, <3>2
  <2>5. Remaining = head \cup Remaining'
    <3>1. ASSUME NEW i \in Remaining PROVE i \in head \cup Remaining'
      <4>1. PICK p \in DOMAIN batches : i \in batches[p].calls
        BY DEF Remaining
      <4>2. CASE p = 1
        BY <4>1, <4>2
      <4>3. CASE p # 1
        <5>1. p - 1 \in DOMAIN batches' /\ (p - 1) + 1 = p
          BY <2>3, <4>3
        <5>2. i \in batches'[p - 1].calls
          BY <2>3, <4>1, <5>1
        <5> QED
          BY <2>1, <5>1, <5>2 DEF Remaining
      <4> QED
        BY <4>2, <4>3
    <3>2. ASSUME NEW i \in Remaining' PROVE i \in Remaining
      <4>1. PICK p \in DOMAIN batches' : i \in batches'[p].calls
        BY DEF Remaining
      <4>2. p + 1 \in DOMAIN batches /\ i \in batches[p + 1].calls
        BY <2>3, <4>1
      <4> QED
        BY <2>1, <4>2 DEF Remaining
    <3>3. head \subseteq Remaining
      BY <2>3, <2>4 DEF Remaining
    <3> QED
      BY <3>1, <3>2, <3>3
  <2>6. head \cap Remaining' = {}
    <3> SUFFICES ASSUME NEW i \in head, i \in Remaining' PROVE FALSE
      OBVIOUS
    <3>1. PICK p \in DOMAIN batches' : i \in batches'[p].calls
      BY DEF Remaining
    <3>2. p + 1 \in DOMAIN batches /\ 1 < p + 1 /\ i \in batches[p + 1].calls
      BY <2>3, <3>1
    <3>3. i < i
      BY <2>3, <3>2 DEF PlanSound
    <3> QED
      BY <2>4, <3>3
  <2> HIDE DEF head
  <2>7. /\ Cardinality(Remaining) = Cardinality(head) + Cardinality(Remaining')
        /\ Cardinality(head) \in Nat /\ Cardinality(Remaining') \in Nat
    <3>1. IsFiniteSet(head) /\ IsFiniteSet(Remaining')
      BY <1>0, <2>5, FS_Subset
    <3>2. Cardinality(head) \in Nat /\ Cardinality(Remaining') \in Nat
      BY <3>1, FS_CardinalityType
    <3>3. Cardinality(head \cup Remaining')
             = Cardinality(head) + Cardinality(Remaining') - Cardinality(head \cap Remaining')
      BY <3>1, FS_Union
    <3>4. Cardinality(head \cap Remaining') = 0
      BY <2>6, FS_EmptySet
    <3> QED
      BY <2>5, <3>2, <3>3, <3>4
  <2>8. /\ started + Cardinality(Remaining) <= toolResults + Len(turn)
        /\ toolResults + Len(turn) <= MaxToolCalls
    BY <2>1 DEF Budgeted, Limits
  <2>9. started' \in Nat /\ started' + Cardinality(Remaining') <= toolResults + Len(turn)
    BY <1>0, <2>1, <2>7, <2>8
  <2>10. started' <= MaxToolCalls
    BY <1>0, <2>7, <2>8, <2>9
  <2> QED
    BY <2>1, <2>9, <2>10 DEF Budgeted
<1>4. ASSUME NEW i \in running, ToolReturns(i) PROVE Budgeted'
  <2>1. UNCHANGED <<pc, turn, batches, started, toolResults>>
    BY <1>4 DEF ToolReturns
  <2>2. Remaining' = Remaining
    BY <2>1 DEF Remaining
  <2> QED
    BY <2>1, <2>2 DEF Budgeted
<1>5. ASSUME NEW goal, Collect(goal) PROVE Budgeted'
  <2>1. /\ pc = "batches" /\ pc' # "batches" /\ started' = started
        /\ toolResults' = toolResults + Len(turn)
    BY <1>5 DEF Collect, AllBack, Leave, Call
  <2>2. started <= MaxToolCalls /\ started + Cardinality(Remaining) <= toolResults + Len(turn)
    BY <2>1 DEF Budgeted
  <2>3. started <= toolResults'
    BY <1>0, <2>1, <2>2
  <2> QED
    BY <2>1, <2>2, <2>3 DEF Budgeted
<1> QED
  BY <1>1, <1>2, <1>3, <1>4, <1>5, StepKinds

\* A loop that goes on after a step has seen no result too often.
LEMMA StuckStep ==
    ASSUME Types, Unstuck, [Next]_vars
    PROVE  Unstuck'
<1>1. CASE Quiet
  BY <1>1 DEF Quiet, Unstuck, Looping
<1>2. ASSUME NEW cost, NEW asked, NEW found, Accepted(cost, asked, found) PROVE Unstuck'
  BY <1>2 DEF Accepted, Reply, Unstuck, Looping
<1>3. ASSUME NEW i, StartBatch \/ ToolReturns(i) PROVE Unstuck'
  BY <1>3 DEF StartBatch, ToolReturns, Unstuck
<1>4. ASSUME NEW goal, Collect(goal) PROVE Unstuck'
  <2>1. pc = "batches" /\ sigSeen' = SeenUpTo(Len(turn)) /\ (pc' \in Looping => ~Stuck)
    BY <1>4 DEF Collect, AllBack, Leave, Looping
  <2>2. \A name \in Names : sigSeen[name].count < MaxIdenticalCalls
    BY <2>1 DEF Unstuck, Looping
  <2> QED
    BY <2>1, <2>2, TypeFacts, NotStuckBound DEF Unstuck
<1> QED
  BY <1>1, <1>2, <1>3, <1>4, StepKinds

\* A transcript is what precedes its last message, and that message.
LEMMA Reassembled ==
    ASSUME NEW a \in Seq(Message), a # <<>>
    PROVE  a = Front(a) \o <<Last(a)>>
<1>1. PICK la \in Nat \ {0} : la = Len(a)
  OBVIOUS
<1>2. /\ Last(a) = a[la] /\ Last(a) \in Message /\ Front(a) \in Seq(Message) /\ Len(Front(a)) = la - 1
      /\ \A p \in 1 .. la - 1 : Front(a)[p] = a[p]
  BY <1>1, LastFront
<1>3. PICK f \in Seq(Message), m \in Message : f = Front(a) /\ m = Last(a)
  BY <1>2
<1>4. /\ f \o <<m>> \in Seq(Message) /\ Len(f \o <<m>>) = la
      /\ \A p \in 1 .. la : (f \o <<m>>)[p] = a[p]
  BY <1>1, <1>2, <1>3
<1>5. f \o <<m>> = a
  BY <1>1, <1>4, SeqEqual
<1> QED
  BY <1>3, <1>5

\* A step leaves the transcript paired, or with one turn whose answers are to come,
\* and sends a paired one.
LEMMA TranscriptStep ==
    ASSUME Types, Types', Limits, Transcript, [Next]_vars
    PROVE  Transcript'
<1>0. /\ messages \in Seq(Message) /\ request \in Seq(Message) /\ Len(turn) \in Nat
      /\ step \in 0 .. MaxSteps /\ attempt \in Nat
      /\ \A asked \in Turns : Len(asked) \in Nat
  <2>1. Counters /\ MaxContextRecovery = 3
    BY TypesSplit DEF MaxContextRecovery
  <2> QED
    BY <2>1, TypeFacts DEF Counters
<1>1. Headed(messages) /\ (pc \in Calling => Headed(request))
  BY DEF Transcript
<1>2. ASSUME NEW loaded, AskModel(loaded) PROVE Transcript'
  <2>1. pc = "rails" /\ pc' = "model" /\ messages' = messages /\ request' = messages
    BY <1>2 DEF AskModel, Call
  <2> QED
    BY <1>1, <2>1 DEF Transcript, AlwaysPaired, Calling
<1>3. CASE TooLong
  <2>1. /\ pc \in {"model", "final", "wrapup"} /\ request' \in Recovered(request, attempt)
        /\ UNCHANGED <<pc, messages, slots>>
    BY <1>3 DEF TooLong, workVars, toolVars
  <2>2. Headed(request') /\ (Paired(request) => Paired(request'))
    BY <1>0, <1>1, <2>1, RecoveredPaired DEF Calling
  <2> QED
    BY <1>1, <2>1, <2>2 DEF Transcript, AlwaysPaired, Calling
<1>4. ASSUME NEW cost, NEW text, Refused(cost) \/ Answered(cost, text) PROVE Transcript'
  <2>1. pc = "model" /\ Paired(request) /\ messages' = request /\ pc' = "left"
    BY <1>4 DEF Refused, Answered, Reply, Leave
  <2> QED
    BY <1>1, <2>1 DEF Transcript, AlwaysPaired, Calling
<1>5. ASSUME NEW cost, Truncated(cost) PROVE Transcript'
  <2> DEFINE more == <<Text("assistant"), Text("user")>>
  <2>1. pc = "model" /\ Paired(request) /\ Headed(request)
    BY <1>1, <1>5 DEF Truncated, Reply, Calling
  <2>2. /\ pc' \in {"left", "rails"} /\ messages' \in {request, request \o more}
    BY <1>5 DEF Truncated, Leave
  <2>3. more \in Seq(Message) /\ Paired(more)
    <3> DEFINE a == <<Text("assistant")>>
               b == <<Text("user")>>
    <3>1. a \in Seq(Message) /\ Paired(a) /\ b \in Seq(Message) /\ Paired(b)
      BY PairedPieces
    <3>2. more = a \o b
      OBVIOUS
    <3> HIDE DEF a, b, more
    <3> QED
      BY <3>1, <3>2, PairedConcat, GrownTranscript
  <2> HIDE DEF more
  <2>4. Paired(request \o more) /\ Headed(request \o more)
    BY <1>0, <2>1, <2>3, PairedConcat, GrownTranscript
  <2>5. Paired(messages') /\ Headed(messages')
    BY <2>1, <2>2, <2>4
  <2> QED
    BY <2>2, <2>5 DEF Transcript, AlwaysPaired, Calling
<1>6. ASSUME NEW cost, NEW asked \in Turns, Capped(cost, asked) PROVE Transcript'
  <2> DEFINE n == Len(asked)
             more == <<Asks(step, n)>> \o Results(step, n)
  <2>1. pc = "model" /\ Paired(request) /\ Headed(request) /\ pc' = "left"
    BY <1>1, <1>6 DEF Capped, Reply, Leave, Calling
  <2>2. more \in Seq(Message) /\ Paired(more)
    BY <1>0, PairedPieces
  <2>3. messages' = request \o more
    <3>1. Asks(step, n) \in Message /\ Results(step, n) \in Seq(Message)
      BY <1>0, MessageTypes
    <3>2. messages' = (request \o <<Asks(step, n)>>) \o Results(step, n)
      BY <1>0, <1>6, <3>1, AppendedTranscript DEF Capped
    <3> HIDE DEF n
    <3> QED
      BY <1>0, <3>1, <3>2, ConcatAssociative, SMTT(30)
  <2> HIDE DEF more
  <2>4. Paired(messages') /\ Headed(messages')
    BY <1>0, <2>1, <2>2, <2>3, PairedConcat, GrownTranscript
  <2> QED
    BY <2>1, <2>4 DEF Transcript, AlwaysPaired, Calling
<1>7. ASSUME NEW cost, NEW asked \in Turns, NEW found, Accepted(cost, asked, found)
      PROVE  Transcript'
  <2>1. /\ pc = "model" /\ Paired(request) /\ Headed(request) /\ pc' = "batches"
        /\ messages' = Append(request, Asks(step, Len(asked))) /\ turn' = asked /\ step' = step
    BY <1>1, <1>7 DEF Accepted, Reply, Calling
  <2>2. Asks(step, Len(asked)) \in Message
    BY <1>0, MessageTypes
  <2>3. /\ messages' # <<>> /\ Last(messages') = Asks(step, Len(asked)) /\ Front(messages') = request
        /\ messages' = request \o <<Asks(step, Len(asked))>>
    BY <1>0, <2>1, <2>2, AppendedTranscript
  <2>4. Headed(messages')
    <3>1. <<Asks(step, Len(asked))>> \in Seq(Message)
      BY <2>2
    <3> QED
      BY <1>0, <2>1, <2>3, <3>1, GrownTranscript
  <2> QED
    BY <2>1, <2>3, <2>4 DEF Transcript, AlwaysPaired, Calling
<1>8. ASSUME NEW i, StartBatch \/ ToolReturns(i) PROVE Transcript'
  <2>1. UNCHANGED <<pc, messages, request, step, turn>>
    BY <1>8 DEF StartBatch, ToolReturns, callVars
  <2>2. pc = "batches"
    BY <1>8 DEF StartBatch, ToolReturns, Limits
  <2> QED
    BY <2>1, <2>2 DEF Transcript, AlwaysPaired, Calling
<1>9. CASE CollectThrows
  <2>1. "raw" \in ToSet(slots) /\ pc' = "left" /\ UNCHANGED <<messages, slots>>
    BY <1>9 DEF CollectThrows, Leave, workVars, toolVars
  <2>2. ToSet(slots)' = ToSet(slots)
    BY <2>1 DEF ToSet
  <2> QED
    BY <1>1, <2>1, <2>2 DEF Transcript, AlwaysPaired, Calling
<1>10. ASSUME NEW goal, Collect(goal) PROVE Transcript'
  <2> DEFINE n == Len(turn)
             more == <<Asks(step, n)>> \o Results(step, n)
             front == Front(messages)
  <2>1. /\ pc = "batches" /\ messages' = messages \o Results(step, n)
        /\ \/ pc' \in {"left", "rails"}
           \/ pc' = "final" /\ request' = messages'
    BY <1>10 DEF Collect, AllBack, Leave, Call
  <2>2. more \in Seq(Message) /\ Paired(more)
    BY <1>0, PairedPieces
  <2>3. /\ messages # <<>> /\ Headed(front) /\ Paired(front) /\ Last(messages) = Asks(step, n)
    BY <2>1 DEF Transcript
  <2>4. front \in Seq(Message)
    BY <1>0, <2>3, LastFront
  <2>5. messages = front \o <<Asks(step, n)>>
    BY <1>0, <2>3, Reassembled
  <2>6. messages' = front \o more
    <3>1. <<Asks(step, n)>> \in Seq(Message) /\ Results(step, n) \in Seq(Message)
      BY <1>0, MessageTypes
    <3> HIDE DEF front, n
    <3> QED
      BY <2>1, <2>4, <2>5, <3>1, ConcatAssociative DEF more
  <2> HIDE DEF more, front
  <2>7. Paired(messages') /\ Headed(messages')
    BY <2>2, <2>3, <2>4, <2>6, PairedConcat, GrownTranscript
  <2> QED
    BY <2>1, <2>7 DEF Transcript, AlwaysPaired, Calling
<1>11. ASSUME NEW cost, NEW text, Final(cost, text) PROVE Transcript'
  <2>1. /\ pc = "final" /\ pc' = "left"
        /\ (Paired(request) /\ messages' = request) \/ messages' = messages
    BY <1>11 DEF Final, Reply, CallFails
  <2> QED
    BY <1>1, <2>1 DEF Transcript, AlwaysPaired, Calling
<1>12. CASE WrapUp
  <2>1. pc = "left" /\ pc' = "wrapup" /\ request' = Append(messages, Text("user")) /\ UNCHANGED <<messages, slots>>
    BY <1>12 DEF WrapUp, Call, workVars, toolVars
  <2>2. <<Text("user")>> \in Seq(Message) /\ Paired(<<Text("user")>>) /\ Text("user") \in Message
    BY PairedPieces, MessageTypes
  <2>3. request' = messages \o <<Text("user")>>
    BY <1>0, <2>1, <2>2, AppendedTranscript
  <2>4. Headed(request') /\ (Paired(messages) => Paired(request'))
    BY <1>0, <1>1, <2>2, <2>3, PairedConcat, GrownTranscript
  <2>5. ToSet(slots)' = ToSet(slots)
    BY <2>1 DEF ToSet
  <2> QED
    BY <1>1, <2>1, <2>4, <2>5 DEF Transcript, AlwaysPaired, Calling
<1>13. ASSUME NEW text, Completed(text) PROVE Transcript'
  <2>1. /\ pc = "completion"
        /\ \/ pc' = "returned" /\ messages' = messages
           \/ pc' = "synthesis" /\ messages' = Append(messages, Text("user")) /\ request' = messages'
    BY <1>13 DEF Completed, Call
  <2>2. <<Text("user")>> \in Seq(Message) /\ Paired(<<Text("user")>>) /\ Text("user") \in Message
    BY PairedPieces, MessageTypes
  <2>3. Paired(messages)
    BY <2>1 DEF Transcript
  <2>4. /\ Append(messages, Text("user")) = messages \o <<Text("user")>>
        /\ Headed(messages \o <<Text("user")>>) /\ Paired(messages \o <<Text("user")>>)
    BY <1>0, <1>1, <2>2, <2>3, AppendedTranscript, PairedConcat, GrownTranscript
  <2> QED
    BY <1>1, <2>1, <2>4 DEF Transcript, AlwaysPaired, Calling
<1>14. ASSUME NEW cost, NEW text,
              WrappedUp(cost, text) \/ Return \/ CompletionFails \/ Synthesized(text)
       PROVE  Transcript'
  <2>1. pc' = "returned" /\ messages' = messages
    BY <1>14 DEF WrappedUp, Return, CompletionFails, Synthesized
  <2> QED
    BY <1>1, <2>1 DEF Transcript, AlwaysPaired, Calling
<1>15. CASE Rails \/ ModelFails
  <2>1. pc \in {"rails", "model"} /\ pc' = "left" /\ messages' = messages
    BY <1>15 DEF Rails, ModelFails, CallFails, Leave
  <2> QED
    BY <1>1, <2>1 DEF Transcript, AlwaysPaired, Calling
<1>16. CASE Abort \/ UNCHANGED vars
  <2>1. UNCHANGED <<pc, messages, request, step, turn, slots>>
    BY <1>16 DEF Abort, vars, callVars, workVars, toolVars
  <2>2. ToSet(slots)' = ToSet(slots)
    BY <2>1 DEF ToSet
  <2> QED
    BY <2>1, <2>2 DEF Transcript, AlwaysPaired
<1> QED
  BY <1>2, <1>3, <1>4, <1>5, <1>6, <1>7, <1>8, <1>9, <1>10, <1>11, <1>12, <1>13, <1>14, <1>15, <1>16
     DEF Next, Progress
-----------------------------------------------------------------------------
(* What follows for every run.                                             *)

\* The invariant is inductive.
LEMMA NextInvariant == IInv /\ [Next]_vars => IInv'
<1> SUFFICES ASSUME IInv, [Next]_vars PROVE IInv'
  OBVIOUS
<1>1. /\ Types /\ Limits /\ Shown /\ PlanSound /\ WritersAlone /\ Budgeted /\ Unstuck /\ Transcript
  BY DEF IInv
<1>2. Types'
  BY <1>1, TypesStep
<1> QED
  BY <1>1, <1>2, LimitsStep, ShownStep, PlanStep, BudgetStep, StuckStep, TranscriptStep DEF IInv

\* runAgenticLoop (src/src/pipeline/adaptive-runner.ts): whatever the models answer,
\* the tools return and the caller's signal does, the loop keeps its invariant.
THEOREM Invariant == Spec => []IInv
BY InitInvariant, NextInvariant, PTL DEF Spec

\* The cap on tool executions is hard, and every counter keeps to its limit: the
\* guard on a turn counts the calls that are planned and not started, as the batches
\* partition them.
THEOREM NeverOverCap == Spec => []CapHolds
<1>1. IInv => CapHolds
  BY DEF IInv, Types, Budgeted, CapHolds
<1> QED
  BY <1>1, Invariant, PTL

\* A tool that is not known to only read never runs beside another.
THEOREM WritersNeverRace == Spec => []WritersAlone
<1>1. IInv => WritersAlone
  BY DEF IInv
<1> QED
  BY <1>1, Invariant, PTL

\* A run that got one answer to one call three times in a row asks for no more.
THEOREM RepetitionStops == Spec => []NeverStuck
<1>1. IInv => NeverStuck
  BY DEF IInv, Unstuck, NeverStuck, Looping
<1> QED
  BY <1>1, Invariant, PTL

\* Every transcript a model is sent is one that a provider accepts, shortened or not,
\* unless a result was lost that cannot be serialized.
THEOREM TranscriptsAccepted == Spec => []AlwaysPaired
<1>1. IInv => AlwaysPaired
  BY DEF IInv, Transcript
<1> QED
  BY <1>1, Invariant, PTL

\* No turn of the loop begins once the signal has fired, and none but the last words
\* once the budget is spent: every action that calls a model comes after the rails.
THEOREM RailsStop == Spec => RailsHold
<1> DEFINE Stops == pc' # pc /\ pc' \in Calling =>
              /\ aborted => pc' # "model"
              /\ OverBudget => pc' = "final"
<1>1. ASSUME IInv, [Next]_vars PROVE [Stops]_vars
  <2>1. ASSUME NEW loaded, AskModel(loaded) PROVE Stops
    BY <2>1 DEF AskModel, Call
  <2>2. ASSUME NEW cost, NEW asked, NEW found, NEW text,
               \/ Refused(cost) \/ Truncated(cost) \/ Capped(cost, asked) \/ Answered(cost, text)
               \/ Accepted(cost, asked, found) \/ Final(cost, text) \/ WrappedUp(cost, text)
        PROVE  pc' \notin Calling
    BY <2>2 DEF Refused, Truncated, Capped, Answered, Accepted, Final, WrappedUp, Leave, Calling
  <2>3. ASSUME NEW i, NEW text,
               \/ Rails \/ TooLong \/ ModelFails \/ StartBatch \/ ToolReturns(i) \/ CollectThrows
               \/ Return \/ CompletionFails \/ Synthesized(text) \/ Abort \/ UNCHANGED vars
        PROVE  pc' \notin Calling \/ pc' = pc
    BY <2>3 DEF Rails, TooLong, ModelFails, StartBatch, ToolReturns, CollectThrows, Return,
                CompletionFails, Synthesized, Abort, vars, Leave, Calling
  <2>4. ASSUME NEW goal, Collect(goal) PROVE pc' \notin Calling \/ pc' = "final"
    BY <2>4 DEF Collect, Leave, Call, Calling
  <2>5. WrapUp => Stops
    BY DEF WrapUp, Unspent, Call
  <2>6. ASSUME NEW text, Completed(text) PROVE Stops
    <3>1. pc = "completion" /\ pc' \in {"synthesis", "returned"}
      BY <2>6 DEF Completed, Call
    <3>2. ~OverBudget
      BY <1>1, <3>1, TypeFacts DEF IInv, Limits, OverBudget
    <3> QED
      BY <3>1, <3>2
  <2> QED
    BY <1>1, <2>1, <2>2, <2>3, <2>4, <2>5, <2>6 DEF Next, Progress
<1> QED
  BY <1>1, Invariant, PTL DEF Spec, RailsHold

\* A registered tool runs only if the answered request offered it, or a find_tools
\* call before it in its turn: being disclosed and being offered are the same.
THEOREM DisclosureIsARule == Spec => NothingRunsUnseen
<1> DEFINE Offered == pc = "model" /\ pc' = "batches" =>
                \A b \in ToSet(batches') : \A i \in b.calls :
                   turn'[i] \in Tools => \/ turn'[i] \in toolSpecs
                                         \/ \E j \in 1 .. i - 1 : turn'[j] = FindTools
<1>1. ASSUME IInv, [Next]_vars PROVE [Offered]_vars
  <2> SUFFICES ASSUME pc = "model", pc' = "batches" PROVE Offered
    OBVIOUS
  <2>1. PICK cost \in {0, 1}, asked \in Turns, found \in SUBSET (Deferred \ disclosed) :
           Accepted(cost, asked, found)
    <3>1. ~Quiet
      BY DEF Quiet
    <3>2. ~StartBatch /\ \A i : ~ToolReturns(i)
      BY DEF StartBatch, ToolReturns
    <3>3. \A goal : ~Collect(goal)
      BY DEF Collect, AllBack
    <3> QED
      BY <1>1, <3>1, <3>2, <3>3, StepKinds
  <2> DEFINE toRun == {i \in DOMAIN asked : Runs(asked, i, found)}
             plan == PlanToolBatches(asked, toRun)
  <2>2. turn' = asked /\ batches' = plan
    BY <2>1 DEF Accepted
  <2>3. Planned(asked, toRun, Len(asked), plan)
    <3>1. toRun \in SUBSET DOMAIN asked /\ asked \in Seq(Names)
      BY <1>1, TypeFacts DEF IInv
    <3> HIDE DEF toRun
    <3> QED
      BY <3>1, PlanIsOrderedPartition
  <2>4. ASSUME NEW p \in DOMAIN plan, NEW i \in plan[p].calls, asked[i] \in Tools
        PROVE  asked[i] \in toolSpecs \/ \E j \in 1 .. i - 1 : asked[j] = FindTools
    <3>1. i \in toRun
      <4> HIDE DEF plan, toRun
      <4> QED
        BY <2>3, <2>4 DEF Planned
    <3>2. asked[i] \in Deferred \ disclosed => \E j \in 1 .. i - 1 : asked[j] = FindTools
      BY <3>1 DEF Runs
    <3>3. asked[i] \in disclosed => asked[i] \in toolSpecs
      BY <1>1 DEF IInv, Shown
    <3>4. asked[i] \notin Deferred => asked[i] \in disclosed
      BY <1>1, <2>4 DEF IInv, Shown
    <3> QED
      BY <3>2, <3>3, <3>4
  <2> HIDE DEF plan
  <2> QED
    BY <2>2, <2>4 DEF ToSet
<1> QED
  BY <1>1, Invariant, PTL DEF Spec, NothingRunsUnseen
=============================================================================
