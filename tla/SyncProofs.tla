----------------------------- MODULE SyncProofs ----------------------------
(***************************************************************************)
(* Proofs about SyncService.tla, for every number of clients, cards and    *)
(* revisions, every page size and every cap of the cursor cache.           *)
(***************************************************************************)
EXTENDS SyncService, JournalGapProofs, FunctionTheorems, FiniteSetTheorems

-----------------------------------------------------------------------------
(* The listings: ORDER BY of a finite set of rows *)

\* No two rows of a listing are alike in the columns it is ordered by.
Sortable(S) ==
    /\ IsFiniteSet(S)
    /\ \A x \in S : x.rev \in Nat /\ x.href \in Nat
    /\ \A x, y \in S : x.rev = y.rev /\ x.href = y.href => x = y

\* The rows before x.
Below(S, x) == {y \in S : ByRevision(y, x)}

LEMMA RankIncreases ==
  ASSUME NEW S, Sortable(S), NEW x \in S
  PROVE  /\ Cardinality(Below(S, x)) \in Nat /\ Cardinality(S) \in Nat
         /\ Cardinality(Below(S, x)) < Cardinality(S)
         /\ \A y \in S : x # y => ByRevision(x, y) \/ ByRevision(y, x)
         /\ \A y \in S : ByRevision(x, y) => (Cardinality(Below(S, x)) < Cardinality(Below(S, y)))
<1>1. /\ IsFiniteSet(S) /\ Cardinality(S) \in Nat /\ \A y \in S : y.rev \in Nat /\ y.href \in Nat
      /\ \A y, z \in S : y.rev = z.rev /\ y.href = z.href => y = z
  BY FS_CardinalityType DEF Sortable
<1>2. /\ \A y, z, w \in S : ByRevision(y, z) /\ ByRevision(z, w) => ByRevision(y, w)
      /\ \A y \in S : ~ByRevision(y, y)
      /\ \A y, z \in S : y # z => ByRevision(y, z) \/ ByRevision(z, y)
  BY <1>1 DEF ByRevision
<1>3. \A y \in S : /\ Below(S, y) \in SUBSET S /\ y \notin Below(S, y) /\ IsFiniteSet(Below(S, y))
                  /\ Cardinality(Below(S, y)) \in Nat
  <2>. SUFFICES ASSUME NEW y \in S
                PROVE  /\ Below(S, y) \in SUBSET S /\ y \notin Below(S, y) /\ IsFiniteSet(Below(S, y))
                       /\ Cardinality(Below(S, y)) \in Nat
    OBVIOUS
  <2>1. Below(S, y) \in SUBSET S /\ y \notin Below(S, y)
    BY <1>2 DEF Below
  <2>. QED  BY <1>1, <2>1, FS_Subset, FS_CardinalityType
<1>4. ASSUME NEW T, IsFiniteSet(T), NEW U \in SUBSET T, NEW y \in T, y \notin U
      PROVE  Cardinality(U) < Cardinality(T)
  <2>1. /\ Cardinality(U) <= Cardinality(T) /\ Cardinality(T) # Cardinality(U)
        /\ Cardinality(U) \in Nat /\ Cardinality(T) \in Nat
    BY <1>4, FS_Subset, FS_CardinalityType
  <2>. QED  BY <2>1
<1>5. Cardinality(Below(S, x)) < Cardinality(S)
  BY <1>1, <1>3, <1>4
<1>6. ASSUME NEW y \in S, ByRevision(x, y) PROVE Cardinality(Below(S, x)) < Cardinality(Below(S, y))
  <2>1. Below(S, x) \in SUBSET Below(S, y) /\ x \in Below(S, y)
    BY <1>2, <1>6 DEF Below
  <2>. QED  BY <1>3, <1>4, <2>1
<1>. QED  BY <1>1, <1>2, <1>3, <1>5, <1>6

\* A listing has every row once, in the order of ByRevision.
LEMMA OrderedRows ==
  ASSUME NEW S, Sortable(S)
  PROVE  /\ Ordered(S) \in Seq(S)
         /\ \A i, j \in DOMAIN Ordered(S) : i < j => ByRevision(Ordered(S)[i], Ordered(S)[j])
         /\ \A x \in S : \E i \in DOMAIN Ordered(S) : Ordered(S)[i] = x
<1> DEFINE n == Cardinality(S)
           rank == [x \in S |-> Cardinality(Below(S, x)) + 1]
           at == [i \in 1 .. n |-> CHOOSE x \in S : rank[x] = i]
<1>1. IsFiniteSet(S) /\ n \in Nat /\ IsFiniteSet(1 .. n) /\ Cardinality(1 .. n) = n
  <2>1. IsFiniteSet(S) /\ n \in Nat
    BY FS_CardinalityType DEF Sortable
  <2>. QED  BY <2>1, FS_Interval
<1>2. \A x \in S : rank[x] \in 1 .. n
  BY <1>1, RankIncreases
<1>3. \A x, y \in S : /\ (rank[x] = rank[y]) => x = y
                      /\ ByRevision(x, y) => (rank[x] < rank[y])
                      /\ (rank[x] < rank[y]) => ByRevision(x, y)
  <2>1. ASSUME NEW x \in S, NEW y \in S PROVE ByRevision(x, y) => (rank[x] < rank[y])
    <3>1. Cardinality(Below(S, x)) \in Nat /\ Cardinality(Below(S, y)) \in Nat
      BY RankIncreases
    <3>2. ByRevision(x, y) => (Cardinality(Below(S, x)) < Cardinality(Below(S, y)))
      BY RankIncreases
    <3>. QED  BY <3>1, <3>2
  <2>2. \A x, y \in S : x # y => ByRevision(x, y) \/ ByRevision(y, x)
    BY RankIncreases
  <2>3. \A x \in S : rank[x] \in Int
    BY <1>1, <1>2
  <2>. HIDE DEF rank
  <2>4. ASSUME NEW x \in S, NEW y \in S
        PROVE  /\ (rank[x] = rank[y]) => x = y
               /\ (rank[x] < rank[y]) => ByRevision(x, y)
    <3>1. rank[x] \in Int /\ rank[y] \in Int
      BY <2>3
    <3>2. (ByRevision(x, y) => (rank[x] < rank[y])) /\ (ByRevision(y, x) => (rank[y] < rank[x]))
      BY <2>1
    <3>. QED  BY <2>2, <3>1, <3>2
  <2>. QED  BY <2>1, <2>4
<1>4. rank \in Injection(S, 1 .. n)
  <2>1. rank \in [S -> 1 .. n] /\ DOMAIN rank = S
    BY <1>2
  <2>. HIDE DEF rank
  <2>. QED  BY <1>3, <2>1 DEF Injection, IsInjective
<1>5. \A i \in 1 .. n : \E x \in S : rank[x] = i
  <2>. HIDE DEF rank
  <2>1. rank \in Surjection(S, 1 .. n)
    BY <1>1, <1>4, FS_Injection
  <2>. QED  BY <2>1 DEF Surjection
<1>6. \A i \in 1 .. n : at[i] \in S /\ rank[at[i]] = i
  <2>. HIDE DEF rank
  <2>. QED  BY <1>5
<1>7. at \in [1 .. n -> S]
  BY <1>6
<1> DEFINE Sorted(list) == \A i, j \in DOMAIN list : i < j => ByRevision(list[i], list[j])
<1>8. at \in SetToSeqs(S) /\ Sorted(at)
  <2>. HIDE DEF rank
  <2>1. DOMAIN at = 1 .. n
    OBVIOUS
  <2>. HIDE DEF at
  <2>2. \A i, j \in 1 .. n : i # j => at[i] # at[j]
    BY <1>6
  <2>3. ASSUME NEW i \in 1 .. n, NEW j \in 1 .. n, i < j PROVE ByRevision(at[i], at[j])
    <3>1. rank[at[i]] = i /\ rank[at[j]] = j /\ at[i] \in S /\ at[j] \in S
      BY <1>6
    <3>. QED  BY <1>3, <2>3, <3>1
  <2>. QED  BY <1>7, <2>1, <2>2, <2>3 DEF SetToSeqs
<1>9. Ordered(S) \in SetToSeqs(S) /\ Sorted(Ordered(S))
  <2>. HIDE DEF at
  <2>1. Ordered(S) = CHOOSE list \in SetToSeqs(S) : Sorted(list)
    BY DEF Ordered
  <2>. QED  BY <1>8, <2>1
<1>10. Ordered(S) \in Injection(1 .. n, S)
  BY <1>9 DEF SetToSeqs, Injection, IsInjective
<1>11. Ordered(S) \in Surjection(1 .. n, S)
  BY <1>1, <1>10, FS_Injection
<1>12. Ordered(S) \in [1 .. n -> S]
  BY <1>10 DEF Injection
<1>13. Ordered(S) \in Seq(S)
  <2>1. Ordered(S) \in UNION {[1 .. k -> S] : k \in Nat}
    BY <1>1, <1>12
  <2>. QED  BY <2>1, SeqDef, Zenon
<1>. QED  BY <1>9, <1>11, <1>12, <1>13 DEF Surjection

-----------------------------------------------------------------------------
(* The cursor cache *)

Cursor == [id : BookIds, rev : 0 .. MaxRev, head : 0 .. MaxRev, items : Seq(Item)]

\* q has cursors of p only, and none twice.
Part(q, p) ==
    \E g \in [DOMAIN q -> DOMAIN p] :
        /\ \A a, b \in DOMAIN q : g[a] = g[b] => a = b
        /\ \A a \in DOMAIN q : q[a] = p[g[a]]

LEMMA PartOfItself == ASSUME NEW p \in Seq(Cursor) PROVE Part(p, p)
<1> DEFINE g == [a \in DOMAIN p |-> a]
<1>1. g \in [DOMAIN p -> DOMAIN p] /\ (\A a \in DOMAIN p : g[a] = a)
  OBVIOUS
<1>. HIDE DEF g
<1>. QED  BY <1>1 DEF Part

LEMMA PartOfPart ==
  ASSUME NEW p, NEW q, NEW r, Part(r, q), Part(q, p)
  PROVE  Part(r, p)
<1>1. PICK g \in [DOMAIN q -> DOMAIN p] :
        /\ \A a, b \in DOMAIN q : g[a] = g[b] => a = b
        /\ \A a \in DOMAIN q : q[a] = p[g[a]]
  BY DEF Part
<1>2. PICK f \in [DOMAIN r -> DOMAIN q] :
        /\ \A a, b \in DOMAIN r : f[a] = f[b] => a = b
        /\ \A a \in DOMAIN r : r[a] = q[f[a]]
  BY DEF Part
<1> DEFINE e == [a \in DOMAIN r |-> g[f[a]]]
<1>3. e \in [DOMAIN r -> DOMAIN p] /\ \A a \in DOMAIN r : e[a] = g[f[a]] /\ f[a] \in DOMAIN q
  BY <1>1, <1>2
<1>. HIDE DEF e
<1>4. /\ \A a, b \in DOMAIN r : e[a] = e[b] => a = b
      /\ \A a \in DOMAIN r : r[a] = p[e[a]]
  BY <1>1, <1>2, <1>3
<1>. QED  BY <1>3, <1>4 DEF Part

\* The tail of the cache from its i-th cursor on.
LEMMA RestIsPart ==
  ASSUME NEW p \in Seq(Cursor), NEW i \in 1 .. Len(p) + 1
  PROVE  SubSeq(p, i, Len(p)) \in Seq(Cursor) /\ Part(SubSeq(p, i, Len(p)), p)
<1> DEFINE q == SubSeq(p, i, Len(p))
           g == [a \in DOMAIN q |-> a + i - 1]
<1>1. Len(p) \in Nat /\ i \in Nat /\ DOMAIN p = 1 .. Len(p)
  BY LenProperties
<1>2. \A a \in i .. Len(p) : p[a] \in Cursor
  <2>. SUFFICES ASSUME NEW a \in i .. Len(p) PROVE p[a] \in Cursor
    OBVIOUS
  <2>1. a \in 1 .. Len(p)
    BY <1>1
  <2>. QED  BY <2>1, ElementOfSeq
<1>3. /\ q \in Seq(Cursor) /\ Len(q) = Len(p) - i + 1
      /\ \A a \in 1 .. Len(p) - i + 1 : q[a] = p[i + a - 1]
  BY <1>1, <1>2, SubSeqProperties
<1>. HIDE DEF q
<1>4. DOMAIN q = 1 .. Len(p) - i + 1
  BY <1>3, LenProperties
<1>5. \A a \in DOMAIN q : g[a] = a + i - 1 /\ a + i - 1 \in DOMAIN p
  BY <1>1, <1>4
<1>6. g \in [DOMAIN q -> DOMAIN p]
  BY <1>5
<1>. HIDE DEF g
<1>7. ASSUME NEW a \in DOMAIN q PROVE q[a] = p[g[a]] /\ g[a] = a + i - 1 /\ a \in Int
  <2>1. a \in 1 .. Len(p) - i + 1
    BY <1>4
  <2>2. a \in Int /\ i + a - 1 = a + i - 1
    BY <1>1, <2>1
  <2>3. q[a] = p[i + a - 1]
    BY <1>3, <2>1
  <2>. QED  BY <1>5, <2>2, <2>3
<1>7a. \A a, b \in DOMAIN q : g[a] = g[b] => a = b
  BY <1>1, <1>7
<1>8. Part(q, p)
  BY <1>6, <1>7, <1>7a DEF Part
<1>. QED  BY <1>3, <1>8 DEF q

LEMMA RemovedIsPart ==
  ASSUME NEW p \in Seq(Cursor), NEW k \in 1 .. Len(p)
  PROVE  /\ RemoveAt(p, k) \in Seq(Cursor) /\ Part(RemoveAt(p, k), p)
         /\ \A a \in DOMAIN RemoveAt(p, k) : \E b \in DOMAIN p \ {k} : RemoveAt(p, k)[a] = p[b]
<1> DEFINE s1 == SubSeq(p, 1, k - 1)
           s2 == SubSeq(p, k + 1, Len(p))
           q == RemoveAt(p, k)
           g == [a \in DOMAIN q |-> IF a < k THEN a ELSE a + 1]
<1>1. Len(p) \in Nat /\ k \in Nat /\ k >= 1 /\ k <= Len(p) /\ DOMAIN p = 1 .. Len(p)
  BY LenProperties
<1>2. \A a \in 1 .. Len(p) : p[a] \in Cursor
  BY ElementOfSeq
<1>3. /\ s1 \in Seq(Cursor) /\ Len(s1) = k - 1
      /\ \A a \in 1 .. k - 1 : s1[a] = p[a]
  <2>1. \A a \in 1 .. k - 1 : p[a] \in Cursor
    BY <1>1, <1>2
  <2>2. /\ s1 \in Seq(Cursor) /\ Len(s1) = (IF 1 <= k - 1 THEN k - 1 - 1 + 1 ELSE 0)
        /\ \A a \in 1 .. k - 1 - 1 + 1 : s1[a] = p[1 + a - 1]
    BY <1>1, <2>1, SubSeqProperties
  <2>. HIDE DEF s1
  <2>. QED  BY <1>1, <2>2
<1>4. /\ s2 \in Seq(Cursor) /\ Len(s2) = Len(p) - k
      /\ \A a \in 1 .. Len(p) - k : s2[a] = p[k + a]
  <2>1. \A a \in k + 1 .. Len(p) : p[a] \in Cursor
    BY <1>1, <1>2
  <2>2. /\ s2 \in Seq(Cursor) /\ Len(s2) = (IF k + 1 <= Len(p) THEN Len(p) - (k + 1) + 1 ELSE 0)
        /\ \A a \in 1 .. Len(p) - (k + 1) + 1 : s2[a] = p[k + 1 + a - 1]
    BY <1>1, <2>1, SubSeqProperties
  <2>. HIDE DEF s2
  <2>3. /\ (IF k + 1 <= Len(p) THEN Len(p) - (k + 1) + 1 ELSE 0) = Len(p) - k
        /\ Len(p) - (k + 1) + 1 = Len(p) - k
        /\ \A a \in 1 .. Len(p) - k : k + 1 + a - 1 = k + a
    <3>. DEFINE n == Len(p)
    <3>1. n \in Nat /\ k \in Nat /\ k <= n
      BY <1>1
    <3>. HIDE DEF n
    <3>2. /\ (IF k + 1 <= n THEN n - (k + 1) + 1 ELSE 0) = n - k
          /\ n - (k + 1) + 1 = n - k
      BY <3>1
    <3>3. \A a \in 1 .. n - k : k + 1 + a - 1 = k + a
      BY <3>1
    <3>. QED  BY <3>2, <3>3 DEF n
  <2>. QED  BY <2>2, <2>3
<1>5. q = s1 \o s2
  BY DEF RemoveAt
<1>. HIDE DEF s1, s2, q
<1>6. /\ q \in Seq(Cursor) /\ Len(q) = Len(p) - 1
      /\ \A a \in 1 .. Len(p) - 1 : q[a] = IF a <= k - 1 THEN s1[a] ELSE s2[a - (k - 1)]
  <2>1. /\ q \in Seq(Cursor) /\ Len(q) = Len(s1) + Len(s2)
        /\ \A a \in 1 .. Len(s1) + Len(s2) : q[a] = IF a <= Len(s1) THEN s1[a] ELSE s2[a - Len(s1)]
    BY <1>3, <1>4, <1>5, ConcatProperties
  <2>. QED  BY <1>1, <1>3, <1>4, <2>1
<1>7. DOMAIN q = 1 .. Len(p) - 1
  BY <1>6, LenProperties
<1>8. ASSUME NEW a \in DOMAIN q
      PROVE  /\ g[a] = (IF a < k THEN a ELSE a + 1)
             /\ g[a] \in DOMAIN p /\ g[a] # k /\ q[a] = p[g[a]]
  <2>1. g[a] = (IF a < k THEN a ELSE a + 1) /\ a \in 1 .. Len(p) - 1
    BY <1>7
  <2>. HIDE DEF g
  <2>2. CASE a < k
    BY <1>1, <1>3, <1>6, <2>1, <2>2
  <2>3. CASE ~(a < k)
    <3>1. q[a] = s2[a - (k - 1)] /\ a - (k - 1) \in 1 .. Len(p) - k /\ g[a] = a + 1
      BY <1>1, <1>6, <2>1, <2>3
    <3>2. s2[a - (k - 1)] = p[k + (a - (k - 1))] /\ k + (a - (k - 1)) = a + 1
      BY <1>1, <1>4, <2>1, <3>1
    <3>. QED  BY <1>1, <2>1, <2>3, <3>1, <3>2
  <2>. QED  BY <2>2, <2>3
<1>9. g \in [DOMAIN q -> DOMAIN p]
  BY <1>8
<1>. HIDE DEF g
<1>10. \A a, b \in DOMAIN q : g[a] = g[b] => a = b
  BY <1>1, <1>7, <1>8
<1>11. Part(q, p)
  BY <1>8, <1>9, <1>10 DEF Part
<1>12. \A a \in DOMAIN q : \E b \in DOMAIN p \ {k} : q[a] = p[b]
  BY <1>8
<1>. QED  BY <1>6, <1>11, <1>12 DEF q

\* The items the cache holds, by cursor and place.
Slots(p) == UNION {{a} \X DOMAIN p[a].items : a \in DOMAIN p}

LEMMA SlotsFinite == ASSUME NEW p \in Seq(Cursor) PROVE IsFiniteSet(Slots(p))
<1> DEFINE T == {{a} \X DOMAIN p[a].items : a \in DOMAIN p}
           f == [a \in DOMAIN p |-> {a} \X DOMAIN p[a].items]
<1>1. Len(p) \in Nat /\ DOMAIN p = 1 .. Len(p)
  BY LenProperties
<1>2. IsFiniteSet(DOMAIN p)
  BY <1>1, FS_Interval
<1>3. f \in [DOMAIN p -> T] /\ \A t \in T : \E a \in DOMAIN p : f[a] = t
  OBVIOUS
<1>4. IsFiniteSet(T)
  <2>. HIDE DEF f, T
  <2>1. f \in Surjection(DOMAIN p, T)
    BY <1>3 DEF Surjection
  <2>. QED  BY <1>2, <2>1, FS_Surjection
<1>5. ASSUME NEW a \in DOMAIN p PROVE IsFiniteSet({a} \X DOMAIN p[a].items)
  <2>1. p[a] \in Cursor
    BY <1>1, ElementOfSeq
  <2>2. p[a].items \in Seq(Item)
    BY <2>1 DEF Cursor
  <2>3. Len(p[a].items) \in Nat /\ DOMAIN p[a].items = 1 .. Len(p[a].items)
    BY <2>2, LenProperties
  <2>4. IsFiniteSet({a}) /\ IsFiniteSet(1 .. Len(p[a].items))
    <3>1. \A n \in Nat : IsFiniteSet(1 .. n)
      BY FS_Interval
    <3>. QED  BY <2>3, <3>1, FS_Singleton
  <2>. QED  BY <2>3, <2>4, FS_Product
<1>6. \A t \in T : IsFiniteSet(t)
  BY <1>5
<1>7. Slots(p) = UNION T
  BY DEF Slots
<1>. HIDE DEF T
<1>. QED  BY <1>4, <1>6, <1>7, FS_UNION

\* What is left of a cache that is within its caps is within them.
LEMMA PartFits ==
  ASSUME NEW p \in Seq(Cursor), NEW q \in Seq(Cursor), Part(q, p), ~OverCap(p)
  PROVE  ~OverCap(q)
<1>1. PICK g \in [DOMAIN q -> DOMAIN p] :
        /\ \A a, b \in DOMAIN q : g[a] = g[b] => a = b
        /\ \A a \in DOMAIN q : q[a] = p[g[a]]
  BY DEF Part
<1>2. /\ Len(p) \in Nat /\ DOMAIN p = 1 .. Len(p) /\ Len(q) \in Nat /\ DOMAIN q = 1 .. Len(q)
  BY LenProperties
<1>3. Len(q) <= Len(p)
  <2>1. g \in Injection(DOMAIN q, DOMAIN p)
    BY <1>1, Fun_IsInj
  <2>2. Cardinality(DOMAIN q) <= Cardinality(DOMAIN p)
    BY <1>2, <2>1, FS_Injection, FS_Interval
  <2>3. \A n \in Nat : Cardinality(1 .. n) = n
    <3>. SUFFICES ASSUME NEW n \in Nat PROVE Cardinality(1 .. n) = n
      OBVIOUS
    <3>1. Cardinality(1 .. n) = IF 1 > n THEN 0 ELSE n - 1 + 1
      BY FS_Interval
    <3>. QED  BY <3>1
  <2>. QED  BY <1>2, <2>2, <2>3
<1>4. ItemCount(q) <= ItemCount(p)
  <2> DEFINE f == [s \in Slots(q) |-> <<g[s[1]], s[2]>>]
  <2>1. \A s \in Slots(q) : \E a \in DOMAIN q : \E b \in DOMAIN q[a].items : s = <<a, b>>
    BY DEF Slots
  <2>2. \A a \in DOMAIN p : \A b \in DOMAIN p[a].items : <<a, b>> \in Slots(p)
    BY DEF Slots
  <2>3. ASSUME NEW s \in Slots(q) PROVE f[s] \in Slots(p)
    <3>1. PICK a \in DOMAIN q : \E b \in DOMAIN q[a].items : s = <<a, b>>
      BY <2>1
    <3>2. PICK b \in DOMAIN q[a].items : s = <<a, b>>
      BY <3>1
    <3>3. g[a] \in DOMAIN p /\ b \in DOMAIN p[g[a]].items
      BY <1>1
    <3>4. f[s] = <<g[a], b>>
      BY <3>2
    <3>. QED  BY <2>2, <3>3, <3>4
  <2>4. ASSUME NEW s \in Slots(q), NEW t \in Slots(q), f[s] = f[t] PROVE s = t
    <3>1. PICK a \in DOMAIN q : \E b \in DOMAIN q[a].items : s = <<a, b>>
      BY <2>1
    <3>2. PICK b : s = <<a, b>>
      BY <3>1
    <3>3. PICK c \in DOMAIN q : \E b2 \in DOMAIN q[c].items : t = <<c, b2>>
      BY <2>1
    <3>4. PICK d : t = <<c, d>>
      BY <3>3
    <3>5. f[s] = <<g[a], b>> /\ f[t] = <<g[c], d>>
      BY <3>2, <3>4
    <3>6. g[a] = g[c] /\ b = d
      BY <2>4, <3>5
    <3>. QED  BY <1>1, <3>2, <3>4, <3>6
  <2>5. f \in [Slots(q) -> Slots(p)]
    BY <2>3
  <2>6. f \in Injection(Slots(q), Slots(p))
    <3>. HIDE DEF f
    <3>. QED  BY <2>4, <2>5, Fun_IsInj
  <2>7. Cardinality(Slots(q)) <= Cardinality(Slots(p))
    <3>. HIDE DEF f
    <3>. QED  BY <2>6, SlotsFinite, FS_Injection
  <2>. QED  BY <2>7 DEF Slots, ItemCount
<1>5. ItemCount(q) \in Nat /\ ItemCount(p) \in Nat
  BY SlotsFinite, FS_CardinalityType DEF Slots, ItemCount
<1>6. MaxEntries \in Nat /\ MaxItems \in Nat
  BY SyncAssumption
<1>. QED  BY <1>2, <1>3, <1>4, <1>5, <1>6 DEF OverCap

LEMMA EmptyFits == ~OverCap(<<>>)
<1>1. Slots(<<>>) = {}
  BY DEF Slots
<1>2. ItemCount(<<>>) = 0
  BY <1>1, FS_EmptySet DEF Slots, ItemCount
<1>3. Len(<<>>) = 0 /\ MaxEntries \in Nat /\ MaxItems \in Nat
  BY EmptySeq, SyncAssumption
<1>. QED  BY <1>2, <1>3 DEF OverCap

LEMMA MinOfNaturals ==
  ASSUME NEW S, S \subseteq Nat, S # {}
  PROVE  Min(S) \in S /\ \A i \in S : Min(S) <= i
<1>1. PICK x \in S : \A y \in S : ~(<<y, x>> \in OpToRel(<, Nat))
  BY WFMin, NatLessThanWellFounded
<1>2. \A y \in S : ~(y < x)
  BY <1>1 DEF OpToRel
<1>3. \A y \in S : x <= y
  BY <1>2
<1>. QED  BY <1>3, Zenon DEF Min

\* Dropping the oldest ends with a cache within its caps.
LEMMA EvictedFits ==
  ASSUME NEW p \in Seq(Cursor)
  PROVE  Evicted(p) \in Seq(Cursor) /\ Part(Evicted(p), p) /\ ~OverCap(Evicted(p))
<1> DEFINE S == {i \in 1 .. Len(p) + 1 : ~OverCap(SubSeq(p, i, Len(p)))}
<1>1. Len(p) \in Nat
  BY LenProperties
<1>2. Len(p) + 1 \in S
  <2>1. SubSeq(p, Len(p) + 1, Len(p)) = <<>>
    BY <1>1, SubSeqEmpty
  <2>2. Len(p) + 1 \in 1 .. Len(p) + 1
    BY <1>1
  <2>. QED  BY <2>1, <2>2, EmptyFits
<1>3. S \subseteq Nat /\ S \subseteq 1 .. Len(p) + 1
  BY <1>1
<1>4. Min(S) \in S
  <2>. HIDE DEF S
  <2>. QED  BY <1>2, <1>3, MinOfNaturals
<1>5. Evicted(p) = SubSeq(p, Min(S), Len(p))
  BY DEF Evicted
<1>6. ~OverCap(SubSeq(p, Min(S), Len(p))) /\ Min(S) \in 1 .. Len(p) + 1
  BY <1>4
<1>. HIDE DEF S
<1>. QED  BY <1>5, <1>6, RestIsPart

-----------------------------------------------------------------------------
(* Pages *)

LEMMA MaxOfTwo ==
  ASSUME NEW a \in Nat, NEW b \in Nat
  PROVE  Max({a, b}) \in {a, b} /\ Max({a, b}) >= a /\ Max({a, b}) >= b
<1>1. \E x \in {a, b} : \A y \in {a, b} : x >= y
  <2>1. CASE a >= b
    BY <2>1
  <2>2. CASE ~(a >= b)
    BY <2>2
  <2>. QED  BY <2>1, <2>2
<1>2. Max({a, b}) \in {a, b} /\ \A y \in {a, b} : Max({a, b}) >= y
  BY <1>1, Zenon DEF Max
<1>. QED  BY <1>2

\* What the client sees of a listing, and what is left of it.
LEMMA Pages ==
  ASSUME NEW items \in Seq(Item), NEW limit \in Nat
  PROVE  /\ Shown(items, limit) \in Seq(Item)
         /\ \A a \in DOMAIN Shown(items, limit) : a \in DOMAIN items /\ Shown(items, limit)[a] = items[a]
         /\ Truncated(items, limit) =>
              /\ DOMAIN Shown(items, limit) = 1 .. limit /\ limit \in DOMAIN items
              /\ Remaining(items, limit) \in Seq(Item) /\ Remaining(items, limit) # <<>>
              /\ DOMAIN Remaining(items, limit) = 1 .. Len(items) - limit
              /\ \A a \in DOMAIN Remaining(items, limit) :
                    limit + a \in DOMAIN items /\ Remaining(items, limit)[a] = items[limit + a]
         /\ ~Truncated(items, limit) => Shown(items, limit) = items
<1>1. Len(items) \in Nat /\ DOMAIN items = 1 .. Len(items)
  BY LenProperties
<1>2. \A a \in 1 .. Len(items) : items[a] \in Item
  BY ElementOfSeq
<1>3. CASE ~Truncated(items, limit)
  BY <1>3 DEF Shown
<1>4. CASE Truncated(items, limit)
  <2>1. limit > 0 /\ limit < Len(items) /\ limit \in DOMAIN items
    BY <1>1, <1>4 DEF Truncated
  <2>2. /\ \A a \in 1 .. limit : a \in 1 .. Len(items) /\ items[a] \in Item
        /\ \A a \in limit + 1 .. Len(items) : a \in 1 .. Len(items) /\ items[a] \in Item
    BY <1>1, <1>2, <2>1
  <2>3. /\ SubSeq(items, 1, limit) \in Seq(Item) /\ Len(SubSeq(items, 1, limit)) = limit
        /\ \A a \in 1 .. limit : SubSeq(items, 1, limit)[a] = items[a]
    <3>1. /\ SubSeq(items, 1, limit) \in Seq(Item)
          /\ Len(SubSeq(items, 1, limit)) = IF 1 <= limit THEN limit - 1 + 1 ELSE 0
          /\ \A a \in 1 .. limit - 1 + 1 : SubSeq(items, 1, limit)[a] = items[1 + a - 1]
      BY <2>2, SubSeqProperties
    <3>2. 1 <= limit /\ limit - 1 + 1 = limit /\ \A a \in 1 .. limit : 1 + a - 1 = a
      BY <2>1
    <3>. QED  BY <3>1, <3>2
  <2>4. /\ Remaining(items, limit) \in Seq(Item) /\ Len(Remaining(items, limit)) = Len(items) - limit
        /\ \A a \in 1 .. Len(items) - limit : Remaining(items, limit)[a] = items[limit + a]
    <3> DEFINE n == Len(items)
    <3>1. /\ Remaining(items, limit) \in Seq(Item)
          /\ Len(Remaining(items, limit)) = IF limit + 1 <= n THEN n - (limit + 1) + 1 ELSE 0
          /\ \A a \in 1 .. n - (limit + 1) + 1 : Remaining(items, limit)[a] = items[limit + 1 + a - 1]
      BY <1>1, <2>2, SubSeqProperties DEF Remaining
    <3>2. n \in Nat /\ limit < n
      BY <1>1, <2>1
    <3>. HIDE DEF n
    <3>3. limit + 1 <= n /\ n - (limit + 1) + 1 = n - limit
      BY <3>2
    <3>4. \A a \in 1 .. n - limit : limit + 1 + a - 1 = limit + a
      BY <3>2
    <3>5. /\ Remaining(items, limit) \in Seq(Item) /\ Len(Remaining(items, limit)) = n - limit
          /\ \A a \in 1 .. n - limit : Remaining(items, limit)[a] = items[limit + a]
      BY <3>1, <3>3, <3>4
    <3>. QED  BY <3>5 DEF n
  <2>5. Shown(items, limit) = SubSeq(items, 1, limit)
    BY <1>4 DEF Shown
  <2>6. DOMAIN Shown(items, limit) = 1 .. limit /\ DOMAIN Remaining(items, limit) = 1 .. Len(items) - limit
    BY <2>3, <2>4, <2>5, LenProperties
  <2>7. \A a \in 1 .. Len(items) - limit : limit + a \in DOMAIN items
    BY <1>1, <2>1
  <2>8. Remaining(items, limit) # <<>>
    <3>1. Len(items) - limit # 0
      <4>1. Len(items) \in Nat /\ limit < Len(items)
        BY <1>1, <2>1
      <4>. QED  BY <4>1
    <3>2. Len(Remaining(items, limit)) # 0
      BY <2>4, <3>1
    <3>. QED  BY <3>2, EmptySeq
  <2>. QED  BY <1>1, <1>4, <2>1, <2>2, <2>3, <2>4, <2>5, <2>6, <2>7, <2>8
<1>. QED  BY <1>3, <1>4

\* The token of a page: where a page that was cut stops, and else where the listing
\* stops or the head, whichever is later.
LEMMA PageTokens ==
  ASSUME NEW items \in Seq(Item), NEW limit \in Nat, NEW head \in 0 .. MaxRev
  PROVE  LET rev == PageTokenRevision(head, items, limit) IN
         /\ rev \in 0 .. MaxRev
         /\ Truncated(items, limit) => rev = items[limit].rev
         /\ ~Truncated(items, limit) =>
              /\ items = <<>> => rev = head
              /\ items # <<>> => /\ Len(items) \in DOMAIN items
                                 /\ rev >= head /\ rev >= items[Len(items)].rev
                                 /\ rev = head \/ rev = items[Len(items)].rev
<1> DEFINE shown == Shown(items, limit)
<1>1. MaxRev \in Nat /\ head \in Nat
  BY BoundsAssumption
<1>2. Len(items) \in Nat /\ DOMAIN items = 1 .. Len(items) /\ \A a \in DOMAIN items : items[a] \in Item
  BY LenProperties, ElementOfSeq
<1>3. \A a \in DOMAIN items : items[a].rev \in 0 .. MaxRev /\ items[a].rev \in Nat
  BY <1>1, <1>2 DEF Item
<1>4. CASE Truncated(items, limit)
  <2>1. DOMAIN shown = 1 .. limit /\ shown \in Seq(Item) /\ limit \in DOMAIN items
    BY <1>4, Pages
  <2>2. Len(shown) = limit /\ limit \in 1 .. limit
    <3>1. limit \in Nat /\ limit >= 1
      BY <1>2, <2>1
    <3>2. Len(shown) \in Nat /\ DOMAIN shown = 1 .. Len(shown)
      BY <2>1, LenProperties
    <3>. HIDE DEF shown
    <3>. QED  BY <2>1, <3>1, <3>2
  <2>3. shown # <<>>
    BY <1>2, <2>1, <2>2, EmptySeq
  <2>4. Last(shown) = items[limit]
    <3>1. shown[limit] = items[limit]
      BY <2>1, <2>2, Pages
    <3>. QED  BY <2>2, <3>1 DEF Last
  <2>. QED  BY <1>3, <1>4, <2>1, <2>3, <2>4 DEF PageTokenRevision
<1>5. CASE ~Truncated(items, limit) /\ items = <<>>
  BY <1>5, Pages DEF PageTokenRevision
<1>6. CASE ~Truncated(items, limit) /\ items # <<>>
  <2>1. shown = items
    BY <1>6, Pages
  <2>2. Len(items) \in DOMAIN items
    BY <1>2, <1>6, EmptySeq
  <2>3. PageTokenRevision(head, items, limit) = Max({head, items[Len(items)].rev})
    BY <1>6, <2>1 DEF PageTokenRevision, Last
  <2>. QED  BY <1>1, <1>3, <1>6, <2>2, <2>3, MaxOfTwo
<1>. QED  BY <1>4, <1>5, <1>6

-----------------------------------------------------------------------------
(* Taking a cursor out of the cache and putting one in *)

UniqueKeys(p) == \A i, j \in DOMAIN p : Key(p[i]) = Key(p[j]) => i = j
CacheOK(p) == p \in Seq(Cursor) /\ UniqueKeys(p) /\ ~OverCap(p)

LEMMA PartElements ==
  ASSUME NEW p, NEW q, Part(q, p)
  PROVE  /\ \A a \in DOMAIN q : \E b \in DOMAIN p : q[a] = p[b]
         /\ UniqueKeys(p) => UniqueKeys(q)
<1>1. PICK g \in [DOMAIN q -> DOMAIN p] :
        /\ \A a, b \in DOMAIN q : g[a] = g[b] => a = b
        /\ \A a \in DOMAIN q : q[a] = p[g[a]]
  BY DEF Part
<1>2. ASSUME UniqueKeys(p), NEW a \in DOMAIN q, NEW b \in DOMAIN q, Key(q[a]) = Key(q[b]) PROVE a = b
  <2>1. Key(p[g[a]]) = Key(p[g[b]]) /\ g[a] \in DOMAIN p /\ g[b] \in DOMAIN p
    BY <1>1, <1>2
  <2>. QED  BY <1>1, <1>2, <2>1 DEF UniqueKeys
<1>. QED  BY <1>1, <1>2 DEF UniqueKeys

LEMMA WithoutIsPart ==
  ASSUME NEW p \in Seq(Cursor), NEW t
  PROVE  /\ Without(p, t) \in Seq(Cursor) /\ Part(Without(p, t), p)
         /\ UniqueKeys(p) => \A a \in DOMAIN Without(p, t) : Key(Without(p, t)[a]) # t
<1>1. CASE CursorsAt(p, t) = {}
  BY <1>1, PartOfItself DEF Without, CursorsAt
<1>2. CASE CursorsAt(p, t) # {}
  <2> DEFINE k == CHOOSE i \in CursorsAt(p, t) : TRUE
  <2>1. k \in CursorsAt(p, t)
    BY <1>2
  <2>2. k \in DOMAIN p /\ Key(p[k]) = t
    BY <2>1 DEF CursorsAt
  <2>3. Without(p, t) = RemoveAt(p, k)
    BY <1>2 DEF Without
  <2>. HIDE DEF k
  <2>4. k \in 1 .. Len(p)
    BY <2>2, LenProperties
  <2>5. /\ Without(p, t) \in Seq(Cursor) /\ Part(Without(p, t), p)
        /\ \A a \in DOMAIN Without(p, t) : \E b \in DOMAIN p \ {k} : Without(p, t)[a] = p[b]
    BY <2>3, <2>4, RemovedIsPart
  <2>6. ASSUME UniqueKeys(p), NEW a \in DOMAIN Without(p, t) PROVE Key(Without(p, t)[a]) # t
    <3>1. PICK b \in DOMAIN p \ {k} : Without(p, t)[a] = p[b]
      BY <2>5
    <3>. QED  BY <2>2, <2>6, <3>1 DEF UniqueKeys
  <2>. QED  BY <2>5, <2>6
<1>. QED  BY <1>1, <1>2

LEMMA TailIsPart ==
  ASSUME NEW p \in Seq(Cursor), p # <<>>
  PROVE  Tail(p) \in Seq(Cursor) /\ Part(Tail(p), p)
<1>1. Tail(p) = SubSeq(p, 2, Len(p)) /\ Len(p) \in Nat \ {0}
  BY TailIsSubSeq, EmptySeq
<1>2. 2 \in 1 .. Len(p) + 1
  BY <1>1
<1>. QED  BY <1>1, <1>2, RestIsPart

LEMMA PartOK == ASSUME NEW p, NEW q \in Seq(Cursor), CacheOK(p), Part(q, p) PROVE CacheOK(q)
  BY PartElements, PartFits DEF CacheOK

\* Whatever is put, what comes out is a map within the caps, with the new cursor and
\* those it had.
LEMMA PutCursorOK ==
  ASSUME NEW p, CacheOK(p), NEW cur \in Cursor
  PROVE  /\ CacheOK(PutCursor(p, cur))
         /\ \A a \in DOMAIN PutCursor(p, cur) :
               \/ PutCursor(p, cur)[a] = cur
               \/ \E b \in DOMAIN p : PutCursor(p, cur)[a] = p[b]
<1>1. CASE MaxItems > 0 /\ Len(cur.items) > MaxItems
  BY <1>1 DEF PutCursor
<1>2. CASE ~(MaxItems > 0 /\ Len(cur.items) > MaxItems)
  <2> DEFINE w == Without(p, Key(cur))
             q == Append(w, cur)
             r == PutCursor(p, cur)
  <2>1. r = Evicted(q)
    BY <1>2 DEF PutCursor
  <2>2. w \in Seq(Cursor) /\ Part(w, p) /\ UniqueKeys(w) /\ \A a \in DOMAIN w : Key(w[a]) # Key(cur)
    BY WithoutIsPart, PartElements DEF CacheOK
  <2>. HIDE DEF w, r
  <2>3. /\ q \in Seq(Cursor) /\ Len(q) = Len(w) + 1 /\ Len(w) \in Nat /\ q[Len(w) + 1] = cur
        /\ \A a \in 1 .. Len(w) : q[a] = w[a]
    BY <2>2, AppendProperties, LenProperties
  <2>4. DOMAIN w = 1 .. Len(w) /\ DOMAIN q = 1 .. Len(w) + 1
    <3>. HIDE DEF q
    <3>. QED  BY <2>2, <2>3, LenProperties
  <2>. HIDE DEF q
  <2>5. \A a \in DOMAIN q : \/ a = Len(w) + 1 /\ q[a] = cur
                            \/ a \in DOMAIN w /\ q[a] = w[a]
    BY <2>3, <2>4
  <2>6. UniqueKeys(q)
    BY <2>2, <2>5 DEF UniqueKeys
  <2>7. r \in Seq(Cursor) /\ Part(r, q) /\ ~OverCap(r)
    BY <2>1, <2>3, EvictedFits
  <2>8. CacheOK(r) /\ \A a \in DOMAIN r : \E b \in DOMAIN q : r[a] = q[b]
    BY <2>6, <2>7, PartElements DEF CacheOK
  <2>9. \A a \in DOMAIN w : \E b \in DOMAIN p : w[a] = p[b]
    BY <2>2, PartElements
  <2>10. \A a \in DOMAIN r : r[a] = cur \/ \E b \in DOMAIN p : r[a] = p[b]
    BY <2>5, <2>8, <2>9
  <2>. QED  BY <2>8, <2>10 DEF r
<1>. QED  BY <1>1, <1>2

\* The cursor for what a page leaves.
Rest(id, head, items, limit) ==
    [id |-> id, rev |-> PageTokenRevision(head, items, limit), head |-> head, items |-> Remaining(items, limit)]

LEMMA CacheAfterOK ==
  ASSUME NEW p, CacheOK(p), NEW id \in BookIds, NEW head \in 0 .. MaxRev,
         NEW items \in Seq(Item), NEW limit \in Nat
  PROVE  /\ CacheOK(CacheAfter(p, id, head, items, limit))
         /\ \A a \in DOMAIN CacheAfter(p, id, head, items, limit) :
               \/ /\ Truncated(items, limit)
                  /\ CacheAfter(p, id, head, items, limit)[a] = Rest(id, head, items, limit)
               \/ \E b \in DOMAIN p : CacheAfter(p, id, head, items, limit)[a] = p[b]
<1>1. CASE ~Truncated(items, limit)
  BY <1>1 DEF CacheAfter
<1>2. CASE Truncated(items, limit)
  <2>1. Rest(id, head, items, limit) \in Cursor
    BY <1>2, Pages, PageTokens DEF Rest, Cursor
  <2>2. CacheAfter(p, id, head, items, limit) = PutCursor(p, Rest(id, head, items, limit))
    BY <1>2 DEF CacheAfter, Rest
  <2>. QED  BY <1>2, <2>1, <2>2, PutCursorOK
<1>. QED  BY <1>1, <1>2

-----------------------------------------------------------------------------
(* The store under the service *)

UsersKnown  == \A u \in UserIds : users[u] # NoRow => u \in 1 .. seq.users
CardsOf(id) == {h \in Hrefs : cards[id][h] # NoRow}
CardsFinite == \A id \in BookIds : IsFiniteSet(CardsOf(id))
StoreOK == JournalInv /\ UsersKnown /\ CardsFinite /\ NoOrphans

\* The card h of book id is written or deleted once, and c is the journal's row of that.
Wrote(id, h, c) ==
    /\ id \in Live /\ Live' = Live
    /\ books[id].revision \in Nat /\ books'[id].revision = books[id].revision + 1
    /\ \A o \in BookIds \ {id} : books'[o] = books[o] /\ cards'[o] = cards[o] /\ last'[o] = last[o]
    /\ \A g \in Hrefs \ {h} : cards'[id][g] = cards[id][g] /\ last'[id][g] = last[id][g]
    /\ last'[id][h] = books[id].revision + 1
    /\ changes' = changes \cup {c}
    /\ c.book = id /\ c.href = h /\ c.rev = books[id].revision + 1 /\ c.deleted \in BOOLEAN
    /\ c.at \in 0 .. clock /\ clock - c.at <= LockWait
    /\ c.deleted => cards'[id][h] = NoRow
    /\ ~c.deleted => cards'[id][h] # NoRow /\ cards'[id][h].etag = c.etag
    /\ UNCHANGED <<users, seq, clock>>

\* WriteCard's two ways to change a card, for the code that follows.
LEMMA WriteCases ==
  ASSUME WriteCard
  PROVE  /\ UNCHANGED syncVars
         /\ \E id \in BookIds, h \in Hrefs :
              \/ \E in \in PutInput : in.href = h /\ PutCards(id, <<in>>, Unconditional)
              \/ DeleteCard(id, h, Unconditional)
<1>1. PICK id \in Live, h \in Hrefs :
        \/ \E e \in ETags : PutCards(id, <<[href |-> h, uid |-> h, etag |-> e]>>, Unconditional)
        \/ DeleteCard(id, h, Unconditional)
  BY DEF WriteCard
<1>2. id \in BookIds /\ h \in Uids
  BY HrefsAssumption DEF Live
<1>3. \A e \in ETags : [href |-> h, uid |-> h, etag |-> e] \in PutInput
  BY <1>2 DEF PutInput
<1>4. \A e \in ETags : PutCards(id, <<[href |-> h, uid |-> h, etag |-> e]>>, Unconditional) =>
        \E in \in PutInput : in.href = h /\ PutCards(id, <<in>>, Unconditional)
  BY <1>3
<1>5. \/ \E in \in PutInput : in.href = h /\ PutCards(id, <<in>>, Unconditional)
      \/ DeleteCard(id, h, Unconditional)
  BY <1>1, <1>4
<1>. QED  BY <1>2, <1>5 DEF WriteCard

LEMMA OneWrite ==
  ASSUME TypeOK, WriteCard
  PROVE  \E id \in BookIds, h \in Hrefs : \E c : Wrote(id, h, c)
<1>1. PICK id \in BookIds, h \in Hrefs :
              \/ \E in \in PutInput : in.href = h /\ PutCards(id, <<in>>, Unconditional)
              \/ DeleteCard(id, h, Unconditional)
  BY WriteCases
<1>2. ASSUME NEW in \in PutInput, in.href = h, PutCards(id, <<in>>, Unconditional)
      PROVE  \E c : Wrote(id, h, c)
  <2> DEFINE b == <<in>>
             c == [book |-> id, href |-> h, etag |-> in.etag, deleted |-> FALSE,
                   rev |-> books[id].revision + 1, at |-> clock]
  <2>1. b \in Seq(PutInput) /\ Len(b) = 1 /\ b[1] = in
    OBVIOUS
  <2>2. /\ books[id].revision \in Nat /\ books'[id].revision = books[id].revision + 1
        /\ Live' = Live /\ id \in Live
        /\ \A o \in BookIds \ {id} : books'[o] = books[o] /\ cards'[o] = cards[o] /\ last'[o] = last[o]
    BY <1>2, <2>1, PutCardsFrame
  <2>3. PutRow(id, b, 1) = c
    BY <1>2, <2>1 DEF PutRow, RevisionOf
  <2>4. changes' = changes \cup {c} /\ UNCHANGED <<users, seq, clock>>
    <3>1. {PutRow(id, b, i) : i \in 1 .. Len(b)} = {PutRow(id, b, 1)}
      <4>1. 1 .. Len(b) = {1}
        BY <2>1
      <4>. QED  BY <4>1
    <3>. QED  BY <1>2, <2>3, <3>1 DEF PutCards
  <2>5. /\ cards'[id][h] = [uid |-> in.uid, etag |-> in.etag]
        /\ last'[id][h] = books[id].revision + 1
    <3>1. \/ \A i \in 1 .. Len(b) : b[i].href # h
          \/ \E m \in 1 .. Len(b) : /\ cards'[id][h] = [uid |-> b[m].uid, etag |-> b[m].etag]
                                    /\ last'[id][h] = books[id].revision + m
      <4>1. \/ \A i \in 1 .. Len(b) : b[i].href # h
            \/ \E m \in 1 .. Len(b) :
                 /\ b[m].href = h
                 /\ \A i \in 1 .. Len(b) : b[i].href = h => i <= m
                 /\ cards'[id][h] = [uid |-> b[m].uid, etag |-> b[m].etag]
                 /\ last'[id][h] = books[id].revision + m
        <5>1. b \in Seq(PutInput) /\ PutCards(id, b, Unconditional)
          BY <1>2, <2>1
        <5>. HIDE DEF b
        <5>. QED  BY <5>1, PutCardsEffect, Zenon
      <4>. QED  BY <4>1
    <3>2. 1 \in 1 .. Len(b) /\ b[1].href = h /\ \A m \in 1 .. Len(b) : m = 1
      BY <1>2, <2>1
    <3>. QED  BY <2>1, <3>1, <3>2
  <2>6. \A g \in Hrefs \ {h} : cards'[id][g] = cards[id][g] /\ last'[id][g] = last[id][g]
    <3>. SUFFICES ASSUME NEW g \in Hrefs \ {h}
                  PROVE  cards'[id][g] = cards[id][g] /\ last'[id][g] = last[id][g]
      OBVIOUS
    <3>1. \A m \in 1 .. Len(b) : b[m].href # g
      BY <1>2, <2>1
    <3>2. \/ cards'[id][g] = cards[id][g] /\ last'[id][g] = last[id][g]
          \/ \E m \in 1 .. Len(b) : b[m].href = g
      <4>1. b \in Seq(PutInput) /\ PutCards(id, b, Unconditional) /\ g \in Hrefs
        BY <1>2, <2>1
      <4>. HIDE DEF b
      <4>2. \/ /\ \A i \in 1 .. Len(b) : b[i].href # g
               /\ cards'[id][g] = cards[id][g]
               /\ last'[id][g] = last[id][g]
            \/ \E m \in 1 .. Len(b) :
                 /\ b[m].href = g
                 /\ \A i \in 1 .. Len(b) : b[i].href = g => i <= m
                 /\ cards'[id][g] = [uid |-> b[m].uid, etag |-> b[m].etag]
                 /\ last'[id][g] = books[id].revision + m
        BY <4>1, PutCardsEffect
      <4>. QED  BY <4>2
    <3>. QED  BY <3>1, <3>2
  <2>7. [uid |-> in.uid, etag |-> in.etag] # NoRow
    BY NoRowAssumption DEF PutInput, Card
  <2>8. c.book = id /\ c.href = h /\ c.etag = in.etag /\ c.deleted = FALSE /\ c.rev = books[id].revision + 1
    OBVIOUS
  <2>9. c.at \in 0 .. clock /\ clock - c.at <= LockWait
    <3>1. c.at = clock /\ clock \in Nat /\ LockWait \in Nat
      BY BoundsAssumption DEF TypeOK
    <3>. QED  BY <3>1
  <2>. HIDE DEF c, b
  <2>10. cards'[id][h] # NoRow /\ cards'[id][h].etag = c.etag
    BY <2>5, <2>7, <2>8
  <2>. QED  BY <2>2, <2>4, <2>5, <2>6, <2>8, <2>9, <2>10 DEF Wrote
<1>3. ASSUME DeleteCard(id, h, Unconditional)
      PROVE  \E c : Wrote(id, h, c)
  <2>1. /\ books[id].revision \in Nat /\ books'[id].revision = books[id].revision + 1
        /\ Live' = Live /\ id \in Live
        /\ \A o \in BookIds \ {id} : books'[o] = books[o] /\ cards'[o] = cards[o] /\ last'[o] = last[o]
    BY <1>3, DeleteCardFrame
  <2>2. PICK now \in {t \in 0 .. clock : clock - t <= LockWait} :
          changes' = changes \cup {DeleteRow(id, h, now)}
    BY <1>3 DEF DeleteCard
  <2> DEFINE c == DeleteRow(id, h, now)
  <2>3. /\ c.book = id /\ c.href = h /\ c.deleted = TRUE /\ c.rev = books[id].revision + 1
        /\ c.at \in 0 .. clock /\ clock - c.at <= LockWait
    BY DEF DeleteRow, RevisionOf
  <2>4. /\ cards'[id][h] = NoRow /\ last'[id][h] = books[id].revision + 1
        /\ \A g \in Hrefs \ {h} : cards'[id][g] = cards[id][g] /\ last'[id][g] = last[id][g]
        /\ UNCHANGED <<users, seq, clock>>
    BY <1>3 DEF DeleteCard, TypeOK
  <2>5. changes' = changes \cup {c}
    BY <2>2
  <2>. HIDE DEF c
  <2>. QED  BY <2>1, <2>3, <2>4, <2>5 DEF Wrote
<1>. QED  BY <1>1, <1>2, <1>3

\* What the world does to the store, the store's own specification allows.
LEMMA WorldIsStore ==
  ASSUME TypeOK, UsersKnown, WorldStep
  PROVE  [StoreNext]_storeVars /\ UNCHANGED syncVars
<1>1. CASE WriteCard
  <2>1. PICK id \in BookIds, h \in Hrefs :
              \/ \E in \in PutInput : in.href = h /\ PutCards(id, <<in>>, Unconditional)
              \/ DeleteCard(id, h, Unconditional)
    BY <1>1, WriteCases
  <2>2. CardStep
    BY <2>1 DEF CardStep
  <2>. QED  BY <1>1, <2>2 DEF StoreNext, WriteCard
<1>2. CASE RemoveCollection
  BY <1>2, SyncAssumption DEF RemoveCollection, StoreNext, BookStep
<1>3. CASE MakeCollection
  <2>1. PICK u \in UserIds, n \in Names :
          users[u] # NoRow /\ users[u].name = Username /\ CreateAddressbook(u, Slug, n, TRUE)
    BY <1>3 DEF MakeCollection
  <2>2. u \in 1 .. seq.users
    BY <2>1 DEF UsersKnown
  <2>. QED  BY <1>3, <2>1, <2>2, SyncAssumption DEF MakeCollection, StoreNext, BookStep
<1>4. CASE PruneByAge
  <2>1. PruneCardChangesByAge(clock - Retention) /\ UNCHANGED syncVars /\ Retention \in Nat
    BY <1>4, SyncAssumption DEF PruneByAge
  <2>2. clock \in Nat
    BY BoundsAssumption DEF TypeOK
  <2>3. CASE clock - Retention \in 1 .. clock
    BY <2>1, <2>3 DEF StoreNext, PruneStep
  <2>4. CASE clock - Retention \notin 1 .. clock
    <3>1. clock - Retention <= 0
      BY <2>1, <2>2, <2>4
    <3>2. \A c \in changes : c.at \in Nat
      BY BoundsAssumption DEF TypeOK, Change
    <3>3. changes' = changes
      <4>1. \A c \in changes : ~(c.at < clock - Retention)
        BY <2>1, <2>2, <3>1, <3>2
      <4>. QED  BY <2>1, <4>1 DEF PruneCardChangesByAge
    <3>. QED  BY <2>1, <3>3 DEF PruneCardChangesByAge, storeVars
  <2>. QED  BY <2>3, <2>4
<1>5. CASE PruneByRevisions
  <2>1. PruneCardChangesByMaxRevisions(Keep) /\ UNCHANGED syncVars /\ Keep \in Nat /\ Keep > 0
    BY <1>5, SyncAssumption DEF PruneByRevisions, PruneCardChangesByMaxRevisions
  <2>2. CASE Keep \in 1 .. MaxRev
    BY <2>1, <2>2 DEF StoreNext, PruneStep
  <2>3. CASE Keep \notin 1 .. MaxRev
    <3>1. Keep > MaxRev /\ MaxRev \in Nat
      BY <2>1, <2>3, BoundsAssumption
    <3>2. \A c \in changes : ~PrunedByRevision(c, Keep)
      <4>. SUFFICES ASSUME NEW c \in changes, books[c.book] # NoRow
                    PROVE  ~(c.rev <= books[c.book].revision - Keep)
        BY DEF PrunedByRevision
      <4>1. c.rev \in 1 .. MaxRev /\ books[c.book] \in BookRow
        BY DEF TypeOK, Change
      <4>2. books[c.book].revision \in 0 .. MaxRev
        BY <4>1 DEF BookRow
      <4>. QED  BY <2>1, <3>1, <4>1, <4>2
    <3>3. changes' = changes
      BY <2>1, <3>2 DEF PruneCardChangesByMaxRevisions
    <3>. QED  BY <2>1, <3>3 DEF PruneCardChangesByMaxRevisions, storeVars
  <2>. QED  BY <2>2, <2>3
<1>6. CASE TimePasses
  BY <1>6 DEF TimePasses, StoreNext
<1>. QED  BY <1>1, <1>2, <1>3, <1>4, <1>5, <1>6 DEF WorldStep

LEMMA StoreKept ==
  ASSUME StoreOK, WorldStep
  PROVE  StoreOK'
<1>1. JournalInv /\ TypeOK /\ UsersKnown /\ CardsFinite /\ NoOrphans
  BY DEF StoreOK, JournalInv
<1>2. JournalInv'
  BY <1>1, WorldIsStore, JournalStep
<1>3. UsersKnown'
  <2>1. users' = users /\ seq'.users = seq.users
    <3>1. CASE MakeCollection
      BY <1>1, <3>1 DEF MakeCollection, CreateAddressbook, TypeOK
    <3>2. CASE WriteCard
      BY <1>1, <3>2, OneWrite DEF Wrote
    <3>3. CASE RemoveCollection \/ PruneByAge \/ PruneByRevisions \/ TimePasses
      BY <3>3 DEF RemoveCollection, DeleteAddressbook, PruneByAge, PruneCardChangesByAge,
                  PruneByRevisions, PruneCardChangesByMaxRevisions, TimePasses, Tick
    <3>. QED  BY <3>1, <3>2, <3>3 DEF WorldStep
  <2>. QED  BY <1>1, <2>1 DEF UsersKnown
<1>4. CASE WriteCard
  <2>1. PICK id \in BookIds, h \in Hrefs : \E c : Wrote(id, h, c)
    BY <1>1, <1>4, OneWrite
  <2>2. PICK c : Wrote(id, h, c)
    BY <2>1
  <2>3. CardsFinite'
    <3>. SUFFICES ASSUME NEW o \in BookIds PROVE IsFiniteSet(CardsOf(o)')
      BY DEF CardsFinite
    <3>1. IsFiniteSet(CardsOf(o)) /\ IsFiniteSet(CardsOf(o) \cup {h})
      BY <1>1, FS_AddElement DEF CardsFinite
    <3>2. CardsOf(o)' \subseteq CardsOf(o) \cup {h}
      BY <2>2 DEF Wrote, CardsOf
    <3>. QED  BY <3>1, <3>2, FS_Subset
  <2>4. NoOrphans'
    <3>1. \A o \in BookIds \ Live' : o \in BookIds \ Live /\ o # id
      BY <2>2 DEF Wrote
    <3>2. \A o \in BookIds \ Live' : \A g \in Hrefs : cards'[o][g] = NoRow
      BY <1>1, <2>2, <3>1 DEF Wrote, NoOrphans
    <3>3. \A d \in changes' : d.book \in Live'
      BY <1>1, <2>2 DEF Wrote, NoOrphans
    <3>. QED  BY <3>2, <3>3 DEF NoOrphans
  <2>. QED  BY <1>2, <1>3, <2>3, <2>4 DEF StoreOK
<1>5. CASE RemoveCollection
  <2>1. RemoveBooks(AddressbookOf(Username, Slug), TRUE) /\ \A id \in AddressbookOf(Username, Slug) : id \in Live
    BY <1>5 DEF RemoveCollection, DeleteAddressbook, AddressbookOf
  <2>2. \A o \in BookIds : CardsOf(o)' \in SUBSET CardsOf(o)
    BY <2>1 DEF RemoveBooks, CardsOf
  <2>3. CardsFinite'
    BY <1>1, <2>2, FS_Subset DEF CardsFinite
  <2>4. NoOrphans'
    BY <1>1, <2>1 DEF RemoveBooks, NoOrphans, Live
  <2>. QED  BY <1>2, <1>3, <2>3, <2>4 DEF StoreOK
<1>6. CASE MakeCollection
  <2>1. PICK u \in UserIds, n \in Names : CreateAddressbook(u, Slug, n, TRUE)
    BY <1>6 DEF MakeCollection
  <2>2. cards' = cards /\ changes' = changes /\ \A o \in BookIds : o # NewBookId => books'[o] = books[o]
    BY <1>1, <2>1 DEF CreateAddressbook, TypeOK
  <2>3. NewBookId \in BookIds /\ books'[NewBookId] = [owner |-> u, slug |-> Slug, name |-> n, revision |-> 0]
    BY <1>1, <2>1 DEF CreateAddressbook, TypeOK
  <2>4. books'[NewBookId] # NoRow
    BY <2>3, SyncAssumption, NoRowAssumption, BoundsAssumption DEF BookRow
  <2>5. \A o \in Live : o \in Live'
    BY <2>2, <2>4 DEF Live
  <2>6. CardsFinite'
    BY <1>1, <2>2 DEF CardsFinite, CardsOf
  <2>7. NoOrphans'
    BY <1>1, <2>2, <2>5 DEF NoOrphans
  <2>. QED  BY <1>2, <1>3, <2>6, <2>7 DEF StoreOK
<1>7. CASE PruneByAge \/ PruneByRevisions \/ TimePasses
  <2>1. cards' = cards /\ books' = books /\ changes' \subseteq changes
    BY <1>7 DEF PruneByAge, PruneCardChangesByAge, PruneByRevisions, PruneCardChangesByMaxRevisions,
                TimePasses, Tick
  <2>2. CardsFinite'
    BY <1>1, <2>1 DEF CardsFinite, CardsOf
  <2>3. NoOrphans'
    BY <1>1, <2>1 DEF NoOrphans, Live
  <2>. QED  BY <1>2, <1>3, <2>2, <2>3 DEF StoreOK
<1>. QED  BY <1>4, <1>5, <1>6, <1>7 DEF WorldStep

LEMMA StoreStays ==
  ASSUME StoreOK, UNCHANGED storeVars
  PROVE  StoreOK'
<1>1. JournalInv'
  BY JournalStep DEF StoreOK
<1>. QED  BY <1>1 DEF StoreOK, UsersKnown, CardsFinite, CardsOf, NoOrphans, Live, storeVars

LEMMA StoreStarts ==
  ASSUME SyncInit
  PROVE  StoreOK
<1>1. 1 \in UserIds /\ 1 \in BookIds /\ MaxRev \in Nat /\ MaxClock \in Nat
  BY BoundsAssumption, SyncAssumption DEF UserIds, BookIds
<1> DEFINE u == [name |-> Username, hash |-> CHOOSE p \in Hashes : TRUE]
           b == [owner |-> 1, slug |-> Slug, revision |-> 0, name |-> CHOOSE n \in Names : TRUE]
<1>2. u \in UserRow /\ b \in BookRow /\ b.revision = 0
  BY <1>1, SyncAssumption DEF UserRow, BookRow
<1>3. /\ users = [o \in UserIds |-> IF o = 1 THEN u ELSE NoRow]
      /\ books = [id \in BookIds |-> IF id = 1 THEN b ELSE NoRow]
      /\ cards = [id \in BookIds |-> [h \in Hrefs |-> NoRow]] /\ changes = {}
      /\ seq = [users |-> 1, books |-> 1] /\ clock = 0
      /\ last = [id \in BookIds |-> [h \in Hrefs |-> 0]]
  BY DEF SyncInit, Nothing
<1>. HIDE DEF u, b
<1>4. TypeOK
  <2>1. users \in [UserIds -> UserRow \cup {NoRow}] /\ books \in [BookIds -> BookRow \cup {NoRow}]
    BY <1>2, <1>3
  <2>2. cards \in [BookIds -> [Hrefs -> Card \cup {NoRow}]] /\ last \in [BookIds -> [Hrefs -> 0 .. MaxRev]]
    BY <1>1, <1>3
  <2>3. seq \in [users : 0 .. MaxUsers, books : 0 .. MaxBooks]
    BY <1>1, <1>3, BoundsAssumption DEF UserIds, BookIds
  <2>. QED  BY <1>1, <1>3, <2>1, <2>2, <2>3 DEF TypeOK
<1>5. UnusedIdsAreBlank
  BY <1>3 DEF UnusedIdsAreBlank, BookIds
<1>6. LastWithinRevision /\ JournalAgrees
  <2>1. \A id \in Live : books[id].revision = 0 /\ \A h \in Hrefs : last[id][h] = 0
    BY <1>2, <1>3 DEF Live
  <2>2. LastWithinRevision
    BY <2>1 DEF LastWithinRevision
  <2>3. LiveChanges = {}
    BY <1>3 DEF LiveChanges
  <2>. QED  BY <2>2, <2>3 DEF JournalAgrees
<1>7. UsersKnown
  BY <1>3 DEF UsersKnown
<1>8. CardsFinite /\ NoOrphans
  <2>1. \A id \in BookIds : CardsOf(id) = {}
    BY <1>3 DEF CardsOf
  <2>. QED  BY <1>3, <2>1, FS_EmptySet DEF CardsFinite, NoOrphans
<1>. QED  BY <1>4, <1>5, <1>6, <1>7, <1>8 DEF StoreOK, JournalInv

-----------------------------------------------------------------------------
(* The two listings *)

Rising(items) == \A a, b \in DOMAIN items : a < b => items[a].rev <= items[b].rev

\* The rows the two queries select.
StateRows(id) == {StateRow(id, h) : h \in CardsOf(id)}
Later(id, after) == {d \in changes : d.book = id /\ d.rev > after}
ChangeRows(id, after) == {ChangeRow(c) : c \in Later(id, after)}

LEMMA MaxOfRevisions ==
  ASSUME NEW n \in Nat, NEW S, S \subseteq 0 .. n, S # {}
  PROVE  Max(S) \in S /\ \A i \in S : i <= Max(S)
<1>1. \A i \in S : i \in Int /\ 0 <= i
  OBVIOUS
<1>2. PICK m \in S : \A i \in S : m >= i
  <2>1. CASE S \ {0} = {}
    <3>1. \A i \in S : i = 0
      BY <2>1
    <3>2. 0 \in S
      BY <3>1
    <3>. QED  BY <3>1, <3>2
  <2>2. CASE S \ {0} # {}
    <3> DEFINE W == S \ {0}
    <3>1. W \subseteq 1 .. n /\ W # {}
      BY <2>2
    <3>2. Max(W) \in W /\ \A i \in W : i <= Max(W)
      <4>. HIDE DEF W
      <4>. QED  BY <3>1, MaxBounded
    <3>3. Max(W) \in S /\ Max(W) >= 0 /\ \A i \in S : i # 0 => i <= Max(W)
      BY <1>1, <3>2
    <3>. HIDE DEF W
    <3>4. \A i \in S : Max(W) >= i
      BY <1>1, <3>3
    <3>. QED  BY <3>3, <3>4
  <2>. QED  BY <2>1, <2>2
<1>3. Max(S) \in S /\ \A i \in S : Max(S) >= i
  BY <1>2, Zenon DEF Max
<1>. QED  BY <1>1, <1>3

LEMMA ImageIsFinite ==
  ASSUME NEW f, IsFiniteSet(DOMAIN f), f = [x \in DOMAIN f |-> f[x]]
  PROVE  IsFiniteSet({f[x] : x \in DOMAIN f})
<1> DEFINE T == {f[x] : x \in DOMAIN f}
<1>1. f \in [DOMAIN f -> T] /\ \A t \in T : \E x \in DOMAIN f : f[x] = t
  OBVIOUS
<1>2. f \in Surjection(DOMAIN f, T)
  <2>. HIDE DEF T
  <2>. QED  BY <1>1 DEF Surjection
<1>. HIDE DEF T
<1>3. IsFiniteSet(T)
  BY <1>2, FS_Surjection
<1>. QED  BY <1>3 DEF T

\* The highest retained row of a card: 0 if none is left, and never past the card's
\* last change.
LEMMA Retained ==
  ASSUME TypeOK, NEW id \in BookIds, NEW h \in Hrefs
  PROVE  /\ RetainedRev(id, h) \in 0 .. MaxRev
         /\ RetainedRev(id, h) = 0 \/ \E c \in changes : c.book = id /\ c.href = h /\ c.rev = RetainedRev(id, h)
         /\ \A c \in changes : c.book = id /\ c.href = h => c.rev <= RetainedRev(id, h)
<1> DEFINE S == {0} \cup {c.rev : c \in {d \in changes : d.book = id /\ d.href = h}}
<1>1. MaxRev \in Nat /\ \A c \in changes : c.rev \in 1 .. MaxRev
  BY BoundsAssumption DEF TypeOK, Change
<1>2. S \subseteq 0 .. MaxRev /\ S # {}
  BY <1>1
<1>3. RetainedRev(id, h) = Max(S)
  BY DEF RetainedRev
<1>4. \A x \in S : x = 0 \/ \E c \in changes : c.book = id /\ c.href = h /\ c.rev = x
  OBVIOUS
<1>5. \A c \in changes : c.book = id /\ c.href = h => c.rev \in S
  OBVIOUS
<1>. HIDE DEF S
<1>6. Max(S) \in S /\ \A x \in S : x <= Max(S)
  BY <1>1, <1>2, MaxOfRevisions
<1>. QED  BY <1>2, <1>3, <1>4, <1>5, <1>6

LEMMA StateRowsSortable ==
  ASSUME StoreOK, NEW id \in BookIds
  PROVE  Sortable(StateRows(id)) /\ StateRows(id) \subseteq Item
<1> DEFINE f == [h \in CardsOf(id) |-> StateRow(id, h)]
<1>1. TypeOK /\ IsFiniteSet(CardsOf(id))
  BY DEF StoreOK, JournalInv, CardsFinite
<1>2. StateRows(id) = {f[h] : h \in DOMAIN f} /\ DOMAIN f = CardsOf(id) /\ f = [h \in DOMAIN f |-> f[h]]
  BY DEF StateRows
<1>3. IsFiniteSet(StateRows(id))
  <2>. HIDE DEF f
  <2>. QED  BY <1>1, <1>2, ImageIsFinite
<1>4. ASSUME NEW h \in CardsOf(id)
      PROVE  StateRow(id, h) \in Item /\ StateRow(id, h).href = h /\ h \in Nat /\ StateRow(id, h).rev \in Nat
  <2>1. h \in Hrefs /\ cards[id][h] # NoRow /\ cards[id][h] \in Card \cup {NoRow}
    BY <1>1 DEF CardsOf, TypeOK
  <2>2. cards[id][h].etag \in ETags /\ h \in Nat /\ MaxRev \in Nat
    BY <2>1, HrefsAssumption, BoundsAssumption DEF Card
  <2>3. RetainedRev(id, h) \in 0 .. MaxRev
    BY <1>1, <2>1, Retained
  <2>. QED  BY <2>1, <2>2, <2>3 DEF StateRow, Item
<1>5. \A x \in StateRows(id) : \E h \in CardsOf(id) : x = StateRow(id, h)
  BY DEF StateRows
<1>. QED  BY <1>3, <1>4, <1>5 DEF Sortable

LEMMA ChangeRowsSortable ==
  ASSUME StoreOK, NEW id \in BookIds, NEW after
  PROVE  /\ Sortable(ChangeRows(id, after)) /\ ChangeRows(id, after) \subseteq Item
         /\ \A x, y \in ChangeRows(id, after) : x.rev = y.rev => x = y
<1> DEFINE L == Later(id, after)
           R == {d.rev : d \in L}
           f == [r \in R |-> ChangeRow(CHOOSE d \in L : d.rev = r)]
<1>1. TypeOK /\ JournalAgrees /\ NoOrphans
  BY DEF StoreOK, JournalInv
<1>2. \A d \in L : d \in Change /\ d \in LiveChanges /\ d.book = id /\ d.rev \in 1 .. MaxRev
  BY <1>1 DEF Later, TypeOK, NoOrphans, LiveChanges, Live, Change
<1>3. \A d, e \in L : d.rev = e.rev => d = e
  BY <1>1, <1>2 DEF JournalAgrees
<1>4. IsFiniteSet(R)
  <2>1. IsFiniteSet(1 .. MaxRev)
    BY FS_Interval, BoundsAssumption
  <2>2. R \in SUBSET (1 .. MaxRev)
    BY <1>2
  <2>. HIDE DEF R
  <2>. QED  BY <2>1, <2>2, FS_Subset
<1>5. \A d \in L : d.rev \in R /\ f[d.rev] = ChangeRow(d)
  BY <1>3
<1>6. \A r \in R : \E d \in L : d.rev = r
  OBVIOUS
<1>7. DOMAIN f = R /\ f = [r \in DOMAIN f |-> f[r]]
  OBVIOUS
<1>. HIDE DEF R, f, L
<1>8. ChangeRows(id, after) = {f[r] : r \in DOMAIN f}
  <2>1. ChangeRows(id, after) = {ChangeRow(d) : d \in L}
    BY DEF ChangeRows, L
  <2>. QED  BY <1>5, <1>6, <1>7, <2>1
<1>9. IsFiniteSet(ChangeRows(id, after))
  BY <1>4, <1>7, <1>8, ImageIsFinite
<1>10. ASSUME NEW d \in L
       PROVE  ChangeRow(d) \in Item /\ ChangeRow(d).rev = d.rev /\ d.rev \in Nat /\ ChangeRow(d).href \in Nat
  <2>1. d \in Change /\ MaxRev \in Nat /\ d.href \in Hrefs
    BY <1>2, BoundsAssumption DEF Change
  <2>2. d.rev \in 0 .. MaxRev /\ d.rev \in Nat /\ d.href \in Nat
    <3>1. d.rev \in 1 .. MaxRev
      BY <1>2
    <3>2. d.rev \in 0 .. MaxRev /\ d.rev \in Nat
      BY <2>1, <3>1
    <3>3. d.href \in Nat
      BY <2>1, HrefsAssumption
    <3>. QED  BY <3>2, <3>3
  <2>. QED  BY <2>1, <2>2 DEF ChangeRow, Item, Change
<1>11. \A x \in ChangeRows(id, after) : \E d \in L : x = ChangeRow(d)
  BY DEF ChangeRows, L
<1>12. \A x, y \in ChangeRows(id, after) : x.rev = y.rev => x = y
  BY <1>3, <1>10, <1>11
<1>. QED  BY <1>9, <1>10, <1>11, <1>12 DEF Sortable

LEMMA SeqOfItems == ASSUME NEW S, S \subseteq Item, NEW s \in Seq(S) PROVE s \in Seq(Item)
  OBVIOUS

\* What an initial sync lists: every card once, rising from the cards without journal.
LEMMA CurrentListing ==
  ASSUME StoreOK, NEW id \in BookIds
  PROVE  LET list == ListCurrentCardSyncStates(id) IN
         /\ list \in Seq(Item) /\ Rising(list)
         /\ \A a \in DOMAIN list : \E h \in CardsOf(id) : list[a] = StateRow(id, h)
         /\ \A h \in CardsOf(id) : \E a \in DOMAIN list : list[a] = StateRow(id, h)
         /\ \A a, b \in DOMAIN list : list[a].href = list[b].href => a = b
<1> DEFINE S == StateRows(id)
           list == Ordered(S)
<1>1. ListCurrentCardSyncStates(id) = list
  BY DEF ListCurrentCardSyncStates, StateRows, CardsOf
<1>2. Sortable(S) /\ S \subseteq Item
  BY StateRowsSortable
<1>. HIDE DEF S
<1>3. /\ list \in Seq(S)
      /\ \A i, j \in DOMAIN list : i < j => ByRevision(list[i], list[j])
      /\ \A x \in S : \E i \in DOMAIN list : list[i] = x
  BY <1>2, OrderedRows
<1>. HIDE DEF list
<1>4. list \in Seq(Item)
  BY <1>2, <1>3, SeqOfItems
<1>5. \A a \in DOMAIN list : list[a] \in S /\ a \in Int
  BY <1>3, LenProperties, ElementOfSeq
<1>6. \A x \in S : x.rev \in Nat /\ x.href \in Nat
  BY <1>2 DEF Sortable
<1>7. Rising(list)
  BY <1>3, <1>5, <1>6 DEF Rising, ByRevision
<1>8. \A a \in DOMAIN list : \E h \in CardsOf(id) : list[a] = StateRow(id, h)
  BY <1>5 DEF S, StateRows
<1>9. \A h \in CardsOf(id) : \E a \in DOMAIN list : list[a] = StateRow(id, h)
  BY <1>3 DEF S, StateRows
<1>10. ASSUME NEW a \in DOMAIN list, NEW b \in DOMAIN list, list[a].href = list[b].href PROVE a = b
  <2>1. list[a] = list[b]
    <3>1. PICK h \in CardsOf(id) : list[a] = StateRow(id, h)
      BY <1>8
    <3>2. PICK g \in CardsOf(id) : list[b] = StateRow(id, g)
      BY <1>8
    <3>3. list[a].href = h /\ list[b].href = g
      BY <3>1, <3>2 DEF StateRow
    <3>. QED  BY <1>10, <3>1, <3>2, <3>3
  <2>2. ~ByRevision(list[a], list[b]) /\ ~ByRevision(list[b], list[a])
    BY <1>5, <1>6, <2>1 DEF ByRevision
  <2>. QED  BY <1>3, <1>5, <2>2
<1>. QED  BY <1>1, <1>4, <1>7, <1>8, <1>9, <1>10

\* What a delta lists: every retained row after the token, strictly rising.
LEMMA ChangeListing ==
  ASSUME StoreOK, NEW id \in BookIds, NEW after
  PROVE  LET list == ListCardChangesSince(id, after) IN
         /\ list \in Seq(Item)
         /\ \A a, b \in DOMAIN list : a < b => list[a].rev < list[b].rev
         /\ \A a \in DOMAIN list : \E c \in Later(id, after) : list[a] = ChangeRow(c)
         /\ \A c \in Later(id, after) : \E a \in DOMAIN list : list[a] = ChangeRow(c)
<1> DEFINE S == ChangeRows(id, after)
           list == Ordered(S)
<1>1. ListCardChangesSince(id, after) = list
  BY DEF ListCardChangesSince, ChangeRows, Later
<1>2. Sortable(S) /\ S \subseteq Item /\ \A x, y \in S : x.rev = y.rev => x = y
  BY ChangeRowsSortable
<1>. HIDE DEF S
<1>3. /\ list \in Seq(S)
      /\ \A i, j \in DOMAIN list : i < j => ByRevision(list[i], list[j])
      /\ \A x \in S : \E i \in DOMAIN list : list[i] = x
  BY <1>2, OrderedRows
<1>. HIDE DEF list
<1>4. list \in Seq(Item)
  BY <1>2, <1>3, SeqOfItems
<1>5. \A a \in DOMAIN list : list[a] \in S
  BY <1>3, LenProperties, ElementOfSeq
<1>6. \A x \in S : x.rev \in Nat /\ x.href \in Nat
  BY <1>2 DEF Sortable
<1>7. ASSUME NEW a \in DOMAIN list, NEW b \in DOMAIN list, a < b PROVE list[a].rev < list[b].rev
  <2>1. ByRevision(list[a], list[b]) /\ list[a] \in S /\ list[b] \in S
    BY <1>3, <1>5, <1>7
  <2>2. list[a].rev # list[b].rev
    BY <1>2, <1>6, <2>1 DEF ByRevision
  <2>. QED  BY <2>1, <2>2 DEF ByRevision
<1>8. \A a \in DOMAIN list : \E c \in Later(id, after) : list[a] = ChangeRow(c)
  BY <1>5 DEF S, ChangeRows
<1>9. \A c \in Later(id, after) : \E a \in DOMAIN list : list[a] = ChangeRow(c)
  BY <1>3 DEF S, ChangeRows
<1>. QED  BY <1>1, <1>4, <1>7, <1>8, <1>9

-----------------------------------------------------------------------------
(* The invariant of the service, whatever is pruned and however many clients *)

Tokens   == Token \cup {NoRow}
Copies   == [Hrefs -> ETags \cup {NoRow}]
Requests == [pc : {"idle", "cursor", "list", "build"}, id : 0 .. MaxBooks, head : 0 .. MaxRev,
             limit : Limits \cup {0}, started : 0 .. MaxClock, items : Seq(Item)]

Since(t) == IF t = NoRow THEN 0 ELSE t.rev

\* A cursor has something left to send, in order and from its token on.
CursorFits(cur) ==
    /\ cur.items # <<>> /\ Rising(cur.items)
    /\ \A a \in DOMAIN cur.items : cur.items[a].rev >= cur.rev
CursorsOK(p) == CacheOK(p) /\ \A i \in DOMAIN p : CursorFits(p[i])

\* A request is about the book of the client's token and answers what came after it.
Fits(r, t) ==
    /\ r.pc # "idle" => r.id \in BookIds /\ (t # NoRow => r.id = t.id)
    /\ r.pc = "cursor" => t # NoRow
    /\ r.pc = "build" =>
         /\ Rising(r.items)
         /\ t # NoRow => r.head >= t.rev
         /\ \A a \in DOMAIN r.items : r.items[a].rev >= Since(t)
ClientsOK ==
    /\ token \in [Clients -> Tokens] /\ copy \in [Clients -> Copies] /\ req \in [Clients -> Requests]
    /\ \A c \in Clients : Fits(req[c], token[c])

SyncInv == StoreOK /\ CursorsOK(page) /\ ClientsOK

LEMMA ClientMove ==
  ASSUME ClientsOK, NEW c \in Clients, NEW r \in Requests, NEW t \in Tokens, NEW k \in Copies, Fits(r, t),
         req' = [req EXCEPT ![c] = r], token' = [token EXCEPT ![c] = t], copy' = [copy EXCEPT ![c] = k]
  PROVE  ClientsOK'
<1>1. /\ token' \in [Clients -> Tokens] /\ copy' \in [Clients -> Copies] /\ req' \in [Clients -> Requests]
      /\ req'[c] = r /\ token'[c] = t
      /\ \A d \in Clients \ {c} : req'[d] = req[d] /\ token'[d] = token[d]
  BY DEF ClientsOK
<1>2. \A d \in Clients : Fits(req'[d], token'[d])
  BY <1>1 DEF ClientsOK
<1>. QED  BY <1>1, <1>2 DEF ClientsOK

LEMMA IdleFits == Idle \in Requests /\ Idle.pc = "idle" /\ \A t : Fits(Idle, t)
<1>1. 0 \in 0 .. MaxBooks /\ 0 \in 0 .. MaxRev /\ 0 \in 0 .. MaxClock /\ <<>> \in Seq(Item)
  BY BoundsAssumption
<1>2. Idle \in Requests
  BY <1>1 DEF Idle, Requests
<1>3. Idle.pc = "idle"
  BY DEF Idle
<1>. QED  BY <1>2, <1>3 DEF Fits

LEMMA EmptyCopy == Nothing \in Copies
  BY DEF Nothing, Copies

LEMMA StartedOver ==
  ASSUME ClientsOK, NEW c \in Clients, StartOver(c)
  PROVE  ClientsOK'
  BY IdleFits, EmptyCopy, ClientMove DEF StartOver, Tokens

\* What is sent of a page is items of it, one per href at most.
LEMMA AppliedType ==
  ASSUME NEW old \in Copies, NEW items \in Seq(Item), NEW limit \in Nat
  PROVE  Apply(old, Collapsed(Shown(items, limit))) \in Copies
<1> DEFINE sent == Collapsed(Shown(items, limit))
<1>1. \A it \in sent : it \in Item
  <2>1. Shown(items, limit) \in Seq(Item)
    BY Pages
  <2>2. \A a \in DOMAIN Shown(items, limit) : Shown(items, limit)[a] \in Item
    BY <2>1, LenProperties, ElementOfSeq
  <2>. QED  BY <2>2 DEF Collapsed
<1>. HIDE DEF sent
<1>2. ASSUME NEW h \in Hrefs PROVE Apply(old, sent)[h] \in ETags \cup {NoRow}
  <2>1. CASE \E it \in sent : it.href = h
    <3> DEFINE it == CHOOSE i \in sent : i.href = h
    <3>1. it \in sent
      BY <2>1
    <3>2. Apply(old, sent)[h] = IF it.deleted THEN NoRow ELSE it.etag
      BY <2>1 DEF Apply
    <3>3. it.etag \in ETags
      BY <1>1, <3>1 DEF Item
    <3>. QED  BY <3>2, <3>3
  <2>2. CASE ~\E it \in sent : it.href = h
    BY <2>2 DEF Apply, Copies
  <2>. QED  BY <2>1, <2>2
<1>3. Apply(old, sent) = [h \in Hrefs |-> Apply(old, sent)[h]]
  BY DEF Apply
<1>. QED  BY <1>2, <1>3 DEF sent, Copies

LEMMA Answered ==
  ASSUME ClientsOK, NEW c \in Clients, NEW id \in BookIds, NEW head \in 0 .. MaxRev,
         NEW items \in Seq(Item), NEW limit \in Nat, NEW arrives, Respond(c, id, head, items, limit, arrives)
  PROVE  ClientsOK'
<1>1. req' = [req EXCEPT ![c] = Idle]
  BY DEF Respond
<1>2. CASE arrives
  <2> DEFINE t == [id |-> id, rev |-> PageTokenRevision(head, items, limit)]
             k == Apply(copy[c], Collapsed(Shown(items, limit)))
  <2>1. t \in Tokens
    BY PageTokens DEF Tokens, Token
  <2>2. k \in Copies
    BY AppliedType DEF ClientsOK
  <2>3. token' = [token EXCEPT ![c] = t] /\ copy' = [copy EXCEPT ![c] = k]
    BY <1>2 DEF Respond
  <2>. HIDE DEF t, k
  <2>. QED  BY <1>1, <2>1, <2>2, <2>3, IdleFits, ClientMove
<1>3. CASE ~arrives
  <2>1. token' = token /\ copy' = copy
    BY <1>3 DEF Respond
  <2>2. token' = [token EXCEPT ![c] = token[c]] /\ copy' = [copy EXCEPT ![c] = copy[c]]
        /\ token[c] \in Tokens /\ copy[c] \in Copies
    BY <2>1 DEF ClientsOK
  <2>. QED  BY <1>1, <2>2, IdleFits, ClientMove
<1>. QED  BY <1>2, <1>3

\* What a page leaves goes back in order, behind the page's own token.
LEMMA CutOK ==
  ASSUME NEW p, CursorsOK(p), NEW id \in BookIds, NEW head \in 0 .. MaxRev,
         NEW items \in Seq(Item), Rising(items), NEW limit \in Nat
  PROVE  CursorsOK(CacheAfter(p, id, head, items, limit))
<1> DEFINE q == CacheAfter(p, id, head, items, limit)
           cur == Rest(id, head, items, limit)
<1>1. /\ CacheOK(q)
      /\ \A a \in DOMAIN q : (Truncated(items, limit) /\ q[a] = cur) \/ \E b \in DOMAIN p : q[a] = p[b]
  BY CacheAfterOK DEF CursorsOK
<1>2. ASSUME Truncated(items, limit) PROVE CursorFits(cur)
  <2> DEFINE rest == Remaining(items, limit)
  <2>1. /\ rest # <<>> /\ limit \in DOMAIN items /\ DOMAIN rest = 1 .. Len(items) - limit
        /\ \A a \in DOMAIN rest : limit + a \in DOMAIN items /\ rest[a] = items[limit + a]
    BY <1>2, Pages
  <2>2. cur.items = rest /\ cur.rev = items[limit].rev
    BY <1>2, PageTokens DEF Rest
  <2>. HIDE DEF rest, cur
  <2>3. Len(items) \in Nat /\ \A a \in DOMAIN rest : a \in Int /\ a > 0
    BY <2>1, LenProperties
  <2>4. \A a, b \in DOMAIN items : items[a].rev \in Int /\ (a < b => items[a].rev <= items[b].rev)
    <3>1. \A a \in DOMAIN items : items[a] \in Item
      BY LenProperties, ElementOfSeq
    <3>2. \A a \in DOMAIN items : items[a].rev \in 0 .. MaxRev
      BY <3>1 DEF Item
    <3>. QED  BY <3>2, BoundsAssumption DEF Rising
  <2>5. Rising(rest)
    <3>. SUFFICES ASSUME NEW a \in DOMAIN rest, NEW b \in DOMAIN rest, a < b PROVE rest[a].rev <= rest[b].rev
      BY DEF Rising
    <3>1. limit + a < limit + b
      BY <2>3
    <3>. QED  BY <2>1, <2>4, <3>1
  <2>6. \A a \in DOMAIN rest : rest[a].rev >= items[limit].rev
    <3>. SUFFICES ASSUME NEW a \in DOMAIN rest PROVE rest[a].rev >= items[limit].rev
      OBVIOUS
    <3>1. limit < limit + a
      BY <2>3
    <3>2. items[limit].rev <= items[limit + a].rev /\ items[limit].rev \in Int /\ items[limit + a].rev \in Int
      BY <2>1, <2>4, <3>1
    <3>. QED  BY <2>1, <3>2
  <2>. QED  BY <2>1, <2>2, <2>5, <2>6 DEF CursorFits
<1>. HIDE DEF q, cur
<1>3. CursorsOK(q)
  BY <1>1, <1>2 DEF CursorsOK
<1>. QED  BY <1>3 DEF q

LEMMA FewerCursors ==
  ASSUME NEW p, CursorsOK(p), NEW q \in Seq(Cursor), Part(q, p)
  PROVE  CursorsOK(q)
  BY PartOK, PartElements DEF CursorsOK

LEMMA CursorsTyped ==
  ASSUME CursorsOK(page)
  PROVE  \A i \in DOMAIN page :
            /\ page[i].id \in BookIds /\ page[i].rev \in 0 .. MaxRev /\ page[i].head \in 0 .. MaxRev
            /\ page[i].items \in Seq(Item) /\ CursorFits(page[i])
<1>1. \A i \in DOMAIN page : page[i] \in Cursor
  BY LenProperties, ElementOfSeq DEF CursorsOK, CacheOK
<1>. QED  BY <1>1 DEF Cursor, CursorsOK

LEMMA RequestTyped ==
  ASSUME ClientsOK, NEW c \in Clients
  PROVE  /\ req[c] \in Requests /\ req[c].head \in 0 .. MaxRev /\ req[c].items \in Seq(Item)
         /\ req[c].limit \in Nat /\ token[c] \in Tokens /\ Fits(req[c], token[c])
<1>1. req[c] \in Requests /\ token[c] \in Tokens /\ Fits(req[c], token[c])
  BY DEF ClientsOK
<1>2. req[c].head \in 0 .. MaxRev /\ req[c].items \in Seq(Item) /\ req[c].limit \in Limits \cup {0}
  BY <1>1 DEF Requests
<1>3. req[c].limit \in Nat
  BY <1>2, SyncAssumption
<1>. QED  BY <1>1, <1>2, <1>3

LEMMA ReadBookKeeps ==
  ASSUME StoreOK, ClientsOK, NEW c \in Clients, NEW limit \in Limits, ReadBook(c, limit)
  PROVE  ClientsOK'
<1>1. CASE StartOver(c)
  BY <1>1, StartedOver
<1>2. CASE ~StartOver(c) /\ ~UNCHANGED <<req, token, copy>>
  <2>1. PICK id \in AddressbookOf(Username, Slug) :
          /\ ~WrongBook(c, id)
          /\ req' = [req EXCEPT ![c] =
                  [pc |-> IF token[c] = NoRow \/ limit = 0 THEN "list" ELSE "cursor",
                   id |-> id, head |-> books[id].revision, limit |-> limit,
                   started |-> clock, items |-> <<>>]]
          /\ UNCHANGED <<token, copy>>
    BY <1>2 DEF ReadBook
  <2> DEFINE r == [pc |-> IF token[c] = NoRow \/ limit = 0 THEN "list" ELSE "cursor",
                   id |-> id, head |-> books[id].revision, limit |-> limit,
                   started |-> clock, items |-> <<>>]
  <2>2. TypeOK /\ id \in Live /\ id \in BookIds
    BY DEF AddressbookOf, Live, StoreOK, JournalInv
  <2>3. books[id] \in BookRow /\ clock \in 0 .. MaxClock
    BY <2>2 DEF TypeOK, Live
  <2>4. books[id].revision \in 0 .. MaxRev /\ id \in 0 .. MaxBooks /\ <<>> \in Seq(Item)
    BY <2>2, <2>3, BoundsAssumption DEF BookRow, BookIds
  <2>5. r \in Requests
    BY <2>3, <2>4 DEF Requests
  <2>6. r.pc \in {"list", "cursor"} /\ r.id = id /\ (r.pc = "cursor" => token[c] # NoRow)
    OBVIOUS
  <2>7. Fits(r, token[c])
    <3>. HIDE DEF r
    <3>. QED  BY <2>1, <2>2, <2>6 DEF Fits, WrongBook
  <2>8. token' = [token EXCEPT ![c] = token[c]] /\ copy' = [copy EXCEPT ![c] = copy[c]]
    BY <2>1 DEF ClientsOK
  <2>9. token[c] \in Tokens /\ copy[c] \in Copies /\ req' = [req EXCEPT ![c] = r]
    BY <2>1 DEF ClientsOK
  <2>. HIDE DEF r
  <2>. QED  BY <2>5, <2>7, <2>8, <2>9, ClientMove
<1>3. CASE UNCHANGED <<req, token, copy>>
  BY <1>3 DEF ClientsOK
<1>. QED  BY <1>1, <1>2, <1>3

LEMMA CursorHitKeeps ==
  ASSUME CursorsOK(page), ClientsOK, NEW c \in Clients, NEW arrives, CursorHit(c, arrives)
  PROVE  CursorsOK(page)' /\ ClientsOK'
<1>1. PICK i \in CursorsAt(page, token[c]) :
        /\ page' = CacheAfter(Without(page, token[c]), page[i].id, page[i].head, page[i].items, req[c].limit)
        /\ Respond(c, page[i].id, page[i].head, page[i].items, req[c].limit, arrives)
  BY DEF CursorHit
<1>2. /\ page[i].id \in BookIds /\ page[i].head \in 0 .. MaxRev /\ page[i].items \in Seq(Item)
      /\ Rising(page[i].items) /\ req[c].limit \in Nat
  BY CursorsTyped, RequestTyped DEF CursorsAt, CursorFits
<1>3. CursorsOK(Without(page, token[c]))
  <2>1. Without(page, token[c]) \in Seq(Cursor) /\ Part(Without(page, token[c]), page)
    BY WithoutIsPart DEF CursorsOK, CacheOK
  <2>. QED  BY <2>1, FewerCursors
<1>4. CursorsOK(page')
  BY <1>1, <1>2, <1>3, CutOK
<1>5. CursorsOK(page)'
  BY <1>4 DEF CursorsOK, CacheOK, UniqueKeys, OverCap, ItemCount, CursorFits, Rising, Key
<1>. QED  BY <1>1, <1>2, <1>5, Answered

LEMMA BuildKeeps ==
  ASSUME CursorsOK(page), ClientsOK, NEW c \in Clients, NEW arrives, Build(c, arrives)
  PROVE  CursorsOK(page)' /\ ClientsOK'
<1>1. /\ req[c].id \in BookIds /\ req[c].head \in 0 .. MaxRev /\ req[c].items \in Seq(Item)
      /\ Rising(req[c].items) /\ req[c].limit \in Nat
  BY RequestTyped DEF Build, Fits
<1>2. CursorsOK(page')
  BY <1>1, CutOK DEF Build
<1>3. CursorsOK(page)'
  BY <1>2 DEF CursorsOK, CacheOK, UniqueKeys, OverCap, ItemCount, CursorFits, Rising, Key
<1>. QED  BY <1>1, <1>3, Answered DEF Build

LEMMA ListingKeeps ==
  ASSUME ClientsOK, NEW c \in Clients, NEW list \in Seq(Item), req[c].pc = "list",
         Rising(list), \A a \in DOMAIN list : list[a].rev >= Since(token[c]),
         token[c] # NoRow => req[c].head >= token[c].rev,
         req' = [req EXCEPT ![c].pc = "build", ![c].items = list], UNCHANGED <<token, copy>>
  PROVE  ClientsOK'
<1> DEFINE r == [[req[c] EXCEPT !.pc = "build"] EXCEPT !.items = list]
<1>1. req \in [Clients -> Requests] /\ req[c] \in Requests /\ Fits(req[c], token[c])
  BY DEF ClientsOK
<1>2. r \in Requests
  BY <1>1 DEF Requests
<1>3. r.pc = "build" /\ r.id = req[c].id /\ r.head = req[c].head /\ r.items = list
  BY <1>1 DEF Requests
<1>4. req' = [req EXCEPT ![c] = r]
  BY <1>1
<1>. HIDE DEF r
<1>5. Fits(r, token[c])
  BY <1>1, <1>3 DEF Fits
<1>6. token' = [token EXCEPT ![c] = token[c]] /\ copy' = [copy EXCEPT ![c] = copy[c]]
      /\ token[c] \in Tokens /\ copy[c] \in Copies
  BY DEF ClientsOK
<1>. QED  BY <1>2, <1>4, <1>5, <1>6, ClientMove

LEMMA ListAllKeeps ==
  ASSUME StoreOK, ClientsOK, NEW c \in Clients, ListAll(c)
  PROVE  ClientsOK'
<1> DEFINE list == ListCurrentCardSyncStates(req[c].id)
<1>1. req[c].id \in BookIds /\ req[c].pc = "list" /\ token[c] = NoRow
  BY RequestTyped DEF ListAll, Fits
<1>2. list \in Seq(Item) /\ Rising(list)
  BY <1>1, CurrentListing
<1>3. req' = [req EXCEPT ![c].pc = "build", ![c].items = list] /\ UNCHANGED <<token, copy>>
  BY DEF ListAll
<1>. HIDE DEF list
<1>4. \A a \in DOMAIN list : list[a].rev >= Since(token[c])
  <2>1. \A a \in DOMAIN list : list[a] \in Item
    BY <1>2, LenProperties, ElementOfSeq
  <2>. QED  BY <1>1, <2>1, BoundsAssumption DEF Item, Since
<1>. QED  BY <1>1, <1>2, <1>3, <1>4, ListingKeeps

LEMMA ListChangesKeeps ==
  ASSUME StoreOK, ClientsOK, NEW c \in Clients, ListChanges(c)
  PROVE  ClientsOK'
<1> DEFINE list == ListCardChangesSince(req[c].id, token[c].rev)
<1>1. req[c].id \in BookIds /\ req[c].pc = "list" /\ token[c] # NoRow /\ req[c].head \in 0 .. MaxRev
  BY RequestTyped DEF ListChanges, Fits
<1>2. token[c].rev \in 0 .. MaxRev /\ token[c].rev \in Nat /\ req[c].head \in Nat
  <2>1. token[c] \in Token
    BY <1>1, RequestTyped DEF Tokens
  <2>. QED  BY <1>1, <2>1, BoundsAssumption DEF Token
<1>3. /\ list \in Seq(Item)
      /\ \A a, b \in DOMAIN list : a < b => list[a].rev < list[b].rev
      /\ \A a \in DOMAIN list : \E d \in Later(req[c].id, token[c].rev) : list[a] = ChangeRow(d)
  BY <1>1, ChangeListing
<1>4. CASE StartOver(c)
  BY <1>4, StartedOver
<1>5. CASE ~StartOver(c)
  <2>1. /\ ~(token[c].rev > req[c].head)
        /\ req' = [req EXCEPT ![c].pc = "build", ![c].items = list] /\ UNCHANGED <<token, copy>>
    BY <1>5 DEF ListChanges
  <2>. HIDE DEF list
  <2>2. \A a \in DOMAIN list : list[a] \in Item
    BY <1>3, LenProperties, ElementOfSeq
  <2>3. \A a \in DOMAIN list : list[a].rev \in Nat
    BY <2>2, BoundsAssumption DEF Item
  <2>4. Rising(list)
    BY <1>3, <2>3 DEF Rising
  <2>5. \A a \in DOMAIN list : list[a].rev > token[c].rev
    BY <1>3 DEF Later, ChangeRow
  <2>6. \A a \in DOMAIN list : list[a].rev >= Since(token[c])
    BY <1>1, <1>2, <2>3, <2>5 DEF Since
  <2>7. req[c].head >= token[c].rev
    BY <1>2, <2>1
  <2>. QED  BY <1>1, <1>3, <2>1, <2>4, <2>6, <2>7, ListingKeeps
<1>. QED  BY <1>4, <1>5

LEMMA CursorMissKeeps ==
  ASSUME ClientsOK, NEW c \in Clients, CursorMiss(c)
  PROVE  ClientsOK'
<1> DEFINE r == [req[c] EXCEPT !.pc = "list"]
<1>1. req \in [Clients -> Requests] /\ req[c] \in Requests /\ Fits(req[c], token[c]) /\ req[c].pc = "cursor"
  BY DEF ClientsOK, CursorMiss
<1>2. r \in Requests /\ r.pc = "list" /\ r.id = req[c].id
  BY <1>1 DEF Requests
<1>3. req' = [req EXCEPT ![c] = r]
  BY <1>1 DEF CursorMiss
<1>. HIDE DEF r
<1>4. Fits(r, token[c])
  BY <1>1, <1>2 DEF Fits
<1>5. token' = [token EXCEPT ![c] = token[c]] /\ copy' = [copy EXCEPT ![c] = copy[c]]
      /\ token[c] \in Tokens /\ copy[c] \in Copies
  BY DEF ClientsOK, CursorMiss
<1>. QED  BY <1>2, <1>3, <1>4, <1>5, ClientMove

LEMMA SyncStep == SyncInv /\ [SyncNext]_vars => SyncInv'
<1>. SUFFICES ASSUME SyncInv, [SyncNext]_vars PROVE SyncInv'
  OBVIOUS
<1>1. StoreOK /\ CursorsOK(page) /\ ClientsOK
  BY DEF SyncInv
<1>2. ASSUME UNCHANGED <<token, copy, req>> PROVE ClientsOK'
  BY <1>1, <1>2 DEF ClientsOK, Fits, Rising, Since
<1>3. ASSUME UNCHANGED page PROVE CursorsOK(page)'
  BY <1>1, <1>3 DEF CursorsOK, CacheOK, UniqueKeys, OverCap, ItemCount, CursorFits, Rising, Key
<1>4. CASE WorldStep
  <2>1. UNCHANGED syncVars
    BY <1>1, <1>4, WorldIsStore DEF StoreOK, JournalInv
  <2>. QED  BY <1>1, <1>2, <1>3, <1>4, <2>1, StoreKept DEF syncVars, SyncInv
<1>5. CASE ExpireCursor
  <2>1. CursorsOK(page')
    BY <1>1, <1>5, TailIsPart, FewerCursors DEF ExpireCursor, CursorsOK, CacheOK
  <2>2. CursorsOK(page)'
    BY <2>1 DEF CursorsOK, CacheOK, UniqueKeys, OverCap, ItemCount, CursorFits, Rising, Key
  <2>. QED  BY <1>1, <1>2, <1>5, <2>2, StoreStays DEF ExpireCursor, SyncInv
<1>6. CASE \E c \in Clients : RequestStep(c)
  <2>1. PICK c \in Clients : RequestStep(c)
    BY <1>6
  <2>2. UNCHANGED storeVars
    BY <2>1 DEF RequestStep, ReadBook, CursorHit, CursorMiss, ListAll, ListChanges, Build
  <2>3. CASE \E limit \in Limits : ReadBook(c, limit)
    <3>1. ClientsOK' /\ UNCHANGED page
      BY <1>1, <2>3, ReadBookKeeps DEF ReadBook
    <3>. QED  BY <1>1, <1>3, <2>2, <3>1, StoreStays DEF SyncInv
  <2>4. CASE \E arrives \in BOOLEAN : CursorHit(c, arrives)
    BY <1>1, <2>2, <2>4, CursorHitKeeps, StoreStays DEF SyncInv
  <2>5. CASE CursorMiss(c)
    BY <1>1, <1>3, <2>2, <2>5, CursorMissKeeps, StoreStays DEF SyncInv, CursorMiss
  <2>6. CASE ListAll(c)
    BY <1>1, <1>3, <2>2, <2>6, ListAllKeeps, StoreStays DEF SyncInv, ListAll
  <2>7. CASE ListChanges(c)
    BY <1>1, <1>3, <2>2, <2>7, ListChangesKeeps, StoreStays DEF SyncInv, ListChanges
  <2>8. CASE \E arrives \in BOOLEAN : Build(c, arrives)
    BY <1>1, <2>2, <2>8, BuildKeeps, StoreStays DEF SyncInv
  <2>. QED  BY <2>1, <2>3, <2>4, <2>5, <2>6, <2>7, <2>8 DEF RequestStep
<1>7. CASE \E c \in Clients : Restart(c)
  BY <1>1, <1>3, <1>7, StartedOver, StoreStays DEF SyncInv, Restart
<1>8. CASE UNCHANGED vars
  BY <1>1, <1>2, <1>3, <1>8, StoreStays DEF vars, syncVars, SyncInv
<1>. QED  BY <1>4, <1>5, <1>6, <1>7, <1>8 DEF SyncNext, SteadyNext

LEMMA SyncStarts == SyncInit => SyncInv
<1>. SUFFICES ASSUME SyncInit PROVE SyncInv
  OBVIOUS
<1>1. StoreOK
  BY StoreStarts
<1>2. CursorsOK(page)
  <2>1. page = <<>> /\ DOMAIN <<>> = {} /\ <<>> \in Seq(Cursor)
    BY DEF SyncInit
  <2>. QED  BY <2>1, EmptyFits DEF CursorsOK, CacheOK, UniqueKeys
<1>3. ClientsOK
  BY IdleFits, EmptyCopy DEF SyncInit, ClientsOK, Tokens
<1>. QED  BY <1>1, <1>2, <1>3 DEF SyncInv

THEOREM SyncInvariant == SyncSpec => []SyncInv
<1>1. SyncInit => SyncInv
  BY SyncStarts
<1>2. SyncInv /\ [SyncNext]_vars => SyncInv'
  BY SyncStep
<1>. QED  BY <1>1, <1>2, PTL DEF SyncSpec

\* The types of the cache, the clients and the requests, and that a token names one
\* cursor at most.
THEOREM SyncTypeCorrect == SyncSpec => []SyncTypeOK
<1>1. SyncInv => SyncTypeOK
  <2>. SUFFICES ASSUME SyncInv PROVE SyncTypeOK
    OBVIOUS
  <2>1. TypeOK
    BY DEF SyncInv, StoreOK, JournalInv
  <2>2. page \in Seq(Cursor) /\ \A i, j \in DOMAIN page : Key(page[i]) = Key(page[j]) => i = j
    BY DEF SyncInv, CursorsOK, CacheOK, UniqueKeys
  <2>3. token \in [Clients -> Tokens] /\ copy \in [Clients -> Copies] /\ req \in [Clients -> Requests]
    BY DEF SyncInv, ClientsOK
  <2>. QED  BY <2>1, <2>2, <2>3 DEF SyncTypeOK, Cursor, Tokens, Copies, Requests
<1>. QED  BY <1>1, SyncInvariant, PTL

\* For every number of clients, page size and order of puts, takes and evictions, the
\* cache stays within both its caps.
THEOREM CacheBounded == SyncSpec => []CacheWithinCaps
<1>1. SyncInv => CacheWithinCaps
  BY DEF SyncInv, CursorsOK, CacheOK, CacheWithinCaps
<1>. QED  BY <1>1, SyncInvariant, PTL

\* A page's token is never behind the one the page was asked for with.
LEMMA AnswerMovesOn ==
  ASSUME NEW id \in BookIds, NEW head \in 0 .. MaxRev, NEW items \in Seq(Item), NEW limit \in Nat,
         NEW from \in Nat, \A a \in DOMAIN items : items[a].rev >= from,
         items = <<>> => head >= from
  PROVE  PageTokenRevision(head, items, limit) >= from
<1> DEFINE rev == PageTokenRevision(head, items, limit)
<1>1. /\ rev \in 0 .. MaxRev
      /\ Truncated(items, limit) => rev = items[limit].rev
      /\ ~Truncated(items, limit) =>
           /\ items = <<>> => rev = head
           /\ items # <<>> => Len(items) \in DOMAIN items /\ rev >= items[Len(items)].rev
  BY PageTokens
<1>2. Truncated(items, limit) => limit \in DOMAIN items
  BY Pages
<1>3. \A a \in DOMAIN items : items[a].rev \in Int
  <2>1. \A a \in DOMAIN items : items[a] \in Item
    BY LenProperties, ElementOfSeq
  <2>. QED  BY <2>1, BoundsAssumption DEF Item
<1>. HIDE DEF rev
<1>4. rev >= from
  BY <1>1, <1>2, <1>3, BoundsAssumption
<1>. QED  BY <1>4 DEF rev

\* What TokenMovesForward says of one client and one step.
TokenAdvances(c) ==
    token[c] # NoRow /\ token'[c] # NoRow => token'[c].id = token[c].id /\ token'[c].rev >= token[c].rev

LEMMA RespondAdvances ==
  ASSUME ClientsOK, NEW c \in Clients, NEW id \in BookIds, NEW head \in 0 .. MaxRev, NEW items \in Seq(Item),
         NEW limit \in Nat, NEW arrives, Respond(c, id, head, items, limit, arrives),
         token[c] # NoRow => /\ id = token[c].id
                             /\ \A a \in DOMAIN items : items[a].rev >= token[c].rev
                             /\ items = <<>> => head >= token[c].rev
  PROVE  \A d \in Clients : TokenAdvances(d)
<1>1. \A d \in Clients : token[d] # NoRow => token[d].rev \in Nat
  BY BoundsAssumption DEF ClientsOK, Tokens, Token
<1>2. CASE ~arrives
  BY <1>1, <1>2 DEF Respond, TokenAdvances
<1>3. CASE arrives
  <2> DEFINE t == [id |-> id, rev |-> PageTokenRevision(head, items, limit)]
  <2>1. token' = [token EXCEPT ![c] = t]
    BY <1>3 DEF Respond
  <2>2. token[c] # NoRow => t.id = token[c].id /\ t.rev >= token[c].rev
    BY <1>1, AnswerMovesOn
  <2>. HIDE DEF t
  <2>3. \A d \in Clients : token'[d] = IF d = c THEN t ELSE token[d]
    BY <2>1 DEF ClientsOK
  <2>. QED  BY <1>1, <2>2, <2>3 DEF TokenAdvances
<1>. QED  BY <1>2, <1>3

LEMMA TokenStep == SyncInv /\ [SyncNext]_vars => \A c \in Clients : TokenAdvances(c)
<1>. SUFFICES ASSUME SyncInv, [SyncNext]_vars PROVE \A c \in Clients : TokenAdvances(c)
  OBVIOUS
<1>1. StoreOK /\ CursorsOK(page) /\ ClientsOK
  BY DEF SyncInv
<1>2. \A c \in Clients : token[c] # NoRow => token[c].rev \in Nat
  BY <1>1, BoundsAssumption DEF ClientsOK, Tokens, Token
<1>3. ASSUME UNCHANGED token PROVE \A c \in Clients : TokenAdvances(c)
  BY <1>2, <1>3 DEF TokenAdvances
<1>4. ASSUME NEW c \in Clients, StartOver(c) PROVE \A d \in Clients : TokenAdvances(d)
  BY <1>1, <1>2, <1>4 DEF StartOver, TokenAdvances, ClientsOK
<1>5. ASSUME NEW c \in Clients, NEW arrives, CursorHit(c, arrives) PROVE \A d \in Clients : TokenAdvances(d)
  <2>1. PICK i \in CursorsAt(page, token[c]) :
          Respond(c, page[i].id, page[i].head, page[i].items, req[c].limit, arrives)
    BY <1>5 DEF CursorHit
  <2>2. i \in DOMAIN page /\ Key(page[i]) = token[c]
    BY DEF CursorsAt
  <2>3. /\ page[i].id \in BookIds /\ page[i].head \in 0 .. MaxRev /\ page[i].items \in Seq(Item)
        /\ CursorFits(page[i]) /\ req[c].limit \in Nat
    BY <1>1, <2>2, CursorsTyped, RequestTyped
  <2>4. /\ page[i].id = token[c].id /\ page[i].items # <<>>
        /\ \A a \in DOMAIN page[i].items : page[i].items[a].rev >= token[c].rev
    BY <2>2, <2>3 DEF Key, CursorFits
  <2>. QED  BY <1>1, <2>1, <2>3, <2>4, RespondAdvances
<1>6. ASSUME NEW c \in Clients, NEW arrives, Build(c, arrives) PROVE \A d \in Clients : TokenAdvances(d)
  <2>1. /\ req[c].id \in BookIds /\ req[c].head \in 0 .. MaxRev /\ req[c].items \in Seq(Item)
        /\ req[c].limit \in Nat
        /\ token[c] # NoRow => /\ req[c].id = token[c].id /\ req[c].head >= token[c].rev
                               /\ \A a \in DOMAIN req[c].items : req[c].items[a].rev >= token[c].rev
    BY <1>1, <1>6, RequestTyped DEF Build, Fits, Since
  <2>. QED  BY <1>1, <1>6, <2>1, RespondAdvances DEF Build
<1>7. CASE WorldStep
  BY <1>1, <1>3, <1>7, WorldIsStore DEF StoreOK, JournalInv, syncVars
<1>8. CASE \E c \in Clients : RequestStep(c)
  <2>1. PICK c \in Clients : RequestStep(c)
    BY <1>8
  <2>2. CASE StartOver(c) \/ UNCHANGED token
    BY <1>3, <1>4, <2>2
  <2>3. CASE \E arrives : CursorHit(c, arrives) \/ Build(c, arrives)
    BY <1>5, <1>6, <2>3
  <2>. QED  BY <2>1, <2>2, <2>3 DEF RequestStep, ReadBook, CursorMiss, ListAll, ListChanges
<1>. QED  BY <1>3, <1>4, <1>7, <1>8 DEF SyncNext, SteadyNext, ExpireCursor, Restart, vars, syncVars

\* Whatever happens between a client's requests, and whichever cursors and pages answer
\* them, the client's token for a book never goes back.
THEOREM TokensMoveForward == SyncSpec => TokenMovesForward
<1>1. SyncInv /\ [SyncNext]_vars =>
        [\A c \in Clients :
            token[c] # NoRow /\ token'[c] # NoRow =>
               /\ token'[c].id = token[c].id
               /\ token'[c].rev >= token[c].rev]_vars
  BY TokenStep DEF TokenAdvances
<1>. QED  BY <1>1, SyncInvariant, PTL DEF SyncSpec, TokenMovesForward

-----------------------------------------------------------------------------
(* What the world's steps mean for a book that a client knows *)

\* The book is there, its revision has not gone back, and a card that has changed was
\* changed after the revision there was.
Grows(id) ==
    /\ id \in Live /\ books[id].revision <= books'[id].revision
    /\ \A h \in Hrefs : \/ cards'[id][h] = cards[id][h] /\ last'[id][h] = last[id][h]
                        \/ last'[id][h] > books[id].revision

LEMMA Revisions ==
  ASSUME JournalInv
  PROVE  /\ \A id \in Live : id \in BookIds /\ books[id].revision \in Nat /\ books[id].revision \in 0 .. MaxRev
         /\ \A id \in BookIds, h \in Hrefs : last[id][h] \in Nat
         /\ \A id \in Live, h \in Hrefs : last[id][h] <= books[id].revision
         /\ \A c \in changes : c.rev \in Nat /\ c.rev > 0 /\ c.rev <= MaxRev /\ c.book \in BookIds /\ c.href \in Hrefs
         /\ seq.books \in Nat /\ clock \in Nat /\ MaxRev \in Nat
<1>1. TypeOK /\ LastWithinRevision /\ MaxRev \in Nat
  BY BoundsAssumption DEF JournalInv
<1>2. \A id \in Live : id \in BookIds /\ books[id] \in BookRow
  BY <1>1 DEF TypeOK, Live
<1>3. \A id \in Live : books[id].revision \in Nat /\ books[id].revision \in 0 .. MaxRev
  BY <1>1, <1>2 DEF BookRow
<1>4. \A id \in BookIds, h \in Hrefs : last[id][h] \in Nat
  <2>1. \A id \in BookIds, h \in Hrefs : last[id][h] \in 0 .. MaxRev
    BY <1>1 DEF TypeOK
  <2>. QED  BY <1>1, <2>1
<1>5. \A c \in changes : c.rev \in 1 .. MaxRev /\ c.book \in BookIds /\ c.href \in Hrefs
  BY <1>1 DEF TypeOK, Change
<1>6. seq.books \in Nat /\ clock \in Nat
  BY <1>1, BoundsAssumption DEF TypeOK
<1>. QED  BY <1>1, <1>2, <1>3, <1>4, <1>5, <1>6 DEF LastWithinRevision

LEMMA WorldGrows ==
  ASSUME StoreOK, WorldStep
  PROVE  /\ seq.books <= seq'.books
         /\ \A id \in BookIds : id <= seq.books /\ id \in Live' => Grows(id)
<1>1. JournalInv /\ TypeOK /\ UsersKnown
  BY DEF StoreOK, JournalInv
<1>2. /\ \A id \in Live : id \in BookIds /\ books[id].revision \in Nat
      /\ \A id \in BookIds, h \in Hrefs : last[id][h] \in Nat
      /\ seq.books \in Nat
  BY <1>1, Revisions
<1>3. ASSUME seq' = seq, last' = last,
             \A id \in Live' : id \in Live /\ books'[id] = books[id] /\ cards'[id] = cards[id]
      PROVE  /\ seq.books <= seq'.books
             /\ \A id \in BookIds : id <= seq.books /\ id \in Live' => Grows(id)
  BY <1>2, <1>3 DEF Grows
<1>4. CASE WriteCard
  <2>1. PICK id \in BookIds, h \in Hrefs : \E c : Wrote(id, h, c)
    BY <1>1, <1>4, OneWrite
  <2>2. PICK c : Wrote(id, h, c)
    BY <2>1
  <2>3. seq' = seq /\ Live' = Live /\ id \in Live
    BY <2>2 DEF Wrote
  <2>4. ASSUME NEW o \in BookIds, o \in Live, o # id PROVE Grows(o)
    <3>1. books'[o] = books[o] /\ cards'[o] = cards[o] /\ last'[o] = last[o]
      BY <2>2, <2>4 DEF Wrote
    <3>. QED  BY <1>2, <2>4, <3>1 DEF Grows
  <2>5. Grows(id)
    <3>1. /\ books[id].revision \in Nat /\ books'[id].revision = books[id].revision + 1
          /\ \A g \in Hrefs \ {h} : cards'[id][g] = cards[id][g] /\ last'[id][g] = last[id][g]
          /\ last'[id][h] = books[id].revision + 1
      BY <2>2 DEF Wrote
    <3>2. books[id].revision <= books'[id].revision /\ last'[id][h] > books[id].revision
      BY <3>1
    <3>. QED  BY <2>3, <3>1, <3>2 DEF Grows
  <2>. QED  BY <1>2, <2>3, <2>4, <2>5
<1>5. CASE RemoveCollection
  BY <1>3, <1>5 DEF RemoveCollection, DeleteAddressbook, RemoveBooks, Live
<1>6. CASE MakeCollection
  <2>1. PICK u \in UserIds, n \in Names : CreateAddressbook(u, Slug, n, TRUE)
    BY <1>6 DEF MakeCollection
  <2>2. /\ cards' = cards /\ last' = last /\ seq'.books = seq.books + 1
        /\ \A o \in BookIds : o # seq.books + 1 => books'[o] = books[o]
    BY <1>1, <2>1 DEF CreateAddressbook, TypeOK, NewBookId
  <2>3. \A id \in BookIds : id \in Nat
    BY BoundsAssumption DEF BookIds
  <2>4. \A id \in BookIds : id <= seq.books /\ id \in Live' => id \in Live /\ books'[id] = books[id]
    BY <1>2, <2>2, <2>3 DEF Live
  <2>. QED  BY <1>2, <2>2, <2>4 DEF Grows
<1>7. CASE PruneByAge \/ PruneByRevisions \/ TimePasses
  BY <1>3, <1>7 DEF PruneByAge, PruneCardChangesByAge, PruneByRevisions, PruneCardChangesByMaxRevisions,
              TimePasses, Tick, Live
<1>. QED  BY <1>4, <1>5, <1>6, <1>7 DEF WorldStep

\* What an answer does to the client's copy: the last item of the page for a card
\* decides, and a card the page does not name is left as it was.
Applied(new, old, shown, h) ==
    /\ (\A a \in DOMAIN shown : shown[a].href # h) => new[h] = old[h]
    /\ \A a \in DOMAIN shown :
         shown[a].href = h /\ (\A b \in DOMAIN shown : b > a => shown[b].href # h) =>
            new[h] = IF shown[a].deleted THEN NoRow ELSE shown[a].etag

LEMMA AppliedPage ==
  ASSUME NEW old, NEW items \in Seq(Item), NEW limit \in Nat,
         NEW shown, shown = Shown(items, limit), NEW new, new = Apply(old, Collapsed(shown))
  PROVE  \A h \in Hrefs : Applied(new, old, shown, h)
<1> DEFINE sent == Collapsed(shown)
<1>. SUFFICES ASSUME NEW h \in Hrefs
              PROVE  /\ (\A a \in DOMAIN shown : shown[a].href # h) => new[h] = old[h]
                     /\ \A a \in DOMAIN shown :
                          shown[a].href = h /\ (\A b \in DOMAIN shown : b > a => shown[b].href # h) =>
                             new[h] = IF shown[a].deleted THEN NoRow ELSE shown[a].etag
  BY DEF Applied
<1>0. new = Apply(old, sent)
  OBVIOUS
<1>1. shown \in Seq(Item)
  BY Pages
<1>2. \A a \in DOMAIN shown : a \in Int
  BY <1>1, LenProperties
<1>3. \A x \in sent : \E a \in DOMAIN shown : x = shown[a] /\ \A b \in DOMAIN shown : b > a => shown[b].href # shown[a].href
  BY DEF Collapsed
<1>4. \A a \in DOMAIN shown : (\A b \in DOMAIN shown : b > a => shown[b].href # shown[a].href) => shown[a] \in sent
  BY DEF Collapsed
<1>. HIDE DEF sent
<1>5. ASSUME \A a \in DOMAIN shown : shown[a].href # h PROVE new[h] = old[h]
  <2>1. ~\E x \in sent : x.href = h
    BY <1>3, <1>5
  <2>. QED  BY <1>0, <2>1 DEF Apply
<1>6. ASSUME NEW a \in DOMAIN shown, shown[a].href = h, \A b \in DOMAIN shown : b > a => shown[b].href # h
      PROVE  new[h] = IF shown[a].deleted THEN NoRow ELSE shown[a].etag
  <2>1. shown[a] \in sent
    BY <1>4, <1>6
  <2>2. ASSUME NEW x \in sent, x.href = h PROVE x = shown[a]
    <3>1. PICK b \in DOMAIN shown : x = shown[b] /\ \A d \in DOMAIN shown : d > b => shown[d].href # shown[b].href
      BY <1>3
    <3>2. ~(b > a) /\ ~(a > b)
      BY <1>6, <2>2, <3>1
    <3>. QED  BY <1>2, <3>1, <3>2
  <2>3. (CHOOSE x \in sent : x.href = h) = shown[a]
    BY <1>6, <2>1, <2>2
  <2>4. new[h] = LET it == CHOOSE x \in sent : x.href = h IN IF it.deleted THEN NoRow ELSE it.etag
    BY <1>0, <1>6, <2>1 DEF Apply
  <2>. QED  BY <2>3, <2>4
<1>. QED  BY <1>5, <1>6

-----------------------------------------------------------------------------
(* No create or update is lost, while the journal keeps every change *)

\* The journal has the last change of every card.
Recorded ==
    \A id \in Live, h \in Hrefs : cards[id][h] # NoRow =>
        \E c \in changes : c.book = id /\ c.href = h /\ c.rev = last[id][h]

\* The item that says what the card h of the book id is.
UpsertOf(id, h) == [rev |-> last[id][h], href |-> h, etag |-> cards[id][h].etag, deleted |-> FALSE]

\* The items say what became, after `from', of every card whose last change was made by
\* the head or by the revision of one of them.
Covers(id, from, head, items) ==
    /\ \A a, b \in DOMAIN items : a < b => items[a].rev < items[b].rev
    /\ \A a \in DOMAIN items : items[a].rev > from
    /\ id \in Live =>
         /\ head <= books[id].revision
         /\ \A a \in DOMAIN items : items[a].rev <= last[id][items[a].href]
         /\ \A h \in Hrefs :
              /\ cards[id][h] # NoRow /\ from < last[id][h]
              /\ last[id][h] <= head \/ \E a \in DOMAIN items : last[id][h] <= items[a].rev
              => \E a \in DOMAIN items : items[a] = UpsertOf(id, h)

\* What a client with this token and this copy has of the cards the token covers.
HasUpserts(t, k) ==
    t # NoRow /\ t.id \in Live => \A h \in Hrefs :
        cards[t.id][h] # NoRow /\ last[t.id][h] <= t.rev => k[h] = cards[t.id][h].etag

KnownBook(id, rev) == id <= seq.books /\ (id \in Live => rev <= books[id].revision)

CursorCovers(cur) == KnownBook(cur.id, cur.rev) /\ Covers(cur.id, cur.rev, cur.head, cur.items)
ClientCovers(r, t, k) ==
    /\ t # NoRow => KnownBook(t.id, t.rev)
    /\ r.pc # "idle" => KnownBook(r.id, r.head)
    /\ r.pc = "build" => Covers(r.id, Since(t), r.head, r.items)
    /\ HasUpserts(t, k)

CursorsCover(p) == \A i \in DOMAIN p : CursorCovers(p[i])
ClientsCover(r, t, k) == \A c \in Clients : ClientCovers(r[c], t[c], k[c])

UpsertInv == SyncInv /\ Recorded /\ CursorsCover(page) /\ ClientsCover(req, token, copy)

LEMMA ItemTypes ==
  ASSUME NEW items \in Seq(Item)
  PROVE  /\ \A a \in DOMAIN items : /\ items[a] \in Item /\ items[a].rev \in Nat /\ items[a].rev \in 0 .. MaxRev
                                    /\ items[a].href \in Hrefs /\ a \in Nat /\ a > 0
         /\ Len(items) \in Nat /\ DOMAIN items = 1 .. Len(items)
<1>1. Len(items) \in Nat /\ DOMAIN items = 1 .. Len(items) /\ \A a \in DOMAIN items : items[a] \in Item
  BY LenProperties, ElementOfSeq
<1>2. \A a \in DOMAIN items : items[a].rev \in 0 .. MaxRev /\ items[a].href \in Hrefs
  BY <1>1 DEF Item
<1>. QED  BY <1>1, <1>2, BoundsAssumption

\* Whatever else changes the book, the items go on covering it.
LEMMA CoversGrows ==
  ASSUME JournalInv, NEW id \in BookIds, NEW from \in Nat, NEW head \in Nat, NEW items \in Seq(Item),
         Covers(id, from, head, items), id \in Live' => Grows(id), JournalInv'
  PROVE  Covers(id, from, head, items)'
<1>. SUFFICES ASSUME id \in Live'
              PROVE  /\ head <= books'[id].revision
                     /\ \A a \in DOMAIN items : items[a].rev <= last'[id][items[a].href]
                     /\ \A h \in Hrefs :
                          /\ cards'[id][h] # NoRow /\ from < last'[id][h]
                          /\ last'[id][h] <= head \/ \E a \in DOMAIN items : last'[id][h] <= items[a].rev
                          => \E a \in DOMAIN items : items[a] = UpsertOf(id, h)'
  BY DEF Covers
<1>1. /\ id \in Live /\ books[id].revision <= books'[id].revision
      /\ \A h \in Hrefs : \/ cards'[id][h] = cards[id][h] /\ last'[id][h] = last[id][h]
                          \/ last'[id][h] > books[id].revision
  BY DEF Grows
<1>2. /\ books[id].revision \in Nat
      /\ \A h \in Hrefs : last[id][h] \in Nat /\ last[id][h] <= books[id].revision
  BY <1>1, Revisions
<1>3. books'[id].revision \in Nat /\ \A h \in Hrefs : last'[id][h] \in Nat
  <2>1. MaxRev \in Nat /\ 0 .. MaxRev \subseteq Nat
    BY BoundsAssumption
  <2>. QED  BY <2>1 DEF JournalInv, TypeOK, BookRow, Live
<1>4. /\ head <= books[id].revision
      /\ \A a \in DOMAIN items : items[a].rev <= last[id][items[a].href]
      /\ \A h \in Hrefs :
           /\ cards[id][h] # NoRow /\ from < last[id][h]
           /\ last[id][h] <= head \/ \E a \in DOMAIN items : last[id][h] <= items[a].rev
           => \E a \in DOMAIN items : items[a] = UpsertOf(id, h)
  BY <1>1 DEF Covers
<1>5. head <= books'[id].revision
  BY <1>1, <1>2, <1>3, <1>4
<1>6. \A a \in DOMAIN items : items[a].href \in Hrefs /\ items[a].rev \in Nat /\ items[a].rev <= books[id].revision
  BY <1>2, <1>4, ItemTypes
<1>7. ASSUME NEW a \in DOMAIN items PROVE items[a].rev <= last'[id][items[a].href]
  <2>1. /\ items[a].href \in Hrefs /\ items[a].rev \in Nat /\ items[a].rev <= books[id].revision
        /\ items[a].rev <= last[id][items[a].href]
    BY <1>4, <1>6
  <2>2. PICK g \in Hrefs : g = items[a].href
    BY <2>1
  <2>3. last'[id][g] = last[id][g] \/ last'[id][g] > books[id].revision
    BY <1>1
  <2>4. items[a].rev <= last'[id][g]
    BY <1>2, <1>3, <2>1, <2>2, <2>3
  <2>. QED  BY <2>2, <2>4
<1>8. ASSUME NEW h \in Hrefs, cards'[id][h] # NoRow, from < last'[id][h],
             last'[id][h] <= head \/ \E a \in DOMAIN items : last'[id][h] <= items[a].rev
      PROVE  \E a \in DOMAIN items : items[a] = UpsertOf(id, h)'
  <2>1. ~(last'[id][h] > books[id].revision)
    BY <1>2, <1>3, <1>4, <1>6, <1>8
  <2>2. cards'[id][h] = cards[id][h] /\ last'[id][h] = last[id][h]
    BY <1>1, <2>1
  <2>3. \E a \in DOMAIN items : items[a] = UpsertOf(id, h)
    BY <1>4, <1>8, <2>2
  <2>4. UpsertOf(id, h)' = UpsertOf(id, h)
    BY <2>2 DEF UpsertOf
  <2>. QED  BY <2>3, <2>4
<1>. QED  BY <1>5, <1>7, <1>8

\* The page that is cut off takes what it shows with it, and the rest covers what comes
\* after it.
LEMMA CoversRest ==
  ASSUME NEW id, NEW from \in Nat, NEW head \in 0 .. MaxRev, NEW items \in Seq(Item), NEW limit \in Nat,
         Covers(id, from, head, items), Truncated(items, limit), JournalInv, id \in BookIds
  PROVE  Covers(id, PageTokenRevision(head, items, limit), head, Remaining(items, limit))
<1> DEFINE rest == Remaining(items, limit)
           rev == PageTokenRevision(head, items, limit)
<1>1. /\ limit \in DOMAIN items /\ DOMAIN rest = 1 .. Len(items) - limit /\ rest \in Seq(Item)
      /\ \A a \in DOMAIN rest : limit + a \in DOMAIN items /\ rest[a] = items[limit + a]
  BY Pages
<1>2. rev = items[limit].rev
  BY PageTokens
<1>3. \A a \in DOMAIN items : items[a].rev \in Nat /\ items[a].href \in Hrefs /\ a \in Nat /\ a > 0
  BY ItemTypes
<1>3a. DOMAIN items = 1 .. Len(items) /\ Len(items) \in Nat
  BY ItemTypes
<1>4. /\ \A a, b \in DOMAIN items : a < b => items[a].rev < items[b].rev
      /\ \A a \in DOMAIN items : items[a].rev > from
  BY DEF Covers
<1>. HIDE DEF rest, rev
<1>5. \A a \in DOMAIN rest : a \in Nat /\ a > 0
  BY <1>1, ItemTypes
<1>6. \A a, b \in DOMAIN rest : a < b => rest[a].rev < rest[b].rev
  <2>. SUFFICES ASSUME NEW a \in DOMAIN rest, NEW b \in DOMAIN rest, a < b PROVE rest[a].rev < rest[b].rev
    OBVIOUS
  <2>1. limit + a < limit + b
    BY <1>5
  <2>. QED  BY <1>1, <1>4, <2>1
<1>7. \A a \in DOMAIN rest : rest[a].rev > rev
  <2>. SUFFICES ASSUME NEW a \in DOMAIN rest PROVE rest[a].rev > rev
    OBVIOUS
  <2>1. limit < limit + a
    BY <1>5
  <2>2. items[limit].rev < items[limit + a].rev /\ items[limit].rev \in Nat /\ items[limit + a].rev \in Nat
    BY <1>1, <1>3, <1>4, <2>1
  <2>. QED  BY <1>1, <1>2, <2>2
<1>8. ASSUME id \in Live
      PROVE  /\ head <= books[id].revision
             /\ \A a \in DOMAIN rest : rest[a].rev <= last[id][rest[a].href]
             /\ \A h \in Hrefs :
                  /\ cards[id][h] # NoRow /\ rev < last[id][h]
                  /\ last[id][h] <= head \/ \E a \in DOMAIN rest : last[id][h] <= rest[a].rev
                  => \E a \in DOMAIN rest : rest[a] = UpsertOf(id, h)
  <2>1. /\ head <= books[id].revision
        /\ \A a \in DOMAIN items : items[a].rev <= last[id][items[a].href]
        /\ \A h \in Hrefs :
             /\ cards[id][h] # NoRow /\ from < last[id][h]
             /\ last[id][h] <= head \/ \E a \in DOMAIN items : last[id][h] <= items[a].rev
             => \E a \in DOMAIN items : items[a] = UpsertOf(id, h)
    BY <1>8 DEF Covers
  <2>2. ASSUME NEW h \in Hrefs, cards[id][h] # NoRow, rev < last[id][h],
               last[id][h] <= head \/ \E a \in DOMAIN rest : last[id][h] <= rest[a].rev
        PROVE  \E a \in DOMAIN rest : rest[a] = UpsertOf(id, h)
    <3>1. last[id][h] \in Nat
      BY Revisions
    <3>2. from < last[id][h]
      BY <1>1, <1>2, <1>3, <1>4, <2>2, <3>1
    <3>3. last[id][h] <= head \/ \E a \in DOMAIN items : last[id][h] <= items[a].rev
      BY <1>1, <2>2
    <3>4. PICK a \in DOMAIN items : items[a] = UpsertOf(id, h)
      BY <2>1, <2>2, <3>2, <3>3
    <3>5. items[a].rev = last[id][h]
      BY <3>4 DEF UpsertOf
    <3>6. a > limit
      <4>1. ~(a < limit) /\ a # limit
        BY <1>1, <1>2, <1>3, <1>4, <2>2, <3>1, <3>5
      <4>. QED  BY <1>1, <1>3, <4>1
    <3>7. a - limit \in DOMAIN rest /\ limit + (a - limit) = a
      BY <1>1, <1>3, <1>3a, <3>6
    <3>. QED  BY <1>1, <3>4, <3>7
  <2>. QED  BY <1>1, <2>1, <2>2
<1>9. Covers(id, rev, head, rest)
  BY <1>6, <1>7, <1>8 DEF Covers
<1>. QED  BY <1>9 DEF rest, rev

LEMMA UpsertsAnswered ==
  ASSUME JournalInv, NEW id \in BookIds, NEW from \in Nat, NEW head \in 0 .. MaxRev, NEW items \in Seq(Item),
         NEW limit \in Nat, NEW k, Covers(id, from, head, items), id \in Live => from <= books[id].revision,
         id \in Live => \A h \in Hrefs : cards[id][h] # NoRow /\ last[id][h] <= from => k[h] = cards[id][h].etag
  PROVE  LET t == [id |-> id, rev |-> PageTokenRevision(head, items, limit)] IN
         /\ HasUpserts(t, Apply(k, Collapsed(Shown(items, limit))))
         /\ id \in Live => t.rev <= books[id].revision
<1> DEFINE rev == PageTokenRevision(head, items, limit)
           new == Apply(k, Collapsed(Shown(items, limit)))
           shown == Shown(items, limit)
<1>. SUFFICES ASSUME id \in Live
              PROVE  /\ rev <= books[id].revision
                     /\ \A h \in Hrefs : cards[id][h] # NoRow /\ last[id][h] <= rev => new[h] = cards[id][h].etag
  BY DEF HasUpserts
<1>1. /\ \A a, b \in DOMAIN items : a < b => items[a].rev < items[b].rev
      /\ \A a \in DOMAIN items : items[a].rev > from
      /\ head <= books[id].revision
      /\ \A a \in DOMAIN items : items[a].rev <= last[id][items[a].href]
      /\ \A h \in Hrefs :
           /\ cards[id][h] # NoRow /\ from < last[id][h]
           /\ last[id][h] <= head \/ \E a \in DOMAIN items : last[id][h] <= items[a].rev
           => \E a \in DOMAIN items : items[a] = UpsertOf(id, h)
  BY DEF Covers
<1>2. \A a \in DOMAIN items : items[a].rev \in Nat /\ items[a].href \in Hrefs /\ a \in Nat
  BY ItemTypes
<1>3. /\ rev \in 0 .. MaxRev /\ rev \in Nat /\ head \in Nat
      /\ Truncated(items, limit) => rev = items[limit].rev /\ limit \in DOMAIN items
      /\ ~Truncated(items, limit) =>
           rev = head \/ (Len(items) \in DOMAIN items /\ rev = items[Len(items)].rev)
  <2>1. /\ rev \in 0 .. MaxRev
        /\ Truncated(items, limit) => rev = items[limit].rev
        /\ ~Truncated(items, limit) =>
             /\ items = <<>> => rev = head
             /\ items # <<>> => /\ Len(items) \in DOMAIN items
                                /\ rev >= head /\ rev >= items[Len(items)].rev
                                /\ rev = head \/ rev = items[Len(items)].rev
    BY PageTokens
  <2>2. Truncated(items, limit) => limit \in DOMAIN items
    BY Pages
  <2>3. 0 .. MaxRev \subseteq Nat
    BY BoundsAssumption
  <2>. HIDE DEF rev
  <2>. QED  BY <2>1, <2>2, <2>3
<1>4. /\ \A a \in DOMAIN shown : a \in DOMAIN items /\ shown[a] = items[a]
      /\ Truncated(items, limit) => DOMAIN shown = 1 .. limit
      /\ ~Truncated(items, limit) => DOMAIN shown = DOMAIN items
  BY Pages
<1>5. /\ books[id].revision \in Nat
      /\ \A h \in Hrefs : last[id][h] \in Nat /\ last[id][h] <= books[id].revision
  BY Revisions
<1>6. \A h \in Hrefs :
        /\ (\A a \in DOMAIN shown : shown[a].href # h) => new[h] = k[h]
        /\ \A a \in DOMAIN shown :
             shown[a].href = h /\ (\A b \in DOMAIN shown : b > a => shown[b].href # h) =>
                new[h] = IF shown[a].deleted THEN NoRow ELSE shown[a].etag
  <2>1. shown = Shown(items, limit) /\ new = Apply(k, Collapsed(shown))
    OBVIOUS
  <2>. HIDE DEF shown, new
  <2>2. \A h \in Hrefs : Applied(new, k, shown, h)
    BY <2>1, AppliedPage
  <2>. QED  BY <2>2 DEF Applied
<1>. HIDE DEF rev, new, shown
<1>7. rev <= books[id].revision
  <2>1. \A a \in DOMAIN items : items[a].rev <= books[id].revision
    BY <1>1, <1>2, <1>5
  <2>. QED  BY <1>1, <1>3, <2>1
<1>8. ASSUME NEW h \in Hrefs, cards[id][h] # NoRow, last[id][h] <= rev PROVE new[h] = cards[id][h].etag
  <2>1. CASE last[id][h] <= from
    <3>1. \A a \in DOMAIN shown : shown[a].href # h
      <4>. SUFFICES ASSUME NEW a \in DOMAIN items, items[a].href = h PROVE FALSE
        BY <1>4
      <4>. QED  BY <1>1, <1>2, <1>5, <2>1
    <3>. QED  BY <1>6, <1>8, <2>1, <3>1
  <2>2. CASE from < last[id][h]
    <3>1. last[id][h] <= head \/ \E a \in DOMAIN items : last[id][h] <= items[a].rev
      BY <1>3, <1>8
    <3>2. PICK a \in DOMAIN items : items[a] = UpsertOf(id, h)
      BY <1>1, <1>8, <2>2, <3>1
    <3>3. items[a].rev = last[id][h] /\ items[a].href = h /\ ~items[a].deleted /\ items[a].etag = cards[id][h].etag
      BY <3>2 DEF UpsertOf
    <3>4. a \in DOMAIN shown
      <4>1. CASE ~Truncated(items, limit)
        BY <1>4, <4>1
      <4>2. CASE Truncated(items, limit)
        <5>1. ~(limit < a)
          BY <1>1, <1>2, <1>3, <1>5, <1>8, <3>3, <4>2
        <5>2. a \in 1 .. limit
          BY <1>2, <4>2, <5>1, ItemTypes
        <5>. QED  BY <1>4, <4>2, <5>2
      <4>. QED  BY <4>1, <4>2
    <3>5. \A b \in DOMAIN shown : b > a => shown[b].href # h
      <4>. SUFFICES ASSUME NEW b \in DOMAIN items, b > a, items[b].href = h PROVE FALSE
        BY <1>4
      <4>1. items[a].rev < items[b].rev /\ items[b].rev <= last[id][h]
        BY <1>1, <1>2
      <4>. QED  BY <1>2, <1>5, <3>3, <4>1
    <3>. QED  BY <1>4, <1>6, <3>3, <3>4, <3>5
  <2>. QED  BY <1>5, <2>1, <2>2
<1>. QED  BY <1>7, <1>8

LEMMA RecordedRows ==
  ASSUME JournalInv, Recorded, NEW id \in Live, NEW h \in Hrefs, cards[id][h] # NoRow
  PROVE  /\ last[id][h] > 0
         /\ \E c \in changes : /\ c.book = id /\ c.href = h /\ c.rev = last[id][h]
                               /\ ~c.deleted /\ c.etag = cards[id][h].etag
<1>1. PICK c \in changes : c.book = id /\ c.href = h /\ c.rev = last[id][h]
  BY DEF Recorded
<1>2. c.rev > 0
  BY Revisions
<1>3. c \in LiveChanges
  BY <1>1 DEF LiveChanges, Live
<1>4. ~c.deleted /\ cards[id][h].etag = c.etag
  BY <1>1, <1>3 DEF JournalInv, JournalAgrees
<1>. QED  BY <1>1, <1>2, <1>4

\* What the next page of an initial sync or of a delta is cut from covers the book.
LEMMA CurrentCovers ==
  ASSUME StoreOK, Recorded, NEW id \in BookIds, NEW head \in 0 .. MaxRev, id \in Live => head <= books[id].revision
  PROVE  Covers(id, 0, head, ListCurrentCardSyncStates(id))
<1> DEFINE list == ListCurrentCardSyncStates(id)
<1>1. /\ list \in Seq(Item) /\ Rising(list)
      /\ \A a \in DOMAIN list : \E h \in CardsOf(id) : list[a] = StateRow(id, h)
      /\ \A h \in CardsOf(id) : \E a \in DOMAIN list : list[a] = StateRow(id, h)
      /\ \A a, b \in DOMAIN list : list[a].href = list[b].href => a = b
  BY CurrentListing
<1>2. JournalInv /\ TypeOK /\ NoOrphans
  BY DEF StoreOK, JournalInv
<1>. HIDE DEF list
<1>3. CASE id \notin Live
  <2>1. \A h \in Hrefs : cards[id][h] = NoRow
    BY <1>2, <1>3 DEF NoOrphans
  <2>2. DOMAIN list = {}
    BY <1>1, <2>1 DEF CardsOf
  <2>3. Covers(id, 0, head, list)
    BY <1>3, <2>2 DEF Covers
  <2>. QED  BY <2>3 DEF list
<1>4. CASE id \in Live
  <2>1. ASSUME NEW h \in CardsOf(id)
        PROVE  StateRow(id, h) = UpsertOf(id, h) /\ last[id][h] > 0 /\ last[id][h] \in Nat /\ h \in Hrefs
    <3>1. h \in Hrefs /\ cards[id][h] # NoRow
      BY DEF CardsOf
    <3>2. PICK c \in changes : c.book = id /\ c.href = h /\ c.rev = last[id][h] /\ last[id][h] > 0
      BY <1>2, <1>4, <3>1, RecordedRows
    <3>3. \A d \in changes : d.book = id /\ d.href = h => d.rev <= last[id][h]
      BY <1>2, <1>4 DEF JournalInv, JournalAgrees, LiveChanges, Live
    <3>4. RetainedRev(id, h) \in Nat /\ last[id][h] \in Nat
      BY <1>2, <1>4, <3>1, Retained, Revisions, BoundsAssumption
    <3>5. /\ last[id][h] <= RetainedRev(id, h)
          /\ RetainedRev(id, h) = 0 \/ RetainedRev(id, h) <= last[id][h]
      BY <1>2, <3>1, <3>2, <3>3, Retained
    <3>6. RetainedRev(id, h) = last[id][h]
      BY <3>2, <3>4, <3>5
    <3>. QED  BY <3>1, <3>2, <3>4, <3>6 DEF StateRow, UpsertOf
  <2>2. \A a \in DOMAIN list : /\ list[a].href \in CardsOf(id) /\ list[a] = UpsertOf(id, list[a].href)
                              /\ list[a].rev = last[id][list[a].href]
    <3>. SUFFICES ASSUME NEW a \in DOMAIN list
                  PROVE  /\ list[a].href \in CardsOf(id) /\ list[a] = UpsertOf(id, list[a].href)
                         /\ list[a].rev = last[id][list[a].href]
      OBVIOUS
    <3>1. PICK h \in CardsOf(id) : list[a] = UpsertOf(id, h)
      BY <1>1, <2>1
    <3>2. list[a].href = h /\ list[a].rev = last[id][h]
      BY <3>1 DEF UpsertOf
    <3>. QED  BY <3>1, <3>2
  <2>3. \A a, b \in DOMAIN list : a < b => list[a].rev < list[b].rev
    <3>. SUFFICES ASSUME NEW a \in DOMAIN list, NEW b \in DOMAIN list, a < b PROVE list[a].rev < list[b].rev
      OBVIOUS
    <3>1. list[a].rev <= list[b].rev /\ a # b /\ list[a].href # list[b].href
      BY <1>1, ItemTypes DEF Rising
    <3>2. list[a].rev # list[b].rev
      <4>1. /\ list[a].href \in Hrefs /\ cards[id][list[a].href] # NoRow /\ list[a].rev = last[id][list[a].href]
            /\ list[b].href \in Hrefs /\ cards[id][list[b].href] # NoRow /\ list[b].rev = last[id][list[b].href]
        BY <2>2 DEF CardsOf
      <4>2. PICK c \in changes : c.book = id /\ c.href = list[a].href /\ c.rev = list[a].rev
        BY <1>2, <1>4, <4>1, RecordedRows
      <4>3. PICK d \in changes : d.book = id /\ d.href = list[b].href /\ d.rev = list[b].rev
        BY <1>2, <1>4, <4>1, RecordedRows
      <4>4. c \in LiveChanges /\ d \in LiveChanges /\ c # d
        BY <1>4, <3>1, <4>2, <4>3 DEF LiveChanges, Live
      <4>. QED  BY <1>2, <4>2, <4>3, <4>4 DEF JournalInv, JournalAgrees
    <3>. QED  BY <1>1, <3>1, <3>2, ItemTypes
  <2>4. \A a \in DOMAIN list : list[a].rev > 0 /\ list[a].rev <= last[id][list[a].href]
    BY <2>1, <2>2
  <2>5. \A h \in Hrefs : cards[id][h] # NoRow => \E a \in DOMAIN list : list[a] = UpsertOf(id, h)
    BY <1>1, <2>1 DEF CardsOf
  <2>6. Covers(id, 0, head, list)
    BY <1>4, <2>3, <2>4, <2>5 DEF Covers
  <2>. QED  BY <2>6 DEF list
<1>. QED  BY <1>3, <1>4

LEMMA ChangesCover ==
  ASSUME StoreOK, Recorded, NEW id \in BookIds, NEW from \in Nat, NEW head \in 0 .. MaxRev,
         id \in Live => head <= books[id].revision
  PROVE  Covers(id, from, head, ListCardChangesSince(id, from))
<1> DEFINE list == ListCardChangesSince(id, from)
<1>1. /\ list \in Seq(Item)
      /\ \A a, b \in DOMAIN list : a < b => list[a].rev < list[b].rev
      /\ \A a \in DOMAIN list : \E c \in Later(id, from) : list[a] = ChangeRow(c)
      /\ \A c \in Later(id, from) : \E a \in DOMAIN list : list[a] = ChangeRow(c)
  BY ChangeListing
<1>2. JournalInv
  BY DEF StoreOK
<1>. HIDE DEF list
<1>3. \A c \in Later(id, from) : /\ c \in changes /\ c.book = id /\ c.rev > from
                                 /\ ChangeRow(c).rev = c.rev /\ ChangeRow(c).href = c.href
  BY DEF Later, ChangeRow
<1>4. \A a \in DOMAIN list : list[a].rev > from
  BY <1>1, <1>3
<1>5. ASSUME id \in Live
      PROVE  /\ \A a \in DOMAIN list : list[a].rev <= last[id][list[a].href]
             /\ \A h \in Hrefs : cards[id][h] # NoRow /\ from < last[id][h] =>
                   \E a \in DOMAIN list : list[a] = UpsertOf(id, h)
  <2>1. \A c \in Later(id, from) : c.rev <= last[id][c.href]
    BY <1>2, <1>3, <1>5 DEF JournalInv, JournalAgrees, LiveChanges, Live
  <2>2. \A a \in DOMAIN list : list[a].rev <= last[id][list[a].href]
    BY <1>1, <1>3, <2>1
  <2>3. ASSUME NEW h \in Hrefs, cards[id][h] # NoRow, from < last[id][h]
        PROVE  \E a \in DOMAIN list : list[a] = UpsertOf(id, h)
    <3>1. PICK c \in changes : /\ c.book = id /\ c.href = h /\ c.rev = last[id][h]
                               /\ ~c.deleted /\ c.etag = cards[id][h].etag
      BY <1>2, <1>5, <2>3, RecordedRows
    <3>2. c \in Later(id, from) /\ c.rev \in Nat
      BY <1>2, <2>3, <3>1, Revisions DEF Later
    <3>3. c.deleted = FALSE
      <4>1. c.deleted \in BOOLEAN
        BY <1>2 DEF JournalInv, TypeOK, Change
      <4>. QED  BY <3>1, <4>1
    <3>4. ChangeRow(c) = UpsertOf(id, h)
      BY <3>1, <3>3 DEF ChangeRow, UpsertOf
    <3>. QED  BY <1>1, <3>2, <3>4
  <2>. QED  BY <2>2, <2>3
<1>6. Covers(id, from, head, list)
  BY <1>1, <1>4, <1>5 DEF Covers
<1>. QED  BY <1>6 DEF list

\* Without pruning the journal keeps the last change of every card.
LEMMA RecordedKept ==
  ASSUME StoreOK, Recorded, WorldStep, Keep = 0, Retention = 0
  PROVE  Recorded'
<1>1. TypeOK /\ NoOrphans
  BY DEF StoreOK, JournalInv
<1>. SUFFICES ASSUME NEW o \in Live', NEW g \in Hrefs, cards'[o][g] # NoRow
              PROVE  \E d \in changes' : d.book = o /\ d.href = g /\ d.rev = last'[o][g]
  BY DEF Recorded
<1>2. ASSUME o \in Live, cards'[o][g] = cards[o][g], last'[o][g] = last[o][g],
             \A d \in changes : d.book = o => d \in changes'
      PROVE  \E d \in changes' : d.book = o /\ d.href = g /\ d.rev = last'[o][g]
  BY <1>2 DEF Recorded
<1>3. CASE WriteCard
  <2>1. PICK id \in BookIds, h \in Hrefs : \E c : Wrote(id, h, c)
    BY <1>1, <1>3, OneWrite
  <2>2. PICK c : Wrote(id, h, c)
    BY <2>1
  <2>3. CASE o = id /\ g = h
    <3>1. c \in changes' /\ c.book = o /\ c.href = g /\ c.rev = last'[o][g]
      BY <2>2, <2>3 DEF Wrote
    <3>. QED  BY <3>1
  <2>4. CASE ~(o = id /\ g = h)
    <3>1. o \in Live /\ o \in BookIds /\ cards'[o][g] = cards[o][g] /\ last'[o][g] = last[o][g]
      BY <2>2, <2>4 DEF Wrote, Live
    <3>2. \A d \in changes : d \in changes'
      BY <2>2 DEF Wrote
    <3>. QED  BY <1>2, <3>1, <3>2
  <2>. QED  BY <2>3, <2>4
<1>4. CASE RemoveCollection
  <2>1. RemoveBooks(AddressbookOf(Username, Slug), TRUE) /\ last' = last /\ o \in BookIds
    BY <1>4 DEF RemoveCollection, DeleteAddressbook, Live
  <2>2. o \notin AddressbookOf(Username, Slug) /\ o \in Live
    BY <2>1 DEF RemoveBooks, Live
  <2>. QED  BY <1>2, <2>1, <2>2 DEF RemoveBooks
<1>5. CASE MakeCollection
  <2>1. PICK u \in UserIds, n \in Names : CreateAddressbook(u, Slug, n, TRUE)
    BY <1>5 DEF MakeCollection
  <2>2. cards' = cards /\ last' = last /\ changes' = changes
    BY <1>1, <2>1 DEF CreateAddressbook, TypeOK
  <2>3. o \in Live
    BY <1>1, <2>2 DEF NoOrphans, Live
  <2>. QED  BY <1>2, <2>2, <2>3
<1>6. CASE TimePasses
  BY <1>2, <1>6 DEF TimePasses, Tick, Live
<1>7. ~PruneByAge /\ ~PruneByRevisions
  BY DEF PruneByAge, PruneByRevisions, PruneCardChangesByMaxRevisions
<1>. QED  BY <1>3, <1>4, <1>5, <1>6, <1>7 DEF WorldStep

LEMMA RevisionsTyped ==
  JournalInv => /\ \A o \in Live : books[o].revision \in Nat
                /\ seq.books \in Nat
  BY Revisions

LEMMA KnownGrows ==
  ASSUME StoreOK, StoreOK', WorldStep, NEW id \in BookIds, NEW rev \in Nat, KnownBook(id, rev)
  PROVE  KnownBook(id, rev)' /\ (id \in Live' => Grows(id))
<1>1. /\ seq.books <= seq'.books
      /\ id <= seq.books /\ id \in Live' => Grows(id)
  BY WorldGrows
<1>2. seq.books \in Nat /\ id \in Nat /\ (id \in Live => books[id].revision \in Nat)
  BY Revisions, BoundsAssumption DEF StoreOK, BookIds
<1>4. (JournalInv => /\ \A o \in Live : books[o].revision \in Nat
                     /\ seq.books \in Nat)'
  BY RevisionsTyped, PTL
<1>5. seq'.books \in Nat /\ (id \in Live' => books'[id].revision \in Nat)
  BY <1>4 DEF StoreOK
<1>6. id <= seq'.books /\ (id \in Live' => Grows(id))
  BY <1>1, <1>2, <1>5 DEF KnownBook
<1>7. ASSUME id \in Live' PROVE rev <= books'[id].revision
  <2>1. id \in Live /\ books[id].revision <= books'[id].revision
    BY <1>6, <1>7 DEF Grows
  <2>. QED  BY <1>2, <1>5, <1>7, <2>1 DEF KnownBook
<1>. QED  BY <1>6, <1>7 DEF KnownBook

\* A client that has the cards its token covers has them whatever is written.
LEMMA UpsertsGrow ==
  ASSUME StoreOK, StoreOK', NEW id \in BookIds, NEW rev \in Nat, NEW k, KnownBook(id, rev),
         id \in Live' => Grows(id),
         id \in Live => \A h \in Hrefs : cards[id][h] # NoRow /\ last[id][h] <= rev => k[h] = cards[id][h].etag,
         id \in Live', NEW h \in Hrefs, cards'[id][h] # NoRow, last'[id][h] <= rev
  PROVE  k[h] = cards'[id][h].etag
<1>1. id \in Live /\ ((cards'[id][h] = cards[id][h] /\ last'[id][h] = last[id][h]) \/ last'[id][h] > books[id].revision)
  BY DEF Grows
<1>2. books[id].revision \in Nat /\ rev <= books[id].revision
  BY <1>1, Revisions DEF StoreOK, KnownBook
<1>3. last'[id][h] \in Nat
  <2>1. last'[id][h] \in 0 .. MaxRev
    BY DEF StoreOK, JournalInv, TypeOK
  <2>. QED  BY <2>1, BoundsAssumption
<1>. QED  BY <1>1, <1>2, <1>3

LEMMA WorldKeepsUpserts ==
  ASSUME UpsertInv, SyncInv', WorldStep, Keep = 0, Retention = 0
  PROVE  UpsertInv'
<1>1. StoreOK /\ StoreOK' /\ JournalInv /\ JournalInv' /\ CursorsOK(page) /\ ClientsOK /\ Recorded /\ Recorded'
  BY RecordedKept DEF UpsertInv, SyncInv, StoreOK
<1>2. UNCHANGED syncVars /\ page' = page /\ token' = token /\ copy' = copy /\ req' = req
  BY <1>1, WorldIsStore DEF StoreOK, JournalInv, syncVars
<1>3. ASSUME NEW i \in DOMAIN page PROVE CursorCovers(page[i])'
  <2>1. PICK id \in BookIds, rev \in Nat, head \in Nat, items \in Seq(Item) :
           id = page[i].id /\ rev = page[i].rev /\ head = page[i].head /\ items = page[i].items
    BY <1>1, CursorsTyped, BoundsAssumption
  <2>2. KnownBook(id, rev) /\ Covers(id, rev, head, items)
    BY <2>1 DEF UpsertInv, CursorsCover, CursorCovers
  <2>3. KnownBook(id, rev)' /\ (id \in Live' => Grows(id))
    BY <1>1, <2>2, KnownGrows
  <2>4. Covers(id, rev, head, items)'
    BY <1>1, <2>2, <2>3, CoversGrows
  <2>5. id = page'[i].id /\ rev = page'[i].rev /\ head = page'[i].head /\ items = page'[i].items
    BY <1>2, <2>1
  <2>. QED  BY <2>3, <2>4, <2>5 DEF CursorCovers, KnownBook, Covers, UpsertOf, Live
<1>4. ASSUME NEW c \in Clients PROVE ClientCovers(req[c], token[c], copy[c])'
  <2>1. ClientCovers(req[c], token[c], copy[c]) /\ token[c] \in Tokens /\ Fits(req[c], token[c])
        /\ req[c].head \in Nat /\ req[c].items \in Seq(Item)
    BY <1>1, RequestTyped, BoundsAssumption DEF UpsertInv, ClientsCover
  <2>2. ASSUME token[c] # NoRow
        PROVE  /\ token[c].id \in BookIds /\ token[c].rev \in Nat /\ KnownBook(token[c].id, token[c].rev)
    <3>1. token[c] \in Token
      BY <2>1, <2>2 DEF Tokens
    <3>. QED  BY <2>1, <2>2, <3>1, BoundsAssumption DEF Token, ClientCovers
  <2>3. token[c] # NoRow => KnownBook(token[c].id, token[c].rev)'
    <3>. SUFFICES ASSUME token[c] # NoRow PROVE KnownBook(token[c].id, token[c].rev)'
      OBVIOUS
    <3>1. PICK id \in BookIds, rev \in Nat : id = token[c].id /\ rev = token[c].rev
      BY <2>2
    <3>2. KnownBook(id, rev)'
      BY <1>1, <2>2, <3>1, KnownGrows
    <3>3. id = token'[c].id /\ rev = token'[c].rev
      BY <1>2, <3>1
    <3>. QED  BY <3>2, <3>3 DEF KnownBook, Live
  <2>4. req[c].pc # "idle" => KnownBook(req[c].id, req[c].head)'
    <3>. SUFFICES ASSUME req[c].pc # "idle" PROVE KnownBook(req[c].id, req[c].head)'
      OBVIOUS
    <3>1. PICK id \in BookIds, rev \in Nat : id = req[c].id /\ rev = req[c].head
      BY <2>1 DEF Fits
    <3>2. KnownBook(id, rev)'
      BY <1>1, <2>1, <3>1, KnownGrows DEF ClientCovers
    <3>3. id = req'[c].id /\ rev = req'[c].head
      BY <1>2, <3>1
    <3>. QED  BY <3>2, <3>3 DEF KnownBook, Live
  <2>5. req[c].pc = "build" => Covers(req[c].id, Since(token[c]), req[c].head, req[c].items)'
    <3>. SUFFICES ASSUME req[c].pc = "build" PROVE Covers(req[c].id, Since(token[c]), req[c].head, req[c].items)'
      OBVIOUS
    <3>1. PICK id \in BookIds, rev \in Nat, head \in Nat, items \in Seq(Item) :
            id = req[c].id /\ rev = Since(token[c]) /\ head = req[c].head /\ items = req[c].items
      BY <2>1, <2>2 DEF Fits, Since
    <3>2. Covers(id, rev, head, items) /\ KnownBook(id, head)
      BY <2>1, <3>1 DEF ClientCovers
    <3>3. Covers(id, rev, head, items)'
      BY <1>1, <3>2, KnownGrows, CoversGrows
    <3>4. id = req'[c].id /\ rev = Since(token'[c]) /\ head = req'[c].head /\ items = req'[c].items
      BY <1>2, <3>1
    <3>. QED  BY <3>3, <3>4 DEF Covers, UpsertOf, Live, Since
  <2>6. HasUpserts(token[c], copy[c])'
    <3>. SUFFICES ASSUME token[c] # NoRow, token[c].id \in Live', NEW h \in Hrefs,
                         cards'[token[c].id][h] # NoRow, last'[token[c].id][h] <= token[c].rev
                  PROVE  copy[c][h] = cards'[token[c].id][h].etag
      BY <1>2 DEF HasUpserts
    <3>1. PICK id \in BookIds, rev \in Nat : id = token[c].id /\ rev = token[c].rev
      BY <2>2
    <3>2. KnownBook(id, rev)
      BY <2>2, <3>1
    <3>3. id \in Live => \A g \in Hrefs : cards[id][g] # NoRow /\ last[id][g] <= rev => copy[c][g] = cards[id][g].etag
      BY <2>1, <3>1 DEF ClientCovers, HasUpserts
    <3>4. id \in Live' => Grows(id)
      BY <1>1, <3>2, KnownGrows
    <3>5. id \in Live' /\ cards'[id][h] # NoRow /\ last'[id][h] <= rev
      BY <3>1
    <3>6. copy[c][h] = cards'[id][h].etag
      BY <1>1, <3>2, <3>3, <3>4, <3>5, UpsertsGrow
    <3>. QED  BY <3>1, <3>6
  <2>. QED  BY <1>2, <2>3, <2>4, <2>5, <2>6 DEF ClientCovers
<1>. QED  BY <1>1, <1>2, <1>3, <1>4 DEF UpsertInv, CursorsCover, ClientsCover

-----------------------------------------------------------------------------
(* The requests' steps keep what the clients have *)

\* A step of one client, which reads the collection and does not change it.
LEMMA MoveCovers ==
  ASSUME ClientsOK, ClientsCover(req, token, copy), NEW c \in Clients, NEW r, NEW t, NEW k, ClientCovers(r, t, k),
         req' = [req EXCEPT ![c] = r], token' = [token EXCEPT ![c] = t], copy' = [copy EXCEPT ![c] = k]
  PROVE  ClientsCover(req', token', copy')
<1>1. /\ req'[c] = r /\ token'[c] = t /\ copy'[c] = k
      /\ \A d \in Clients \ {c} : req'[d] = req[d] /\ token'[d] = token[d] /\ copy'[d] = copy[d]
  BY DEF ClientsOK
<1>2. ASSUME NEW d \in Clients PROVE ClientCovers(req'[d], token'[d], copy'[d])
  <2>1. CASE d = c
    BY <1>1, <2>1
  <2>2. CASE d # c
    BY <1>1, <2>2 DEF ClientsCover
  <2>. QED  BY <2>1, <2>2
<1>. QED  BY <1>2 DEF ClientsCover

LEMMA IdleCovers ==
  ASSUME NEW t, NEW k, t # NoRow => KnownBook(t.id, t.rev), HasUpserts(t, k)
  PROVE  ClientCovers(Idle, t, k)
  BY IdleFits DEF ClientCovers

LEMMA StartedOverCovers ==
  ASSUME ClientsOK, ClientsCover(req, token, copy), NEW c \in Clients, StartOver(c)
  PROVE  ClientsCover(req', token', copy')
<1>1. ClientCovers(Idle, NoRow, Nothing)
  BY IdleCovers DEF HasUpserts
<1>. QED  BY <1>1, MoveCovers DEF StartOver

\* An answer whose items cover what came after the client's token leaves the client
\* with every card that its new token covers.
LEMMA AnswerCovers ==
  ASSUME StoreOK, Recorded, ClientsOK, ClientsCover(req, token, copy), NEW c \in Clients,
         NEW id \in BookIds, NEW head \in 0 .. MaxRev, NEW items \in Seq(Item), NEW limit \in Nat,
         NEW arrives, Respond(c, id, head, items, limit, arrives),
         token[c] # NoRow => id = token[c].id, id <= seq.books, Covers(id, Since(token[c]), head, items)
  PROVE  /\ ClientsCover(req', token', copy')
         /\ id \in Live => PageTokenRevision(head, items, limit) <= books[id].revision
<1> DEFINE from == Since(token[c])
           rev == PageTokenRevision(head, items, limit)
           t == [id |-> id, rev |-> rev]
           k == Apply(copy[c], Collapsed(Shown(items, limit)))
<1>1. ClientCovers(req[c], token[c], copy[c]) /\ token[c] \in Tokens /\ JournalInv
  BY DEF ClientsCover, ClientsOK, StoreOK
<1>2. from \in Nat
  <2>1. token[c] # NoRow => token[c].rev \in Nat
    BY <1>1, BoundsAssumption DEF Tokens, Token
  <2>. QED  BY <2>1 DEF Since
<1>3. id \in Live => from <= books[id].revision
  BY <1>1, Revisions DEF Since, ClientCovers, KnownBook
<1>4. id \in Live => \A h \in Hrefs : cards[id][h] # NoRow /\ last[id][h] <= from => copy[c][h] = cards[id][h].etag
  <2>. SUFFICES ASSUME id \in Live, NEW h \in Hrefs, cards[id][h] # NoRow, last[id][h] <= from
                PROVE  copy[c][h] = cards[id][h].etag
    OBVIOUS
  <2>1. CASE token[c] = NoRow
    <3>1. last[id][h] > 0 /\ last[id][h] \in Nat /\ from = 0
      BY <1>1, <2>1, RecordedRows, Revisions DEF Since, Live
    <3>. QED  BY <3>1
  <2>2. CASE token[c] # NoRow
    BY <1>1, <2>2 DEF ClientCovers, HasUpserts, Since
  <2>. QED  BY <2>1, <2>2
<1>. HIDE DEF from
<1>5. HasUpserts(t, k) /\ (id \in Live => rev <= books[id].revision)
  <2>1. Covers(id, from, head, items)
    BY DEF from
  <2>2. LET s == [id |-> id, rev |-> PageTokenRevision(head, items, limit)] IN
         /\ HasUpserts(s, Apply(copy[c], Collapsed(Shown(items, limit))))
         /\ id \in Live => s.rev <= books[id].revision
    BY <1>1, <1>2, <1>3, <1>4, <2>1, UpsertsAnswered
  <2>. QED  BY <2>2
<1>6. req' = [req EXCEPT ![c] = Idle]
  BY DEF Respond
<1>7. CASE arrives
  <2>1. token' = [token EXCEPT ![c] = t] /\ copy' = [copy EXCEPT ![c] = k]
    BY <1>7 DEF Respond
  <2>2. KnownBook(t.id, t.rev)
    BY <1>5 DEF KnownBook
  <2>. HIDE DEF t, k
  <2>3. ClientCovers(Idle, t, k)
    BY <1>5, <2>2, IdleCovers
  <2>. QED  BY <1>5, <1>6, <2>1, <2>3, MoveCovers
<1>8. CASE ~arrives
  <2>1. token' = [token EXCEPT ![c] = token[c]] /\ copy' = [copy EXCEPT ![c] = copy[c]]
    BY <1>8 DEF Respond, ClientsOK
  <2>2. ClientCovers(Idle, token[c], copy[c])
    BY <1>1, IdleCovers DEF ClientCovers
  <2>. QED  BY <1>5, <1>6, <2>1, <2>2, MoveCovers
<1>. QED  BY <1>7, <1>8

LEMMA CutCovers ==
  ASSUME JournalInv, NEW p, CacheOK(p), CursorsCover(p), NEW id \in BookIds, NEW head \in 0 .. MaxRev,
         NEW items \in Seq(Item), NEW limit \in Nat, NEW from \in Nat, Covers(id, from, head, items),
         id <= seq.books, id \in Live => PageTokenRevision(head, items, limit) <= books[id].revision
  PROVE  CursorsCover(CacheAfter(p, id, head, items, limit))
<1> DEFINE q == CacheAfter(p, id, head, items, limit)
           cur == Rest(id, head, items, limit)
<1>1. \A a \in DOMAIN q : (Truncated(items, limit) /\ q[a] = cur) \/ \E b \in DOMAIN p : q[a] = p[b]
  BY CacheAfterOK
<1>2. ASSUME Truncated(items, limit) PROVE CursorCovers(cur)
  <2>1. Covers(id, PageTokenRevision(head, items, limit), head, Remaining(items, limit))
    BY <1>2, CoversRest
  <2>2. KnownBook(id, PageTokenRevision(head, items, limit))
    BY DEF KnownBook
  <2>. QED  BY <2>1, <2>2 DEF CursorCovers, Rest
<1>. HIDE DEF q, cur
<1>3. CursorsCover(q)
  BY <1>1, <1>2 DEF CursorsCover
<1>. QED  BY <1>3 DEF q

LEMMA ReadBookCovers ==
  ASSUME StoreOK, ClientsOK, ClientsCover(req, token, copy), NEW c \in Clients, NEW limit \in Limits,
         ReadBook(c, limit)
  PROVE  ClientsCover(req', token', copy')
<1>1. CASE StartOver(c)
  BY <1>1, StartedOverCovers
<1>2. CASE ~StartOver(c) /\ ~UNCHANGED <<req, token, copy>>
  <2>1. PICK id \in AddressbookOf(Username, Slug) :
          /\ ~WrongBook(c, id)
          /\ req' = [req EXCEPT ![c] =
                  [pc |-> IF token[c] = NoRow \/ limit = 0 THEN "list" ELSE "cursor",
                   id |-> id, head |-> books[id].revision, limit |-> limit,
                   started |-> clock, items |-> <<>>]]
          /\ UNCHANGED <<token, copy>>
    BY <1>2 DEF ReadBook
  <2> DEFINE r == [pc |-> IF token[c] = NoRow \/ limit = 0 THEN "list" ELSE "cursor",
                   id |-> id, head |-> books[id].revision, limit |-> limit,
                   started |-> clock, items |-> <<>>]
  <2>2. id \in Live /\ id \in BookIds /\ JournalInv /\ id \in Nat
    BY BoundsAssumption DEF AddressbookOf, Live, StoreOK, BookIds
  <2>3. KnownBook(id, books[id].revision)
    BY <2>2, Revisions DEF KnownBook, JournalInv, UnusedIdsAreBlank, Live
  <2>4. r.pc # "build" /\ r.id = id /\ r.head = books[id].revision
    OBVIOUS
  <2>5. token' = [token EXCEPT ![c] = token[c]] /\ copy' = [copy EXCEPT ![c] = copy[c]]
        /\ req' = [req EXCEPT ![c] = r]
    BY <2>1 DEF ClientsOK
  <2>. HIDE DEF r
  <2>6. ClientCovers(r, token[c], copy[c])
    BY <2>3, <2>4 DEF ClientCovers, ClientsCover
  <2>. QED  BY <2>5, <2>6, MoveCovers
<1>3. CASE UNCHANGED <<req, token, copy>>
  BY <1>3
<1>. QED  BY <1>1, <1>2, <1>3

LEMMA CursorHitCovers ==
  ASSUME UpsertInv, NEW c \in Clients, NEW arrives, CursorHit(c, arrives)
  PROVE  CursorsCover(page') /\ ClientsCover(req', token', copy')
<1>1. PICK i \in CursorsAt(page, token[c]) :
        /\ page' = CacheAfter(Without(page, token[c]), page[i].id, page[i].head, page[i].items, req[c].limit)
        /\ Respond(c, page[i].id, page[i].head, page[i].items, req[c].limit, arrives)
  BY DEF CursorHit
<1>2. StoreOK /\ JournalInv /\ CursorsOK(page) /\ ClientsOK /\ Recorded /\ CursorsCover(page) /\ ClientsCover(req, token, copy)
  BY DEF UpsertInv, SyncInv, StoreOK
<1>3. /\ page[i].id \in BookIds /\ page[i].rev \in Nat /\ page[i].head \in 0 .. MaxRev /\ page[i].items \in Seq(Item)
      /\ req[c].limit \in Nat /\ i \in DOMAIN page
  BY <1>2, CursorsTyped, RequestTyped, BoundsAssumption DEF CursorsAt
<1>4. token[c] # NoRow /\ token[c].id = page[i].id /\ Since(token[c]) = page[i].rev
  <2>1. token[c] = [id |-> page[i].id, rev |-> page[i].rev] /\ token[c] # NoRow
    BY <1>2, RequestTyped DEF CursorsAt, Key, CursorHit, Fits
  <2>. QED  BY <2>1 DEF Since
<1>5. page[i].id <= seq.books /\ Covers(page[i].id, page[i].rev, page[i].head, page[i].items)
  BY <1>2, <1>3 DEF CursorsCover, CursorCovers, KnownBook
<1>6. /\ ClientsCover(req', token', copy')
      /\ page[i].id \in Live => PageTokenRevision(page[i].head, page[i].items, req[c].limit) <= books[page[i].id].revision
  BY <1>1, <1>2, <1>3, <1>4, <1>5, AnswerCovers
<1>7. CacheOK(Without(page, token[c])) /\ CursorsCover(Without(page, token[c]))
  <2>1. Without(page, token[c]) \in Seq(Cursor) /\ Part(Without(page, token[c]), page)
    BY <1>2, WithoutIsPart DEF CursorsOK, CacheOK
  <2>. QED  BY <1>2, <2>1, PartOK, PartElements DEF CursorsCover, CursorsOK
<1>8. CursorsCover(page')
  BY <1>1, <1>2, <1>3, <1>5, <1>6, <1>7, CutCovers
<1>. QED  BY <1>6, <1>8

LEMMA BuildCovers ==
  ASSUME UpsertInv, NEW c \in Clients, NEW arrives, Build(c, arrives)
  PROVE  CursorsCover(page') /\ ClientsCover(req', token', copy')
<1>1. StoreOK /\ JournalInv /\ CursorsOK(page) /\ ClientsOK /\ Recorded /\ CursorsCover(page) /\ ClientsCover(req, token, copy)
  BY DEF UpsertInv, SyncInv, StoreOK
<1>2. /\ req[c].id \in BookIds /\ req[c].head \in 0 .. MaxRev /\ req[c].items \in Seq(Item)
      /\ req[c].limit \in Nat /\ req[c].pc = "build" /\ (token[c] # NoRow => req[c].id = token[c].id)
      /\ token[c] \in Tokens
  BY <1>1, RequestTyped DEF Build, Fits
<1>3. req[c].id <= seq.books /\ Covers(req[c].id, Since(token[c]), req[c].head, req[c].items)
  BY <1>1, <1>2 DEF ClientsCover, ClientCovers, KnownBook
<1>4. Since(token[c]) \in Nat
  BY <1>2, BoundsAssumption DEF Tokens, Token, Since
<1>5. /\ ClientsCover(req', token', copy')
      /\ req[c].id \in Live => PageTokenRevision(req[c].head, req[c].items, req[c].limit) <= books[req[c].id].revision
  BY <1>1, <1>2, <1>3, AnswerCovers DEF Build
<1>6. CursorsCover(page')
  BY <1>1, <1>2, <1>3, <1>4, <1>5, CutCovers DEF Build, CursorsOK
<1>. QED  BY <1>5, <1>6

LEMMA ListedCovers ==
  ASSUME ClientsOK, ClientsCover(req, token, copy), NEW c \in Clients, NEW list,
         req[c].pc = "list", Covers(req[c].id, Since(token[c]), req[c].head, list),
         req' = [req EXCEPT ![c].pc = "build", ![c].items = list], UNCHANGED <<token, copy>>
  PROVE  ClientsCover(req', token', copy')
<1> DEFINE r == [[req[c] EXCEPT !.pc = "build"] EXCEPT !.items = list]
<1>1. req \in [Clients -> Requests] /\ req[c] \in Requests /\ ClientCovers(req[c], token[c], copy[c])
  BY DEF ClientsOK, ClientsCover
<1>2. r.pc = "build" /\ r.id = req[c].id /\ r.head = req[c].head /\ r.items = list
  BY <1>1 DEF Requests
<1>3. req' = [req EXCEPT ![c] = r]
  BY <1>1
<1>. HIDE DEF r
<1>4. ClientCovers(r, token[c], copy[c])
  BY <1>1, <1>2 DEF ClientCovers
<1>5. token' = [token EXCEPT ![c] = token[c]] /\ copy' = [copy EXCEPT ![c] = copy[c]]
  BY DEF ClientsOK
<1>6. ClientsOK /\ ClientsCover(req, token, copy) /\ c \in Clients
  OBVIOUS
<1>7. ClientsCover(req', token', copy')
  BY ONLY <1>3, <1>4, <1>5, <1>6, MoveCovers
<1>. QED  BY <1>7

LEMMA ListAllCovers ==
  ASSUME UpsertInv, NEW c \in Clients, ListAll(c)
  PROVE  ClientsCover(req', token', copy')
<1> DEFINE list == ListCurrentCardSyncStates(req[c].id)
<1>1. StoreOK /\ ClientsOK /\ Recorded /\ ClientsCover(req, token, copy)
  BY DEF UpsertInv, SyncInv
<1>2. /\ req[c].id \in BookIds /\ req[c].pc = "list" /\ token[c] = NoRow /\ req[c].head \in 0 .. MaxRev
      /\ req[c].id \in Live => req[c].head <= books[req[c].id].revision
  BY <1>1, RequestTyped DEF ListAll, Fits, ClientsCover, ClientCovers, KnownBook
<1>3. Covers(req[c].id, 0, req[c].head, list)
  BY <1>1, <1>2, CurrentCovers
<1>4. req' = [req EXCEPT ![c].pc = "build", ![c].items = list] /\ UNCHANGED <<token, copy>>
  BY DEF ListAll
<1>. HIDE DEF list
<1>5. Since(token[c]) = 0
  BY <1>2 DEF Since
<1>. QED  BY <1>1, <1>2, <1>3, <1>4, <1>5, ListedCovers

LEMMA ListChangesCovers ==
  ASSUME UpsertInv, NEW c \in Clients, ListChanges(c)
  PROVE  ClientsCover(req', token', copy')
<1> DEFINE list == ListCardChangesSince(req[c].id, token[c].rev)
<1>1. StoreOK /\ ClientsOK /\ Recorded /\ ClientsCover(req, token, copy)
  BY DEF UpsertInv, SyncInv
<1>2. /\ req[c].id \in BookIds /\ req[c].pc = "list" /\ token[c] # NoRow /\ req[c].head \in 0 .. MaxRev
      /\ req[c].id \in Live => req[c].head <= books[req[c].id].revision
      /\ token[c] \in Tokens
  BY <1>1, RequestTyped DEF ListChanges, Fits, ClientsCover, ClientCovers, KnownBook
<1>3. token[c].rev \in Nat /\ Since(token[c]) = token[c].rev
  BY <1>2, BoundsAssumption DEF Tokens, Token, Since
<1>4. Covers(req[c].id, token[c].rev, req[c].head, list)
  BY <1>1, <1>2, <1>3, ChangesCover
<1>5. CASE StartOver(c)
  BY <1>1, <1>5, StartedOverCovers
<1>6. CASE ~StartOver(c)
  <2>1. req' = [req EXCEPT ![c].pc = "build", ![c].items = list] /\ UNCHANGED <<token, copy>>
    BY <1>6 DEF ListChanges
  <2>. HIDE DEF list
  <2>. QED  BY <1>1, <1>2, <1>3, <1>4, <2>1, ListedCovers
<1>. QED  BY <1>5, <1>6

LEMMA CursorMissCovers ==
  ASSUME ClientsOK, ClientsCover(req, token, copy), NEW c \in Clients, CursorMiss(c)
  PROVE  ClientsCover(req', token', copy')
<1> DEFINE r == [req[c] EXCEPT !.pc = "list"]
<1>1. req \in [Clients -> Requests] /\ req[c] \in Requests /\ ClientCovers(req[c], token[c], copy[c])
      /\ req[c].pc = "cursor"
  BY DEF ClientsOK, CursorMiss, ClientsCover
<1>2. r.pc = "list" /\ r.id = req[c].id /\ r.head = req[c].head
  BY <1>1 DEF Requests
<1>3. req' = [req EXCEPT ![c] = r]
  BY <1>1 DEF CursorMiss
<1>. HIDE DEF r
<1>4. ClientCovers(r, token[c], copy[c])
  BY <1>1, <1>2 DEF ClientCovers
<1>5. token' = [token EXCEPT ![c] = token[c]] /\ copy' = [copy EXCEPT ![c] = copy[c]]
  BY DEF ClientsOK, CursorMiss
<1>. QED  BY <1>3, <1>4, <1>5, MoveCovers, Zenon

\* Between two requests' steps the collection is as it was, and so is what covers it.
LEMMA CoversStay ==
  ASSUME UNCHANGED storeVars, CursorsCover(page'), ClientsCover(req', token', copy')
  PROVE  CursorsCover(page)' /\ ClientsCover(req, token, copy)'
  BY DEF storeVars, CursorsCover, ClientsCover, CursorCovers, ClientCovers, KnownBook, Covers, HasUpserts, UpsertOf,
         Live, Since

LEMMA UpsertStep == ASSUME Keep = 0, Retention = 0 PROVE UpsertInv /\ [SyncNext]_vars => UpsertInv'
<1>. SUFFICES ASSUME UpsertInv, [SyncNext]_vars PROVE UpsertInv'
  OBVIOUS
<1>1. /\ StoreOK /\ CursorsOK(page) /\ ClientsOK /\ Recorded /\ CursorsCover(page) /\ ClientsCover(req, token, copy)
      /\ SyncInv'
  BY SyncStep DEF UpsertInv, SyncInv
<1>2. CASE WorldStep
  BY <1>1, <1>2, WorldKeepsUpserts
<1>3. ASSUME UNCHANGED storeVars, CursorsCover(page'), ClientsCover(req', token', copy') PROVE UpsertInv'
  <2>1. Recorded'
    BY <1>1, <1>3 DEF Recorded, storeVars, Live
  <2>. QED  BY <1>1, <1>3, <2>1, CoversStay DEF UpsertInv
<1>4. CASE ExpireCursor
  <2>1. Part(page', page)
    BY <1>1, <1>4, TailIsPart DEF ExpireCursor, CursorsOK, CacheOK
  <2>2. CursorsCover(page')
    BY <1>1, <2>1, PartElements DEF CursorsCover
  <2>. QED  BY <1>1, <1>3, <1>4, <2>2 DEF ExpireCursor
<1>5. CASE \E c \in Clients : RequestStep(c)
  <2>1. PICK c \in Clients : RequestStep(c)
    BY <1>5
  <2>2. UNCHANGED storeVars
    BY <2>1 DEF RequestStep, ReadBook, CursorHit, CursorMiss, ListAll, ListChanges, Build
  <2>3. CASE \E limit \in Limits : ReadBook(c, limit)
    BY <1>1, <1>3, <2>2, <2>3, ReadBookCovers DEF ReadBook
  <2>4. CASE \E arrives \in BOOLEAN : CursorHit(c, arrives)
    BY <1>3, <2>2, <2>4, CursorHitCovers
  <2>5. CASE CursorMiss(c)
    BY <1>1, <1>3, <2>2, <2>5, CursorMissCovers DEF CursorMiss
  <2>6. CASE ListAll(c)
    BY <1>1, <1>3, <2>2, <2>6, ListAllCovers DEF ListAll
  <2>7. CASE ListChanges(c)
    BY <1>1, <1>3, <2>2, <2>7, ListChangesCovers DEF ListChanges
  <2>8. CASE \E arrives \in BOOLEAN : Build(c, arrives)
    BY <1>3, <2>2, <2>8, BuildCovers
  <2>. QED  BY <2>1, <2>3, <2>4, <2>5, <2>6, <2>7, <2>8 DEF RequestStep
<1>6. CASE \E c \in Clients : Restart(c)
  BY <1>1, <1>3, <1>6, StartedOverCovers DEF Restart
<1>7. CASE UNCHANGED vars
  BY <1>1, <1>3, <1>7 DEF vars, syncVars
<1>. QED  BY <1>2, <1>4, <1>5, <1>6, <1>7 DEF SyncNext, SteadyNext

LEMMA UpsertStarts == SyncInit => UpsertInv
<1>. SUFFICES ASSUME SyncInit PROVE UpsertInv
  OBVIOUS
<1>1. Recorded
  BY DEF SyncInit, Recorded, Nothing, Live
<1>2. CursorsCover(page)
  <2>1. page = <<>> /\ DOMAIN <<>> = {}
    BY DEF SyncInit
  <2>. QED  BY <2>1 DEF CursorsCover
<1>3. ClientsCover(req, token, copy)
  <2>1. ClientCovers(Idle, NoRow, Nothing)
    BY IdleCovers DEF HasUpserts
  <2>. QED  BY <2>1 DEF SyncInit, ClientsCover
<1>. QED  BY <1>1, <1>2, <1>3, SyncStarts DEF UpsertInv

LEMMA UpsertsSuffice == UpsertInv => NoLostUpsert
<1>. SUFFICES ASSUME UpsertInv, NEW c \in Clients, token[c] # NoRow, token[c].id \in Live, NEW h \in Hrefs,
                     cards[token[c].id][h] # NoRow, last[token[c].id][h] <= token[c].rev
              PROVE  InSync(c, h)
  BY DEF NoLostUpsert
<1>1. HasUpserts(token[c], copy[c])
  BY DEF UpsertInv, ClientsCover, ClientCovers
<1>. QED  BY <1>1 DEF HasUpserts, InSync

\* While nothing is pruned from the journal, no create or update that a client's token
\* covers is missing from its copy: whatever the writers do between a request's two
\* reads, however many clients share the cursor cache, whatever the cache evicts or
\* lets expire, and whichever answers are lost.  A deletion may be missed (MCSync_two_stale_cursor).
THEOREM UpsertsKept ==
  ASSUME Keep = 0, Retention = 0
  PROVE  SyncSpec => []NoLostUpsert
<1>1. SyncInit => UpsertInv
  BY UpsertStarts
<1>2. UpsertInv /\ [SyncNext]_vars => UpsertInv'
  BY UpsertStep
<1>3. UpsertInv => NoLostUpsert
  BY UpsertsSuffice
<1>. QED  BY <1>1, <1>2, <1>3, PTL DEF SyncSpec

-----------------------------------------------------------------------------
(* One client alone: nothing its token covers is missing or left behind *)

\* A revision belongs to one card: the row with a card's last revision is that card's.
RowOwners == \A c \in LiveChanges, h \in Hrefs : last[c.book][h] = c.rev => h = c.href
\* A card that exists was written once.
LastPositive == \A id \in Live, h \in Hrefs : cards[id][h] # NoRow => last[id][h] > 0
\* What is left of the journal has no gaps.
NoHoles == OrderInv /\ \A d \in LiveChanges : WholeFrom(d)

LEMMA OwnersKept ==
  ASSUME StoreOK, RowOwners, LastPositive, WorldStep
  PROVE  RowOwners' /\ LastPositive'
<1>1. TypeOK /\ NoOrphans /\ JournalInv
  BY DEF StoreOK, JournalInv
<1>2. /\ \A o \in Live, h \in Hrefs : last[o][h] <= books[o].revision /\ last[o][h] \in Nat
      /\ \A o \in Live : o \in BookIds /\ books[o].revision \in Nat
      /\ \A d \in changes : d.rev \in Nat /\ d.book \in BookIds /\ d.href \in Hrefs
  BY <1>1, Revisions
<1>3. \A d \in LiveChanges : d.rev <= books[d.book].revision
  BY <1>1, RowsWithinRevision
<1>4. ASSUME last' = last, \A o \in Live' : o \in Live /\ cards'[o] = cards[o],
             \A d \in LiveChanges' : d \in LiveChanges
      PROVE  RowOwners' /\ LastPositive'
  BY <1>4 DEF RowOwners, LastPositive
<1>5. CASE WriteCard
  <2>1. PICK id \in BookIds, h \in Hrefs : \E c : Wrote(id, h, c)
    BY <1>1, <1>5, OneWrite
  <2>2. PICK c : Wrote(id, h, c)
    BY <2>1
  <2>3. /\ id \in Live /\ Live' = Live /\ changes' = changes \cup {c} /\ c.book = id /\ c.href = h
        /\ c.rev = books[id].revision + 1 /\ last'[id][h] = books[id].revision + 1
        /\ \A o \in BookIds \ {id} : cards'[o] = cards[o] /\ last'[o] = last[o]
        /\ \A g \in Hrefs \ {h} : cards'[id][g] = cards[id][g] /\ last'[id][g] = last[id][g]
    BY <2>2 DEF Wrote
  <2>4. \A d \in LiveChanges' : d = c \/ d \in LiveChanges
    BY <1>2, <2>3 DEF LiveChanges, Live
  <2>5. ASSUME NEW d \in LiveChanges', NEW g \in Hrefs, last'[d.book][g] = d.rev PROVE g = d.href
    <3>1. CASE d = c
      <4>1. books[id].revision \in Nat /\ (g # h => last'[id][g] <= books[id].revision /\ last'[id][g] \in Nat)
        BY <1>2, <2>3
      <4>. QED  BY <2>3, <2>5, <3>1, <4>1
    <3>2. CASE d # c /\ ~(d.book = id /\ g = h)
      <4>1. d \in LiveChanges /\ d.book \in BookIds
        BY <1>2, <2>4, <3>2 DEF LiveChanges
      <4>2. last'[d.book][g] = last[d.book][g]
        BY <2>3, <3>2, <4>1
      <4>. QED  BY <2>5, <4>1, <4>2 DEF RowOwners
    <3>3. CASE d # c /\ d.book = id /\ g = h
      <4>1. d.rev <= books[id].revision /\ d.rev \in Nat /\ books[id].revision \in Nat
        BY <1>2, <1>3, <2>3, <2>4, <3>3 DEF LiveChanges
      <4>. QED  BY <2>3, <2>5, <3>3, <4>1
    <3>. QED  BY <3>1, <3>2, <3>3
  <2>6. ASSUME NEW o \in Live, NEW g \in Hrefs, cards'[o][g] # NoRow PROVE last'[o][g] > 0
    <3>1. books[id].revision + 1 > 0
      BY <1>2, <2>3
    <3>2. (o = id /\ g = h) \/ (cards'[o][g] = cards[o][g] /\ last'[o][g] = last[o][g])
      BY <1>2, <2>3
    <3>. QED  BY <2>3, <2>6, <3>1, <3>2 DEF LastPositive
  <2>. QED  BY <2>3, <2>5, <2>6 DEF RowOwners, LastPositive
<1>6. CASE RemoveCollection
  <2>1. RemoveBooks(AddressbookOf(Username, Slug), TRUE) /\ last' = last
    BY <1>6 DEF RemoveCollection, DeleteAddressbook
  <2>2. \A o \in Live' : o \in Live /\ cards'[o] = cards[o]
    BY <2>1 DEF RemoveBooks, Live
  <2>3. \A d \in LiveChanges' : d \in LiveChanges
    BY <1>2, <2>1 DEF RemoveBooks, LiveChanges
  <2>. QED  BY <1>4, <2>1, <2>2, <2>3
<1>7. CASE MakeCollection
  <2>1. PICK u \in UserIds, n \in Names : CreateAddressbook(u, Slug, n, TRUE)
    BY <1>7 DEF MakeCollection
  <2>2. /\ cards' = cards /\ last' = last /\ changes' = changes /\ NewBookId \in BookIds /\ NewBookId > seq.books
        /\ \A o \in BookIds : o # NewBookId => books'[o] = books[o]
    BY <1>1, <1>2, <2>1 DEF CreateAddressbook, TypeOK, NewBookId
  <2>3. /\ \A h \in Hrefs : cards[NewBookId][h] = NoRow
        /\ \A d \in changes : d.book # NewBookId
    BY <1>1, <2>2 DEF JournalInv, UnusedIdsAreBlank
  <2>4. \A d \in LiveChanges' : d \in LiveChanges
    BY <1>2, <2>2, <2>3 DEF LiveChanges
  <2>5. RowOwners'
    BY <2>2, <2>4 DEF RowOwners
  <2>6. LastPositive'
    BY <2>2, <2>3 DEF LastPositive, Live
  <2>. QED  BY <2>5, <2>6
<1>8. CASE PruneByAge \/ PruneByRevisions \/ TimePasses
  <2>1. last' = last /\ books' = books /\ cards' = cards /\ \A d \in changes' : d \in changes
    BY <1>8 DEF PruneByAge, PruneCardChangesByAge, PruneByRevisions, PruneCardChangesByMaxRevisions,
              TimePasses, Tick
  <2>2. (\A o \in Live' : o \in Live) /\ \A d \in LiveChanges' : d \in LiveChanges
    BY <2>1 DEF LiveChanges, Live
  <2>. QED  BY <1>4, <2>1, <2>2
<1>. QED  BY <1>5, <1>6, <1>7, <1>8 DEF WorldStep

\* A prune by revisions cuts a prefix whatever the times are, a prune by age one only
\* if no delete waited for the lock.
LEMMA HolesKept ==
  ASSUME StoreOK, NoHoles, WorldStep, Retention = 0 \/ LockWait = 0
  PROVE  NoHoles'
<1>1. TypeOK /\ JournalInv /\ OrderInv /\ UsersKnown /\ \A d \in LiveChanges : WholeFrom(d)
  BY DEF StoreOK, JournalInv, NoHoles
<1>2. [StoreNext]_storeVars
  BY <1>1, WorldIsStore
<1>3. OrderInv'
  BY <1>1, <1>2, TailsStep
<1>4. ASSUME \A cutoff \in 1 .. clock : ~PruneCardChangesByAge(cutoff)
      PROVE  \A d \in LiveChanges' : WholeFrom(d)'
  BY <1>1, <1>2, <1>4, NoNewGap
<1>5. CASE LockWait = 0
  <2>1. \A d \in LiveChanges' : WholeFrom(d)'
    BY <1>1, <1>2, <1>5, NoNewGap
  <2>. QED  BY <1>3, <2>1 DEF NoHoles
<1>6. CASE Retention = 0
  <2>1. CASE WriteCard
    <3>1. PICK id \in BookIds, h \in Hrefs : \E c : Wrote(id, h, c)
      BY <1>1, <2>1, OneWrite
    <3>2. books[id].revision \in Nat /\ books'[id].revision = books[id].revision + 1
      BY <3>1 DEF Wrote
    <3>3. \A d \in LiveChanges' : WholeFrom(d)'
      BY <1>4, <3>2 DEF PruneCardChangesByAge
    <3>. QED  BY <1>3, <3>3 DEF NoHoles
  <2>2. CASE RemoveCollection \/ MakeCollection
    <3>1. \A d \in LiveChanges' :
            /\ d \in LiveChanges
            /\ books'[d.book].revision = books[d.book].revision
            /\ \A e \in LiveChanges : e.book = d.book => e \in LiveChanges'
      <4>1. CASE RemoveCollection
        <5>1. RemoveBooks(AddressbookOf(Username, Slug), TRUE)
          BY <4>1 DEF RemoveCollection, DeleteAddressbook
        <5>. QED  BY <1>1, <5>1 DEF RemoveBooks, LiveChanges, TypeOK, Change
      <4>2. CASE MakeCollection
        <5>1. PICK u \in UserIds, n \in Names : CreateAddressbook(u, Slug, n, TRUE)
          BY <4>2 DEF MakeCollection
        <5>2. /\ changes' = changes /\ NewBookId \in BookIds
              /\ \A o \in BookIds : o # NewBookId => books'[o] = books[o]
          BY <1>1, <5>1 DEF CreateAddressbook, TypeOK
        <5>3. NewBookId > seq.books
          BY <1>1, Revisions DEF NewBookId
        <5>4. \A d \in changes : d.book # NewBookId /\ d.book \in BookIds
          BY <1>1, <5>2, <5>3 DEF JournalInv, UnusedIdsAreBlank, TypeOK, Change
        <5>. QED  BY <5>2, <5>4 DEF LiveChanges
      <4>. QED  BY <2>2, <4>1, <4>2
    <3>2. \A d \in LiveChanges' : WholeFrom(d)'
      BY <1>1, <3>1 DEF WholeFrom
    <3>. QED  BY <1>3, <3>2 DEF NoHoles
  <2>3. CASE PruneByRevisions
    <3>1. books' = books /\ changes' = {d \in changes : ~PrunedByRevision(d, Keep)} /\ Keep \in Nat
      BY <2>3, SyncAssumption DEF PruneByRevisions, PruneCardChangesByMaxRevisions
    <3>2. ASSUME NEW d \in LiveChanges', NEW r \in d.rev .. books'[d.book].revision
          PROVE  \E e \in LiveChanges' : e.book = d.book /\ e.rev = r
      <4>1. d \in LiveChanges /\ ~(d.rev <= books[d.book].revision - Keep)
        BY <3>1 DEF LiveChanges, PrunedByRevision
      <4>2. PICK e \in LiveChanges : e.book = d.book /\ e.rev = r
        BY <1>1, <3>1, <3>2, <4>1 DEF WholeFrom
      <4>3. d.rev \in Nat /\ books[d.book].revision \in Nat
        BY <1>1, <4>1, RowTypes
      <4>4. ~(e.rev <= books[e.book].revision - Keep)
        BY <3>1, <3>2, <4>1, <4>2, <4>3
      <4>5. e \in LiveChanges'
        BY <3>1, <4>4 DEF LiveChanges, PrunedByRevision
      <4>. QED  BY <4>2, <4>5
    <3>. QED  BY <1>3, <3>2 DEF NoHoles, WholeFrom
  <2>4. CASE TimePasses
    <3>1. clock \in Nat /\ clock' = clock + 1
      BY <1>1, <2>4, BoundsAssumption DEF TypeOK, TimePasses, Tick
    <3>2. \A d \in LiveChanges' : WholeFrom(d)'
      BY <1>4, <3>1 DEF PruneCardChangesByAge
    <3>. QED  BY <1>3, <3>2 DEF NoHoles
  <2>5. ~PruneByAge
    BY <1>6 DEF PruneByAge
  <2>. QED  BY <1>3, <2>1, <2>2, <2>3, <2>4, <2>5 DEF WorldStep, NoHoles
<1>. QED  BY <1>5, <1>6

RightIn(id, h, k) == k[h] = IF cards[id][h] = NoRow THEN NoRow ELSE cards[id][h].etag
Tells(id, h, item) ==
    /\ item.href = h
    /\ IF item.deleted THEN cards[id][h] = NoRow
                       ELSE cards[id][h] # NoRow /\ cards[id][h].etag = item.etag

\* In the order of the listings: strictly by revision, but for cards whose rows are pruned.
Ascending(items) ==
    \A a, b \in DOMAIN items : a < b => \/ items[a].rev < items[b].rev
                                        \/ items[a].rev = 0 /\ items[b].rev = 0

\* A page with this head that ends with these items says that it covers the card.
Reached(id, h, head, items) == last[id][h] <= head \/ \E a \in DOMAIN items : last[id][h] <= items[a].rev
\* The items tell the truth about the card, or say nothing and the copy is right.
Settled(id, h, items, k) ==
    \/ \E a \in DOMAIN items : Tells(id, h, items[a]) /\ \A b \in DOMAIN items : b > a => items[b].href # h
    \/ RightIn(id, h, k) /\ \A a \in DOMAIN items : items[a].href # h
Serves(id, head, items, k) ==
    id \in Live =>
        /\ head <= books[id].revision
        /\ \A a \in DOMAIN items : items[a].rev <= last[id][items[a].href] /\ last[id][items[a].href] > 0
        /\ \A h \in Hrefs : Reached(id, h, head, items) => Settled(id, h, items, k)

\* SyncSound, of one token and one copy.
Sound(id, rev, k) == id \in Live => \A h \in Hrefs : last[id][h] <= rev => RightIn(id, h, k)

\* The journal still has every change made since the request read the book.
Window(id, head, started) ==
    id \in Live => \A v \in head + 1 .. books[id].revision :
        \E c \in changes : c.book = id /\ c.rev = v /\ (Retention > 0 => c.at >= started)

LEMMA ServesGrows ==
  ASSUME JournalInv, JournalInv', NEW id \in BookIds, NEW head \in Nat, NEW items \in Seq(Item), NEW k,
         Serves(id, head, items, k), id \in Live' => Grows(id)
  PROVE  Serves(id, head, items, k)'
<1>. SUFFICES ASSUME id \in Live'
              PROVE  /\ head <= books'[id].revision
                     /\ \A a \in DOMAIN items : /\ items[a].rev <= last'[id][items[a].href]
                                                /\ last'[id][items[a].href] > 0
                     /\ \A h \in Hrefs : Reached(id, h, head, items)' => Settled(id, h, items, k)'
  BY DEF Serves
<1>1. /\ id \in Live /\ books[id].revision <= books'[id].revision
      /\ \A h \in Hrefs : \/ cards'[id][h] = cards[id][h] /\ last'[id][h] = last[id][h]
                          \/ last'[id][h] > books[id].revision
  BY DEF Grows
<1>2. /\ books[id].revision \in Nat
      /\ \A h \in Hrefs : last[id][h] \in Nat /\ last[id][h] <= books[id].revision
  BY <1>1, Revisions
<1>3. books'[id].revision \in Nat /\ \A h \in Hrefs : last'[id][h] \in Nat
  <2>1. MaxRev \in Nat /\ 0 .. MaxRev \subseteq Nat
    BY BoundsAssumption
  <2>. QED  BY <2>1 DEF JournalInv, TypeOK, BookRow, Live
<1>4. /\ head <= books[id].revision
      /\ \A a \in DOMAIN items : items[a].rev <= last[id][items[a].href] /\ last[id][items[a].href] > 0
      /\ \A h \in Hrefs : Reached(id, h, head, items) => Settled(id, h, items, k)
  BY <1>1 DEF Serves
<1>5. head <= books'[id].revision
  BY <1>1, <1>2, <1>3, <1>4
<1>6. \A a \in DOMAIN items : items[a].href \in Hrefs /\ items[a].rev \in Nat /\ items[a].rev <= books[id].revision
  BY <1>2, <1>4, ItemTypes
<1>7. ASSUME NEW a \in DOMAIN items
      PROVE  items[a].rev <= last'[id][items[a].href] /\ last'[id][items[a].href] > 0
  <2>1. /\ items[a].href \in Hrefs /\ items[a].rev \in Nat /\ items[a].rev <= books[id].revision
        /\ items[a].rev <= last[id][items[a].href] /\ last[id][items[a].href] > 0
    BY <1>4, <1>6
  <2>2. PICK g \in Hrefs : g = items[a].href
    BY <2>1
  <2>3. last'[id][g] = last[id][g] \/ last'[id][g] > books[id].revision
    BY <1>1
  <2>4. items[a].rev <= last'[id][g] /\ last'[id][g] > 0
    BY <1>2, <1>3, <2>1, <2>2, <2>3
  <2>. QED  BY <2>2, <2>4
<1>8. ASSUME NEW h \in Hrefs, Reached(id, h, head, items)' PROVE Settled(id, h, items, k)'
  <2>1. last'[id][h] <= head \/ \E a \in DOMAIN items : last'[id][h] <= items[a].rev
    BY <1>8 DEF Reached
  <2>2. ~(last'[id][h] > books[id].revision)
    BY <1>2, <1>3, <1>4, <1>6, <2>1
  <2>3. cards'[id][h] = cards[id][h] /\ last'[id][h] = last[id][h]
    BY <1>1, <2>2
  <2>4. Settled(id, h, items, k)
    BY <1>4, <2>1, <2>3 DEF Reached
  <2>. QED  BY <2>3, <2>4 DEF Settled, Tells, RightIn
<1>. QED  BY <1>5, <1>7, <1>8

LEMMA SoundGrows ==
  ASSUME StoreOK, StoreOK', NEW id \in BookIds, NEW rev \in Nat, NEW k, KnownBook(id, rev),
         id \in Live' => Grows(id), Sound(id, rev, k)
  PROVE  Sound(id, rev, k)'
<1>. SUFFICES ASSUME id \in Live', NEW h \in Hrefs, last'[id][h] <= rev PROVE RightIn(id, h, k)'
  BY DEF Sound
<1>1. /\ id \in Live
      /\ (cards'[id][h] = cards[id][h] /\ last'[id][h] = last[id][h]) \/ last'[id][h] > books[id].revision
  BY DEF Grows
<1>2. books[id].revision \in Nat /\ rev <= books[id].revision
  BY <1>1, Revisions DEF StoreOK, KnownBook
<1>3. last'[id][h] \in Nat
  <2>1. last'[id][h] \in 0 .. MaxRev
    BY DEF StoreOK, JournalInv, TypeOK
  <2>. QED  BY <2>1, BoundsAssumption
<1>4. cards'[id][h] = cards[id][h] /\ last'[id][h] = last[id][h]
  BY <1>1, <1>2, <1>3
<1>. QED  BY <1>1, <1>4 DEF Sound, RightIn

\* A request in flight keeps its window: as long as prunes reach no further back than
\* a request lasts.
LEMMA WindowKept ==
  ASSUME StoreOK, StoreOK', WorldStep, Retention = 0 \/ (LockWait = 0 /\ Span <= Retention), Keep = 0 \/ Burst <= Keep,
         NEW id \in BookIds, NEW head \in Nat, NEW started \in Nat, KnownBook(id, head), Window(id, head, started),
         started <= clock, clock - started <= Span, id \in Live => books[id].revision - head <= Burst
  PROVE  Window(id, head, started)' /\ started <= clock'
<1>1. TypeOK /\ JournalInv /\ NoOrphans /\ UsersKnown
  BY DEF StoreOK, JournalInv
<1>2. clock \in Nat /\ clock' \in Nat /\ Keep \in Nat /\ Burst \in Nat /\ Span \in Nat /\ Retention \in Nat /\ LockWait \in Nat
  BY <1>1, BoundsAssumption, SyncAssumption DEF StoreOK, JournalInv, TypeOK
<1>3. started <= clock'
  <2>1. clock' = clock \/ clock' = clock + 1
    <3>1. CASE WriteCard
      <4>1. PICK o \in BookIds, h \in Hrefs : \E c : Wrote(o, h, c)
        BY <1>1, <3>1, OneWrite
      <4>. QED  BY <4>1 DEF Wrote
    <3>2. CASE MakeCollection
      BY <3>2 DEF MakeCollection, CreateAddressbook
    <3>3. CASE RemoveCollection
      BY <3>3 DEF RemoveCollection, DeleteAddressbook, RemoveBooks
    <3>4. CASE PruneByAge
      BY <3>4 DEF PruneByAge, PruneCardChangesByAge
    <3>5. CASE PruneByRevisions
      BY <3>5 DEF PruneByRevisions, PruneCardChangesByMaxRevisions
    <3>6. CASE TimePasses
      BY <3>6 DEF TimePasses, Tick
    <3>. QED  BY <3>1, <3>2, <3>3, <3>4, <3>5, <3>6 DEF WorldStep
  <2>. QED  BY <1>2, <2>1
<1>4. id \in Live' => id \in Live
  BY KnownGrows DEF Grows
<1>. SUFFICES ASSUME id \in Live', NEW v \in head + 1 .. books'[id].revision
              PROVE  \E c \in changes' : c.book = id /\ c.rev = v /\ (Retention > 0 => c.at >= started)
  BY <1>3 DEF Window
<1>5. id \in Live /\ books[id].revision \in Nat /\ v \in Int /\ v > head
  BY <1>1, <1>4, Revisions
<1>6. ASSUME books'[id] = books[id], \A d \in changes : d.book = id => d \in changes'
      PROVE  \E c \in changes' : c.book = id /\ c.rev = v /\ (Retention > 0 => c.at >= started)
  BY <1>5, <1>6 DEF Window
<1>7. CASE WriteCard
  <2>1. PICK o \in BookIds, h \in Hrefs : \E c : Wrote(o, h, c)
    BY <1>1, <1>7, OneWrite
  <2>2. PICK c : Wrote(o, h, c)
    BY <2>1
  <2>3. /\ books[o].revision \in Nat /\ books'[o].revision = books[o].revision + 1
        /\ \A x \in BookIds \ {o} : books'[x] = books[x]
        /\ changes' = changes \cup {c} /\ c.book = o /\ c.rev = books[o].revision + 1
        /\ c.at \in 0 .. clock /\ clock - c.at <= LockWait
    BY <2>2 DEF Wrote
  <2>4. CASE o # id
    BY <1>6, <2>3, <2>4
  <2>5. CASE o = id /\ v <= books[id].revision
    <3>1. v \in head + 1 .. books[id].revision
      BY <1>5, <2>5
    <3>. QED  BY <1>5, <2>3, <3>1 DEF Window
  <2>6. CASE o = id /\ ~(v <= books[id].revision)
    <3>1. v = books[id].revision + 1
      BY <1>5, <2>3, <2>6
    <3>2. Retention > 0 => c.at >= started
      <4>1. c.at \in Nat
        BY <1>2, <2>3
      <4>2. LockWait = 0 => c.at = clock
        BY <1>2, <2>3, <4>1
      <4>. QED  BY <1>2, <4>1, <4>2
    <3>. QED  BY <2>3, <2>6, <3>1, <3>2
  <2>. QED  BY <2>4, <2>5, <2>6
<1>8. CASE RemoveCollection
  <2>1. RemoveBooks(AddressbookOf(Username, Slug), TRUE)
    BY <1>8 DEF RemoveCollection, DeleteAddressbook
  <2>. QED  BY <1>6, <2>1 DEF RemoveBooks, Live
<1>9. CASE MakeCollection
  <2>1. PICK u \in UserIds, n \in Names : CreateAddressbook(u, Slug, n, TRUE)
    BY <1>9 DEF MakeCollection
  <2>2. changes' = changes /\ \A o \in BookIds : o # NewBookId => books'[o] = books[o]
    BY <1>1, <2>1 DEF CreateAddressbook, TypeOK
  <2>3. id # NewBookId
    <3>1. seq.books \in Nat /\ id \in Nat
      BY <1>1, Revisions, BoundsAssumption DEF BookIds
    <3>. QED  BY <3>1 DEF KnownBook, NewBookId
  <2>. QED  BY <1>6, <2>2, <2>3
<1>10. CASE PruneByAge
  <2>1. Retention > 0 /\ books' = books /\ changes' = {c \in changes : ~(c.at < clock - Retention)}
    BY <1>10 DEF PruneByAge, PruneCardChangesByAge
  <2>2. PICK c \in changes : c.book = id /\ c.rev = v /\ c.at >= started
    BY <1>5, <2>1 DEF Window
  <2>3. c.at \in Nat
    BY <1>1, BoundsAssumption DEF TypeOK, Change
  <2>4. ~(c.at < clock - Retention)
    BY <1>2, <2>1, <2>2, <2>3
  <2>. QED  BY <2>1, <2>2, <2>4
<1>11. CASE PruneByRevisions
  <2>1. Keep > 0 /\ books' = books /\ changes' = {c \in changes : ~PrunedByRevision(c, Keep)}
    BY <1>11 DEF PruneByRevisions, PruneCardChangesByMaxRevisions
  <2>2. PICK c \in changes : c.book = id /\ c.rev = v /\ (Retention > 0 => c.at >= started)
    BY <1>5, <2>1 DEF Window
  <2>3. ~(v <= books[id].revision - Keep)
    BY <1>2, <1>5, <2>1
  <2>4. ~PrunedByRevision(c, Keep)
    BY <2>2, <2>3 DEF PrunedByRevision
  <2>. QED  BY <2>1, <2>2, <2>4
<1>12. CASE TimePasses
  BY <1>6, <1>12 DEF TimePasses, Tick
<1>. QED  BY <1>7, <1>8, <1>9, <1>10, <1>11, <1>12 DEF WorldStep

\* A new cursor takes the place of what the cache held under its token.
LEMMA PutReplaces ==
  ASSUME NEW p, CacheOK(p), NEW cur \in Cursor, MaxItems > 0 => Len(cur.items) <= MaxItems
  PROVE  \A a \in DOMAIN PutCursor(p, cur) :
            \/ PutCursor(p, cur)[a] = cur
            \/ Key(PutCursor(p, cur)[a]) # Key(cur) /\ \E b \in DOMAIN p : PutCursor(p, cur)[a] = p[b]
<1> DEFINE w == Without(p, Key(cur))
           q == Append(w, cur)
           r == PutCursor(p, cur)
<1>1. r = Evicted(q)
  <2>1. MaxItems \in Nat /\ Len(cur.items) \in Nat
    BY SyncAssumption, LenProperties DEF Cursor
  <2>2. ~(MaxItems > 0 /\ Len(cur.items) > MaxItems)
    BY <2>1
  <2>. QED  BY <2>2 DEF PutCursor
<1>2. w \in Seq(Cursor) /\ Part(w, p) /\ \A a \in DOMAIN w : Key(w[a]) # Key(cur)
  BY WithoutIsPart DEF CacheOK
<1>. HIDE DEF w, r
<1>3. /\ q \in Seq(Cursor) /\ Len(q) = Len(w) + 1 /\ Len(w) \in Nat /\ q[Len(w) + 1] = cur
      /\ \A a \in 1 .. Len(w) : q[a] = w[a]
  BY <1>2, AppendProperties, LenProperties
<1>4. DOMAIN w = 1 .. Len(w) /\ DOMAIN q = 1 .. Len(w) + 1
  <2>. HIDE DEF q
  <2>. QED  BY <1>2, <1>3, LenProperties
<1>. HIDE DEF q
<1>5. \A a \in DOMAIN q : q[a] = cur \/ \E b \in DOMAIN w : q[a] = w[b]
  BY <1>3, <1>4
<1>6. \A a \in DOMAIN r : \E b \in DOMAIN q : r[a] = q[b]
  BY <1>1, <1>3, EvictedFits, PartElements
<1>7. \A a \in DOMAIN w : \E b \in DOMAIN p : w[a] = p[b]
  BY <1>2, PartElements
<1>8. ASSUME NEW a \in DOMAIN r
      PROVE  \/ r[a] = cur
             \/ Key(r[a]) # Key(cur) /\ \E b \in DOMAIN p : r[a] = p[b]
  <2>1. PICK d \in DOMAIN q : r[a] = q[d]
    BY <1>6
  <2>2. CASE q[d] # cur
    <3>1. PICK b \in DOMAIN w : q[d] = w[b]
      BY <1>5, <2>2
    <3>. QED  BY <1>2, <1>7, <2>1, <3>1
  <2>. QED  BY <2>1, <2>2
<1>. QED  BY <1>8 DEF r

\* The bounds of a page: its token is the head, or the revision of an item, and what
\* comes after the page comes after the token.
LEMMA PageEnds ==
  ASSUME JournalInv, NEW id \in Live, NEW head \in 0 .. MaxRev, NEW items \in Seq(Item), NEW limit \in Nat, NEW k,
         Serves(id, head, items, k), Ascending(items)
  PROVE  LET rev == PageTokenRevision(head, items, limit) IN
         /\ rev \in Nat /\ rev <= books[id].revision
         /\ \A h \in Hrefs : last[id][h] <= rev => Reached(id, h, head, items)
         /\ \A h \in Hrefs, a \in DOMAIN items :
               items[a].href = h /\ last[id][h] <= rev => a \in DOMAIN Shown(items, limit)
<1> DEFINE rev == PageTokenRevision(head, items, limit)
           shown == Shown(items, limit)
<1>1. /\ \A a \in DOMAIN items : /\ items[a].rev \in Nat /\ items[a].href \in Hrefs /\ a \in Nat /\ a > 0
                                 /\ items[a].rev <= last[id][items[a].href] /\ last[id][items[a].href] > 0
      /\ DOMAIN items = 1 .. Len(items) /\ Len(items) \in Nat /\ head <= books[id].revision
  BY ItemTypes DEF Serves
<1>2. rev \in 0 .. MaxRev /\ 0 .. MaxRev \subseteq Nat
  BY PageTokens, BoundsAssumption
<1>3. Truncated(items, limit) => rev = items[limit].rev /\ limit \in DOMAIN items
  BY PageTokens, Pages
<1>4. ~Truncated(items, limit) => rev = head \/ (Len(items) \in DOMAIN items /\ rev = items[Len(items)].rev)
  BY PageTokens
<1>5. /\ Truncated(items, limit) => DOMAIN shown = 1 .. limit
      /\ ~Truncated(items, limit) => DOMAIN shown = DOMAIN items
  BY Pages
<1>6. /\ books[id].revision \in Nat
      /\ \A h \in Hrefs : last[id][h] \in Nat /\ last[id][h] <= books[id].revision
  BY Revisions DEF Live
<1>. HIDE DEF rev, shown
<1>7. rev = head \/ \E a \in DOMAIN items : rev = items[a].rev
  BY <1>3, <1>4
<1>8. rev <= books[id].revision
  <2>1. \A a \in DOMAIN items : items[a].rev <= books[id].revision
    BY <1>1, <1>6
  <2>. QED  BY <1>1, <1>7, <2>1
<1>9. ASSUME NEW h \in Hrefs, last[id][h] <= rev PROVE Reached(id, h, head, items)
  BY <1>7, <1>9 DEF Reached
<1>10. ASSUME NEW h \in Hrefs, NEW a \in DOMAIN items, items[a].href = h, last[id][h] <= rev PROVE a \in DOMAIN shown
  <2>1. CASE ~Truncated(items, limit)
    BY <1>5, <2>1
  <2>2. CASE Truncated(items, limit)
    <3>1. ~(limit < a)
      <4>. SUFFICES ASSUME limit < a PROVE FALSE
        OBVIOUS
      <4>1. items[limit].rev < items[a].rev \/ (items[limit].rev = 0 /\ items[a].rev = 0)
        BY <1>3, <2>2 DEF Ascending
      <4>2. items[a].rev <= last[id][h] /\ last[id][h] > 0 /\ last[id][h] <= items[limit].rev
        BY <1>1, <1>3, <1>10, <2>2
      <4>3. items[a].rev \in Nat /\ items[limit].rev \in Nat /\ last[id][h] \in Nat
        BY <1>1, <1>3, <1>6, <2>2
      <4>. QED  BY <4>1, <4>2, <4>3
    <3>2. a \in 1 .. limit
      BY <1>1, <3>1
    <3>. QED  BY <1>5, <2>2, <3>2
  <2>. QED  BY <2>1, <2>2
<1>11. /\ rev \in Nat /\ rev <= books[id].revision
       /\ \A h \in Hrefs : last[id][h] <= rev => Reached(id, h, head, items)
       /\ \A h \in Hrefs, a \in DOMAIN items :
               items[a].href = h /\ last[id][h] <= rev => a \in DOMAIN shown
  BY <1>2, <1>8, <1>9, <1>10
<1>. QED  BY <1>11 DEF rev, shown

\* An answer leaves the client right about every card that its new token covers.
LEMMA AnswerSound ==
  ASSUME JournalInv, NEW id \in BookIds, id <= seq.books, NEW head \in 0 .. MaxRev, NEW items \in Seq(Item),
         NEW limit \in Nat, NEW k, Serves(id, head, items, k), Ascending(items),
         NEW rev, rev = PageTokenRevision(head, items, limit),
         NEW new, new = Apply(k, Collapsed(Shown(items, limit)))
  PROVE  KnownBook(id, rev) /\ Sound(id, rev, new)
<1>. SUFFICES ASSUME id \in Live
              PROVE  rev <= books[id].revision /\ \A h \in Hrefs : last[id][h] <= rev => RightIn(id, h, new)
  BY DEF KnownBook, Sound
<1> DEFINE shown == Shown(items, limit)
<1>1. /\ rev <= books[id].revision
      /\ \A h \in Hrefs : last[id][h] <= rev => Reached(id, h, head, items)
      /\ \A h \in Hrefs, a \in DOMAIN items : items[a].href = h /\ last[id][h] <= rev => a \in DOMAIN shown
  BY PageEnds
<1>2. \A a \in DOMAIN shown : a \in DOMAIN items /\ shown[a] = items[a]
  BY Pages
<1>3. \A h \in Hrefs : Applied(new, k, shown, h)
  <2>1. shown = Shown(items, limit) /\ new = Apply(k, Collapsed(shown))
    OBVIOUS
  <2>. HIDE DEF shown
  <2>. QED  BY <2>1, AppliedPage
<1>. HIDE DEF shown
<1>4. ASSUME NEW h \in Hrefs, last[id][h] <= rev PROVE RightIn(id, h, new)
  <2>1. Settled(id, h, items, k)
    BY <1>1, <1>4 DEF Serves
  <2>2. ASSUME NEW a \in DOMAIN items, Tells(id, h, items[a]), \A b \in DOMAIN items : b > a => items[b].href # h
        PROVE  RightIn(id, h, new)
    <3>1. items[a].href = h
      BY <2>2 DEF Tells
    <3>2. a \in DOMAIN shown /\ shown[a] = items[a]
      BY <1>1, <1>2, <1>4, <3>1
    <3>3. new[h] = IF items[a].deleted THEN NoRow ELSE items[a].etag
      BY <1>2, <1>3, <2>2, <3>1, <3>2 DEF Applied
    <3>. QED  BY <2>2, <3>3 DEF Tells, RightIn
  <2>3. ASSUME RightIn(id, h, k), \A a \in DOMAIN items : items[a].href # h PROVE RightIn(id, h, new)
    <3>1. new[h] = k[h]
      BY <1>2, <1>3, <2>3 DEF Applied
    <3>. QED  BY <2>3, <3>1 DEF RightIn
  <2>. QED  BY <2>1, <2>2, <2>3 DEF Settled
<1>. QED  BY <1>1, <1>4

\* And what the page leaves goes on from there.
LEMMA RestServes ==
  ASSUME JournalInv, NEW id \in BookIds, NEW head \in 0 .. MaxRev, NEW items \in Seq(Item),
         NEW limit \in Nat, Truncated(items, limit), NEW k, Serves(id, head, items, k),
         NEW new, new = Apply(k, Collapsed(Shown(items, limit))),
         NEW rest, rest = Remaining(items, limit)
  PROVE  Serves(id, head, rest, new)
<1>. SUFFICES ASSUME id \in Live
              PROVE  /\ head <= books[id].revision
                     /\ \A a \in DOMAIN rest : rest[a].rev <= last[id][rest[a].href] /\ last[id][rest[a].href] > 0
                     /\ \A h \in Hrefs : Reached(id, h, head, rest) => Settled(id, h, rest, new)
  BY DEF Serves
<1> DEFINE shown == Shown(items, limit)
<1>1. /\ DOMAIN rest = 1 .. Len(items) - limit /\ \A a \in DOMAIN rest : limit + a \in DOMAIN items /\ rest[a] = items[limit + a]
      /\ DOMAIN shown = 1 .. limit /\ \A a \in DOMAIN shown : a \in DOMAIN items /\ shown[a] = items[a]
  BY Pages
<1>2. /\ head <= books[id].revision
      /\ \A a \in DOMAIN items : items[a].rev <= last[id][items[a].href] /\ last[id][items[a].href] > 0
      /\ \A h \in Hrefs : Reached(id, h, head, items) => Settled(id, h, items, k)
  BY DEF Serves
<1>3. \A h \in Hrefs : Applied(new, k, shown, h)
  <2>1. shown = Shown(items, limit) /\ new = Apply(k, Collapsed(shown))
    OBVIOUS
  <2>. HIDE DEF shown
  <2>. QED  BY <2>1, AppliedPage
<1>. HIDE DEF shown
<1>4. /\ DOMAIN items = 1 .. Len(items) /\ Len(items) \in Nat
      /\ \A a \in DOMAIN items : a \in Nat /\ a > 0
  BY ItemTypes
<1>5. \A a \in DOMAIN rest : a \in Nat /\ limit + a > limit
  BY <1>1, <1>4
<1>6. ASSUME NEW h \in Hrefs, Reached(id, h, head, rest) PROVE Settled(id, h, rest, new)
  <2>1. Settled(id, h, items, k)
    BY <1>1, <1>2, <1>6 DEF Reached
  <2>2. ASSUME NEW a \in DOMAIN items, Tells(id, h, items[a]), \A b \in DOMAIN items : b > a => items[b].href # h
        PROVE  Settled(id, h, rest, new)
    <3>1. CASE a <= limit
      <4>1. a \in DOMAIN shown
        BY <1>1, <1>4, <3>1
      <4>2. new[h] = IF items[a].deleted THEN NoRow ELSE items[a].etag
        BY <1>1, <1>3, <2>2, <4>1 DEF Applied, Tells
      <4>3. RightIn(id, h, new)
        BY <2>2, <4>2 DEF Tells, RightIn
      <4>4. ASSUME NEW b \in DOMAIN rest PROVE rest[b].href # h
        <5>1. limit + b > a /\ limit + b \in DOMAIN items /\ rest[b] = items[limit + b]
          BY <1>1, <1>4, <1>5, <3>1
        <5>. QED  BY <2>2, <5>1
      <4>. QED  BY <4>3, <4>4 DEF Settled
    <3>2. CASE ~(a <= limit)
      <4>1. a - limit \in DOMAIN rest /\ limit + (a - limit) = a
        BY <1>1, <1>4, <3>2
      <4>2. rest[a - limit] = items[a]
        BY <1>1, <4>1
      <4>3. ASSUME NEW b \in DOMAIN rest, b > a - limit PROVE rest[b].href # h
        <5>1. limit + b > a
          BY <1>4, <1>5, <4>3
        <5>2. limit + b \in DOMAIN items /\ rest[b] = items[limit + b]
          BY <1>1
        <5>. QED  BY <2>2, <5>1, <5>2
      <4>4. Tells(id, h, rest[a - limit])
        BY <2>2, <4>2
      <4>. QED  BY <4>1, <4>3, <4>4 DEF Settled
    <3>. QED  BY <3>1, <3>2
  <2>3. ASSUME RightIn(id, h, k), \A a \in DOMAIN items : items[a].href # h PROVE Settled(id, h, rest, new)
    <3>1. new[h] = k[h]
      BY <1>1, <1>3, <2>3 DEF Applied
    <3>2. \A a \in DOMAIN rest : rest[a].href # h
      BY <1>1, <2>3
    <3>. QED  BY <2>3, <3>1, <3>2 DEF RightIn, Settled
  <2>. QED  BY <2>1, <2>2, <2>3 DEF Settled
<1>7. \A a \in DOMAIN rest : rest[a].rev <= last[id][rest[a].href] /\ last[id][rest[a].href] > 0
  BY <1>1, <1>2
<1>. QED  BY <1>2, <1>6, <1>7

\* What an initial sync lists tells a client that has nothing about every card.
LEMMA CurrentServes ==
  ASSUME StoreOK, LastPositive, NEW id \in BookIds, NEW head \in 0 .. MaxRev, id \in Live => head <= books[id].revision
  PROVE  LET list == ListCurrentCardSyncStates(id) IN
         list \in Seq(Item) /\ Ascending(list) /\ Serves(id, head, list, Nothing)
<1> DEFINE list == ListCurrentCardSyncStates(id)
<1>1. /\ list \in Seq(Item) /\ Rising(list)
      /\ \A a \in DOMAIN list : \E h \in CardsOf(id) : list[a] = StateRow(id, h)
      /\ \A h \in CardsOf(id) : \E a \in DOMAIN list : list[a] = StateRow(id, h)
      /\ \A a, b \in DOMAIN list : list[a].href = list[b].href => a = b
  BY CurrentListing
<1>2. JournalInv /\ TypeOK /\ NoOrphans
  BY DEF StoreOK, JournalInv
<1>. HIDE DEF list
<1>3. \A a \in DOMAIN list : /\ list[a].href \in Hrefs /\ cards[id][list[a].href] # NoRow
                            /\ list[a].rev = RetainedRev(id, list[a].href) /\ list[a].rev \in Nat
                            /\ list[a].deleted = FALSE /\ list[a].etag = cards[id][list[a].href].etag
                            /\ a \in Nat
  <2>. SUFFICES ASSUME NEW a \in DOMAIN list
                PROVE  /\ list[a].href \in Hrefs /\ cards[id][list[a].href] # NoRow
                       /\ list[a].rev = RetainedRev(id, list[a].href) /\ list[a].rev \in Nat
                       /\ list[a].deleted = FALSE /\ list[a].etag = cards[id][list[a].href].etag
                       /\ a \in Nat
    OBVIOUS
  <2>1. PICK h \in CardsOf(id) : list[a] = StateRow(id, h)
    BY <1>1
  <2>2. list[a].href = h /\ list[a].rev = RetainedRev(id, h) /\ list[a].deleted = FALSE /\ list[a].etag = cards[id][h].etag
    BY <2>1 DEF StateRow
  <2>3. list[a].rev \in Nat /\ a \in Nat
    BY <1>1, ItemTypes
  <2>. QED  BY <2>2, <2>3 DEF CardsOf
<1>4. CASE id \notin Live
  <2>1. DOMAIN list = {}
    BY <1>2, <1>3, <1>4 DEF NoOrphans
  <2>2. Ascending(list) /\ Serves(id, head, list, Nothing)
    BY <1>4, <2>1 DEF Ascending, Serves
  <2>. QED  BY <1>1, <2>2 DEF list
<1>5. CASE id \in Live
  <2>1. \A h \in Hrefs : /\ RetainedRev(id, h) = 0
                            \/ \E c \in LiveChanges : c.book = id /\ c.href = h /\ c.rev = RetainedRev(id, h)
                         /\ last[id][h] \in Nat
    <3>1. \A h \in Hrefs : RetainedRev(id, h) = 0
                            \/ \E c \in changes : c.book = id /\ c.href = h /\ c.rev = RetainedRev(id, h)
      BY <1>2, Retained
    <3>2. \A c \in changes : c.book = id => c \in LiveChanges
      BY <1>5 DEF LiveChanges, Live
    <3>. QED  BY <1>2, <3>1, <3>2, Revisions
  <2>2. \A h \in Hrefs : RetainedRev(id, h) <= last[id][h]
    BY <1>2, <2>1 DEF JournalInv, JournalAgrees
  <2>3. \A a \in DOMAIN list : list[a].rev <= last[id][list[a].href] /\ last[id][list[a].href] > 0
    BY <1>3, <1>5, <2>2 DEF LastPositive
  <2>4. ASSUME NEW a \in DOMAIN list, NEW b \in DOMAIN list, a < b
        PROVE  list[a].rev < list[b].rev \/ (list[a].rev = 0 /\ list[b].rev = 0)
    <3>1. list[a].rev <= list[b].rev /\ a # b /\ list[a].href # list[b].href
      BY <1>1, <1>3, <2>4 DEF Rising
    <3>2. ASSUME list[a].rev = list[b].rev, list[a].rev # 0 PROVE FALSE
      <4>1. PICK c \in LiveChanges : c.book = id /\ c.href = list[a].href /\ c.rev = list[a].rev
        BY <1>3, <2>1, <3>2
      <4>2. PICK d \in LiveChanges : d.book = id /\ d.href = list[b].href /\ d.rev = list[b].rev
        BY <1>3, <2>1, <3>2
      <4>. QED  BY <1>2, <3>1, <3>2, <4>1, <4>2 DEF JournalInv, JournalAgrees
    <3>. QED  BY <1>3, <3>1, <3>2
  <2>5. Ascending(list)
    BY <2>4 DEF Ascending
  <2>6. ASSUME NEW h \in Hrefs PROVE Settled(id, h, list, Nothing)
    <3>1. CASE cards[id][h] = NoRow
      <4>1. RightIn(id, h, Nothing)
        BY <3>1 DEF RightIn, Nothing
      <4>. QED  BY <1>3, <3>1, <4>1 DEF Settled
    <3>2. CASE cards[id][h] # NoRow
      <4>1. PICK a \in DOMAIN list : list[a] = StateRow(id, h)
        BY <1>1, <3>2 DEF CardsOf
      <4>2. list[a].href = h
        BY <4>1 DEF StateRow
      <4>3. Tells(id, h, list[a])
        BY <1>3, <3>2, <4>2 DEF Tells
      <4>4. \A b \in DOMAIN list : b > a => list[b].href # h
        BY <1>1, <1>3, <4>2
      <4>. QED  BY <4>3, <4>4 DEF Settled
    <3>. QED  BY <3>1, <3>2
  <2>7. Serves(id, head, list, Nothing)
    BY <1>5, <2>3, <2>6 DEF Serves
  <2>. QED  BY <1>1, <2>5, <2>7 DEF list
<1>. QED  BY <1>4, <1>5

\* What a delta lists, when the token is not stale, tells a client that is right up to
\* its token about every card.
LEMMA ChangesServe ==
  ASSUME StoreOK, RowOwners, NoHoles, NEW id \in BookIds, NEW rev \in Nat, NEW t, t.rev = rev, NEW head \in 0 .. MaxRev,
         NEW started, NEW k, id \in Live => head <= books[id].revision, Sound(id, rev, k), rev <= head,
         Window(id, head, started), ~StaleToken(t, head, ListCardChangesSince(id, rev))
  PROVE  LET list == ListCardChangesSince(id, rev) IN
         /\ list \in Seq(Item) /\ Ascending(list) /\ Serves(id, head, list, k)
         /\ \A a \in DOMAIN list : list[a].rev > rev
<1> DEFINE list == ListCardChangesSince(id, rev)
<1>1. /\ list \in Seq(Item)
      /\ \A a, b \in DOMAIN list : a < b => list[a].rev < list[b].rev
      /\ \A a \in DOMAIN list : \E c \in Later(id, rev) : list[a] = ChangeRow(c)
      /\ \A c \in Later(id, rev) : \E a \in DOMAIN list : list[a] = ChangeRow(c)
  BY ChangeListing
<1>2. JournalInv /\ TypeOK
  BY DEF StoreOK, JournalInv
<1>3. ~(rev < head /\ (list = <<>> \/ Head(list).rev > rev + 1))
  BY DEF StaleToken
<1>. HIDE DEF list
<1>4. \A c \in Later(id, rev) : /\ c \in changes /\ c.book = id /\ c.rev > rev /\ c.rev \in Nat /\ c.href \in Hrefs
                                /\ ChangeRow(c).rev = c.rev /\ ChangeRow(c).href = c.href
                                /\ ChangeRow(c).deleted = c.deleted /\ ChangeRow(c).etag = c.etag
  BY <1>2, Revisions DEF Later, ChangeRow
<1>5. \A a \in DOMAIN list : list[a].rev > rev
  BY <1>1, <1>4
<1>6. Ascending(list)
  BY <1>1 DEF Ascending
<1>7. \A a \in DOMAIN list : a \in Nat /\ list[a].rev \in Nat /\ list[a].href \in Hrefs
  BY <1>1, ItemTypes
<1>8. CASE id \in Live
  <2>1. /\ books[id].revision \in Nat
        /\ \A h \in Hrefs : last[id][h] \in Nat /\ last[id][h] <= books[id].revision
        /\ \A c \in changes : c.book = id => c \in LiveChanges
        /\ \A c \in LiveChanges : c \in changes /\ c.rev \in Nat
    BY <1>2, <1>8, Revisions DEF LiveChanges, Live
  <2>2. \A a \in DOMAIN list : list[a].rev <= last[id][list[a].href] /\ last[id][list[a].href] > 0
    <3>. SUFFICES ASSUME NEW a \in DOMAIN list PROVE list[a].rev <= last[id][list[a].href] /\ last[id][list[a].href] > 0
      OBVIOUS
    <3>1. PICK c \in Later(id, rev) : list[a] = ChangeRow(c)
      BY <1>1
    <3>2. c.rev <= last[id][c.href]
      BY <1>2, <1>4, <2>1 DEF JournalInv, JournalAgrees
    <3>. QED  BY <1>4, <2>1, <3>1, <3>2
  <2>3. ASSUME NEW v \in rev + 1 .. books[id].revision, rev < head \/ head < v
        PROVE  \E c \in changes : c.book = id /\ c.rev = v
    <3>1. CASE rev < head
      <4>1. list # <<>> /\ ~(Head(list).rev > rev + 1)
        BY <1>3, <3>1
      <4>2. 1 \in DOMAIN list /\ Head(list) = list[1]
        BY <1>1, <4>1, EmptySeq, LenProperties
      <4>3. PICK c \in Later(id, rev) : list[1] = ChangeRow(c)
        BY <1>1, <4>2
      <4>4. c.rev = rev + 1 /\ c \in LiveChanges /\ c.book = id
        BY <1>4, <2>1, <4>1, <4>2, <4>3
      <4>5. \E d \in LiveChanges : d.book = c.book /\ d.rev = v
        BY <2>1, <4>4 DEF NoHoles, WholeFrom
      <4>. QED  BY <2>1, <4>4, <4>5
    <3>2. CASE ~(rev < head)
      <4>1. head \in Nat
        BY BoundsAssumption
      <4>2. v \in head + 1 .. books[id].revision
        BY <2>1, <2>3, <3>2, <4>1
      <4>. QED  BY <1>8, <4>2 DEF Window
    <3>. QED  BY <3>1, <3>2
  <2>4. ASSUME NEW h \in Hrefs, Reached(id, h, head, list) PROVE Settled(id, h, list, k)
    <3>1. CASE last[id][h] <= rev
      <4>1. RightIn(id, h, k)
        BY <1>8, <3>1 DEF Sound
      <4>2. \A a \in DOMAIN list : list[a].href # h
        BY <1>5, <1>7, <2>1, <2>2, <3>1
      <4>. QED  BY <4>1, <4>2 DEF Settled
    <3>2. CASE ~(last[id][h] <= rev)
      <4>1. last[id][h] \in rev + 1 .. books[id].revision
        BY <2>1, <3>2
      <4>2. rev < head \/ head < last[id][h]
        <5>1. head \in Nat
          BY BoundsAssumption
        <5>. QED  BY <2>1, <3>2, <5>1
      <4>3. PICK c \in changes : c.book = id /\ c.rev = last[id][h]
        BY <2>3, <4>1, <4>2
      <4>4. c \in LiveChanges /\ c \in Later(id, rev)
        BY <2>1, <3>2, <4>3 DEF Later
      <4>5. c.href = h
        BY <4>3, <4>4 DEF RowOwners
      <4>6. IF c.deleted THEN cards[id][h] = NoRow ELSE cards[id][h] # NoRow /\ cards[id][h].etag = c.etag
        BY <1>2, <4>3, <4>4, <4>5 DEF JournalInv, JournalAgrees
      <4>7. PICK a \in DOMAIN list : list[a] = ChangeRow(c)
        BY <1>1, <4>4
      <4>8. Tells(id, h, list[a])
        BY <1>4, <4>4, <4>5, <4>6, <4>7 DEF Tells
      <4>9. list[a].rev = last[id][h]
        BY <1>4, <4>3, <4>4, <4>7
      <4>10. ASSUME NEW b \in DOMAIN list, b > a PROVE list[b].href # h
        <5>1. list[a].rev < list[b].rev
          BY <1>1, <1>7, <4>10
        <5>. QED  BY <1>7, <2>1, <2>2, <4>9, <5>1
      <4>. QED  BY <4>8, <4>10 DEF Settled
    <3>. QED  BY <3>1, <3>2
  <2>5. Serves(id, head, list, k)
    BY <1>8, <2>2, <2>4 DEF Serves
  <2>. QED  BY <1>1, <1>5, <1>6, <2>5 DEF list
<1>9. CASE id \notin Live
  <2>1. Serves(id, head, list, k)
    BY <1>9 DEF Serves
  <2>. QED  BY <1>1, <1>5, <1>6, <2>1 DEF list
<1>. QED  BY <1>8, <1>9

\* What is said of one cursor: it goes on from its token, which the book is past.
CursorSound(cur) ==
    /\ KnownBook(cur.id, cur.rev) /\ Ascending(cur.items)
    /\ \A a \in DOMAIN cur.items : cur.items[a].rev > cur.rev
    /\ MaxItems > 0 => Len(cur.items) <= MaxItems
    /\ cur.id \in Live => cur.rev < books[cur.id].revision

\* Of the client: its copy is right up to its token, and its request is about to answer
\* with what the copy lacks.
InPace(r) ==
    /\ r.started <= clock /\ clock - r.started <= Span
    /\ r.id \in Live => books[r.id].revision - r.head <= Burst
RequestSound(r, t, k) ==
    /\ t = NoRow => k = Nothing
    /\ t # NoRow => KnownBook(t.id, t.rev) /\ Sound(t.id, t.rev, k)
    /\ r.pc # "idle" => KnownBook(r.id, r.head)
    /\ r.pc \in {"cursor", "list"} => InPace(r) /\ Window(r.id, r.head, r.started)
    /\ r.pc = "build" => /\ Ascending(r.items) /\ Serves(r.id, r.head, r.items, k)
                         /\ t # NoRow => \A a \in DOMAIN r.items : r.items[a].rev > t.rev

\* And of both: the cursor under the client's token serves the client, and neither a
\* request in flight nor that cursor can end at the token of another cursor.
Meets(p, r, t, k) ==
    /\ r.pc # "idle" /\ r.id \in Live => \A i \in DOMAIN p : p[i].id = r.id => p[i].rev < r.head
    /\ r.pc \in {"list", "build"} /\ r.limit > 0 /\ t # NoRow => CursorsAt(p, t) = {}
    /\ t # NoRow => \A i \in CursorsAt(p, t) :
         /\ Serves(p[i].id, p[i].head, p[i].items, k)
         /\ p[i].id \in Live => \A j \in DOMAIN p : p[j].id = p[i].id /\ Key(p[j]) # t => p[j].rev < p[i].head

CursorsSound(p) == \A i \in DOMAIN p : CursorSound(p[i])
ClientsSound(p, r, t, k) ==
    \A c \in Clients : RequestSound(r[c], t[c], k[c]) /\ Meets(p, r[c], t[c], k[c])

SoundInv ==
    /\ SyncInv /\ RowOwners /\ LastPositive /\ NoHoles
    /\ CursorsSound(page) /\ ClientsSound(page, req, token, copy)

\* Hypotheses on a behaviour.  No page of an initial sync ends among the cards whose journal
\* rows are pruned, and no listing is larger than the cursor cache.
NoCursorAtZero == \A i \in DOMAIN page : page[i].rev > 0
ListingsFit    == MaxItems > 0 => \A c \in Clients : Len(req[c].items) <= MaxItems

LEMMA NothingSound == \A p : RequestSound(Idle, NoRow, Nothing) /\ Meets(p, Idle, NoRow, Nothing)
  BY IdleFits DEF RequestSound, Meets

\* The step of an answer: the page is cut from items that serve the client, and the
\* answer arrives or is lost.
LEMMA CutSound ==
  ASSUME JournalInv, NEW p, CacheOK(p), CursorsSound(p), NEW id \in BookIds, id <= seq.books, NEW head \in 0 .. MaxRev,
         NEW items \in Seq(Item), NEW limit \in Nat, NEW t \in Tokens, NEW k,
         Ascending(items), Serves(id, head, items, k), MaxItems > 0 => Len(items) <= MaxItems,
         t # NoRow => \A a \in DOMAIN items : items[a].rev > t.rev,
         RequestSound(Idle, t, k), Meets(p, Idle, t, k),
         id \in Live => \A i \in DOMAIN p : p[i].id = id => p[i].rev < head,
         t # NoRow /\ Truncated(items, limit) => CursorsAt(p, t) = {},
         NEW q, q = CacheAfter(p, id, head, items, limit), \A i \in DOMAIN q : q[i].rev > 0,
         NEW s, s = [id |-> id, rev |-> PageTokenRevision(head, items, limit)],
         NEW new, new = Apply(k, Collapsed(Shown(items, limit)))
  PROVE  /\ CursorsSound(q)
         /\ Meets(q, Idle, t, k)
         /\ RequestSound(Idle, s, new) /\ Meets(q, Idle, s, new)
<1>1. Idle.pc = "idle" /\ Idle.pc \notin {"cursor", "list", "build"}
  BY IdleFits
<1>2. s.id = id /\ s.rev = PageTokenRevision(head, items, limit) /\ s.rev \in Nat /\ head \in Nat
  <2>1. PageTokenRevision(head, items, limit) \in 0 .. MaxRev /\ 0 .. MaxRev \subseteq Nat
    BY PageTokens, BoundsAssumption
  <2>. QED  BY <2>1
<1>3. KnownBook(id, s.rev) /\ Sound(id, s.rev, new)
  BY <1>2, AnswerSound
<1>4. RequestSound(Idle, s, new)
  <2>1. s # NoRow
    <3>1. s \in Token
      BY <1>2, PageTokens DEF Token
    <3>. QED  BY <3>1, TokenAssumption
  <2>. QED  BY <1>1, <1>2, <1>3, <2>1 DEF RequestSound
<1>5. \A i \in DOMAIN p : p[i].rev \in Nat
  <2>. SUFFICES ASSUME NEW i \in DOMAIN p PROVE p[i].rev \in Nat
    OBVIOUS
  <2>1. p[i] \in Cursor
    BY ElementOfSeq, LenProperties DEF CacheOK
  <2>. QED  BY <2>1, BoundsAssumption DEF Cursor
<1>6. CASE ~Truncated(items, limit)
  <2>1. q = p
    BY <1>6 DEF CacheAfter
  <2>2. s.rev >= head
    <3>1. 0 .. MaxRev \subseteq Nat
      BY BoundsAssumption
    <3>2. /\ items = <<>> => s.rev = head
          /\ items # <<>> => s.rev >= head
      BY <1>2, <1>6, PageTokens
    <3>. QED  BY <1>2, <3>2
  <2>3. id \in Live => CursorsAt(p, s) = {}
    <3>. SUFFICES ASSUME id \in Live, NEW i \in DOMAIN p, Key(p[i]) = s PROVE FALSE
      BY DEF CursorsAt
    <3>1. p[i].id = id /\ p[i].rev = s.rev
      BY <1>2 DEF Key
    <3>. QED  BY <1>2, <1>5, <2>2, <3>1
  <2>4. \A i \in CursorsAt(p, s) : i \in DOMAIN p /\ p[i].id = id
    BY <1>2 DEF CursorsAt, Key
  <2>5. Meets(p, Idle, s, new)
    <3>1. \A i \in CursorsAt(p, s) : p[i].id \notin Live
      BY <2>3, <2>4
    <3>. QED  BY <1>1, <3>1 DEF Meets, Serves
  <2>. QED  BY <1>4, <2>1, <2>5
<1>7. CASE Truncated(items, limit)
  <2> DEFINE cur == Rest(id, head, items, limit)
             rest == Remaining(items, limit)
  <2>1. /\ cur.id = id /\ cur.rev = s.rev /\ cur.head = head /\ cur.items = rest /\ Key(cur) = s
        /\ q = PutCursor(p, cur)
    BY <1>7 DEF CacheAfter, Rest, Key
  <2>2. /\ limit \in DOMAIN items /\ rest \in Seq(Item) /\ rest # <<>>
        /\ DOMAIN rest = 1 .. Len(items) - limit
        /\ \A a \in DOMAIN rest : limit + a \in DOMAIN items /\ rest[a] = items[limit + a]
    BY <1>7, Pages
  <2>3. cur \in Cursor
    BY <1>7, Pages, PageTokens DEF Rest, Cursor
  <2>4. s.rev = items[limit].rev
    BY <1>2, <1>7, PageTokens
  <2>5. Serves(id, head, rest, new)
    <3>1. rest = Remaining(items, limit)
      OBVIOUS
    <3>. HIDE DEF rest, cur
    <3>. QED  BY <1>7, <3>1, RestServes
  <2>. HIDE DEF cur, rest
  <2>6. /\ \A a \in DOMAIN items : items[a].rev \in Nat /\ items[a].href \in Hrefs /\ a \in Nat /\ a > 0
        /\ Len(items) \in Nat /\ DOMAIN items = 1 .. Len(items)
    BY ItemTypes
  <2>7. Len(rest) = Len(items) - limit /\ \A a \in DOMAIN rest : a \in Nat /\ a > 0
    <3>1. DOMAIN rest = 1 .. Len(rest) /\ Len(rest) \in Nat /\ \A a \in DOMAIN rest : a \in Nat /\ a > 0
      BY <2>2, ItemTypes
    <3>2. Len(items) - limit \in Nat
      BY <2>2, <2>6
    <3>. QED  BY <2>2, <3>1, <3>2
  <2>8. MaxItems > 0 => Len(cur.items) <= MaxItems
    <3>1. limit > 0
      BY <2>2, <2>6
    <3>2. Len(cur.items) = Len(items) - limit
      BY <2>1, <2>7
    <3>3. MaxItems \in Nat /\ Len(items) \in Nat
      BY <2>6, SyncAssumption
    <3>. QED  BY <3>1, <3>2, <3>3
  <2>9. \A a \in DOMAIN q : q[a] = cur \/ (Key(q[a]) # s /\ \E b \in DOMAIN p : q[a] = p[b])
    BY <2>1, <2>3, <2>8, PutReplaces
  <2>10. Ascending(rest)
    <3>. SUFFICES ASSUME NEW a \in DOMAIN rest, NEW b \in DOMAIN rest, a < b
                  PROVE  rest[a].rev < rest[b].rev \/ (rest[a].rev = 0 /\ rest[b].rev = 0)
      BY DEF Ascending
    <3>1. limit + a < limit + b
      BY <2>7
    <3>. QED  BY <2>2, <3>1 DEF Ascending
  <2>11. ASSUME s.rev > 0, NEW a \in DOMAIN rest PROVE rest[a].rev > s.rev
    <3>1. limit < limit + a
      BY <2>7
    <3>2. items[limit].rev < items[limit + a].rev \/ (items[limit].rev = 0 /\ items[limit + a].rev = 0)
      BY <2>2, <3>1 DEF Ascending
    <3>. QED  BY <1>2, <2>2, <2>4, <2>6, <2>11, <3>2
  <2>12. ASSUME s.rev > 0 PROVE CursorSound(cur)
    <3>1. ASSUME id \in Live PROVE s.rev < books[id].revision
      <4>1. 1 \in DOMAIN rest /\ rest[1].rev > s.rev
        BY <2>2, <2>11, <2>12, EmptySeq, LenProperties
      <4>2. rest[1].rev <= last[id][rest[1].href] /\ rest[1].href \in Hrefs /\ rest[1].rev \in Nat
        BY <2>2, <2>5, <2>6, <3>1, <4>1 DEF Serves
      <4>3. last[id][rest[1].href] <= books[id].revision /\ last[id][rest[1].href] \in Nat /\ books[id].revision \in Nat
        BY <3>1, <4>2, Revisions
      <4>. QED  BY <1>2, <4>1, <4>2, <4>3
    <3>. QED  BY <1>3, <2>1, <2>8, <2>10, <2>11, <2>12, <3>1 DEF CursorSound
  <2>13. CursorsSound(q)
    <3>. SUFFICES ASSUME NEW i \in DOMAIN q PROVE CursorSound(q[i])
      BY DEF CursorsSound
    <3>1. CASE q[i] = cur
      BY <2>1, <2>12, <3>1
    <3>2. CASE q[i] # cur
      BY <2>9, <3>2 DEF CursorsSound
    <3>. QED  BY <3>1, <3>2
  <2>14. Meets(q, Idle, t, k)
    <3>. SUFFICES ASSUME t # NoRow PROVE CursorsAt(q, t) = {}
      BY <1>1 DEF Meets
    <3>. SUFFICES ASSUME NEW i \in DOMAIN q, Key(q[i]) = t PROVE FALSE
      BY DEF CursorsAt
    <3>1. s # t
      <4>1. items[limit].rev > t.rev /\ t.rev \in Nat
        <5>1. t \in Token
          BY DEF Tokens
        <5>. QED  BY <2>2, <5>1, BoundsAssumption DEF Token
      <4>. QED  BY <2>2, <2>4, <2>6, <4>1
    <3>2. PICK b \in DOMAIN p : q[i] = p[b]
      BY <2>1, <2>9, <3>1
    <3>. QED  BY <1>7, <3>2 DEF CursorsAt
  <2>15. Meets(q, Idle, s, new)
    <3>. SUFFICES ASSUME NEW i \in DOMAIN q, Key(q[i]) = s
                  PROVE  /\ Serves(q[i].id, q[i].head, q[i].items, new)
                         /\ q[i].id \in Live => \A j \in DOMAIN q : q[j].id = q[i].id /\ Key(q[j]) # s => q[j].rev < q[i].head
      BY <1>1 DEF Meets, CursorsAt
    <3>1. q[i] = cur
      BY <2>9
    <3>2. q[i].id = id /\ q[i].head = head /\ q[i].items = rest
      BY <2>1, <3>1
    <3>3. Serves(q[i].id, q[i].head, q[i].items, new)
      BY <2>5, <3>2
    <3>4. ASSUME id \in Live, NEW j \in DOMAIN q, q[j].id = id, Key(q[j]) # s PROVE q[j].rev < head
      BY <2>1, <2>9, <3>4
    <3>. QED  BY <3>2, <3>3, <3>4
  <2>. QED  BY <1>4, <2>13, <2>14, <2>15
<1>. QED  BY <1>6, <1>7

-----------------------------------------------------------------------------
(* The requests' steps of one client *)

\* The client is alone.
OneClient == \A c, d \in Clients : c = d

LEMMA MoveSound ==
  ASSUME OneClient, ClientsOK, NEW c \in Clients, NEW p, NEW r, NEW t, NEW k, RequestSound(r, t, k), Meets(p, r, t, k),
         req' = [req EXCEPT ![c] = r], token' = [token EXCEPT ![c] = t], copy' = [copy EXCEPT ![c] = k]
  PROVE  ClientsSound(p, req', token', copy')
<1>1. req'[c] = r /\ token'[c] = t /\ copy'[c] = k
  BY DEF ClientsOK
<1>. SUFFICES ASSUME NEW d \in Clients
              PROVE  RequestSound(req'[d], token'[d], copy'[d]) /\ Meets(p, req'[d], token'[d], copy'[d])
  BY DEF ClientsSound
<1>2. d = c
  BY DEF OneClient
<1>. QED  BY <1>1, <1>2

LEMMA StartedOverSound ==
  ASSUME OneClient, ClientsOK, NEW p, NEW c \in Clients, StartOver(c)
  PROVE  ClientsSound(p, req', token', copy')
<1>1. RequestSound(Idle, NoRow, Nothing) /\ Meets(p, Idle, NoRow, Nothing)
  BY NothingSound
<1>. QED  BY <1>1, MoveSound DEF StartOver

\* What a request knows of its client.
LEMMA RequestKnows ==
  ASSUME SoundInv, NEW c \in Clients
  PROVE  /\ StoreOK /\ JournalInv /\ ClientsOK /\ CursorsOK(page) /\ CacheOK(page) /\ CursorsSound(page)
         /\ RequestSound(req[c], token[c], copy[c]) /\ Meets(page, req[c], token[c], copy[c])
         /\ req[c] \in Requests /\ token[c] \in Tokens /\ Fits(req[c], token[c]) /\ req[c].limit \in Nat
         /\ req[c].head \in 0 .. MaxRev /\ req[c].items \in Seq(Item)
         /\ token[c] # NoRow => token[c] \in Token /\ token[c].rev \in Nat /\ token[c].id \in BookIds
<1>1. StoreOK /\ ClientsOK /\ CursorsOK(page)
  BY DEF SoundInv, SyncInv
<1>2. token[c] \in Tokens
  BY <1>1, RequestTyped
<1>3. token[c] # NoRow => token[c] \in Token /\ token[c].rev \in Nat /\ token[c].id \in BookIds
  BY <1>2, BoundsAssumption DEF Tokens, Token
<1>. QED  BY <1>1, <1>3, RequestTyped DEF SoundInv, ClientsSound, StoreOK, CursorsOK

LEMMA ReadBookSound ==
  ASSUME OneClient, SoundInv, NEW c \in Clients, NEW limit \in Limits, ReadBook(c, limit)
  PROVE  ClientsSound(page, req', token', copy')
<1>1. CASE StartOver(c)
  BY <1>1, RequestKnows, StartedOverSound
<1>2. CASE ~StartOver(c) /\ ~UNCHANGED <<req, token, copy>>
  <2>1. PICK id \in AddressbookOf(Username, Slug) :
          /\ ~WrongBook(c, id)
          /\ req' = [req EXCEPT ![c] =
                  [pc |-> IF token[c] = NoRow \/ limit = 0 THEN "list" ELSE "cursor",
                   id |-> id, head |-> books[id].revision, limit |-> limit,
                   started |-> clock, items |-> <<>>]]
          /\ UNCHANGED <<token, copy>>
    BY <1>2 DEF ReadBook
  <2> DEFINE r == [pc |-> IF token[c] = NoRow \/ limit = 0 THEN "list" ELSE "cursor",
                   id |-> id, head |-> books[id].revision, limit |-> limit,
                   started |-> clock, items |-> <<>>]
  <2>2. /\ id \in Live /\ id \in BookIds /\ id \in Nat /\ JournalInv /\ ClientsOK /\ CursorsSound(page)
        /\ RequestSound(req[c], token[c], copy[c]) /\ Meets(page, req[c], token[c], copy[c])
    BY RequestKnows, BoundsAssumption DEF AddressbookOf, Live, BookIds
  <2>3. KnownBook(id, books[id].revision)
    BY <2>2, Revisions DEF KnownBook, JournalInv, UnusedIdsAreBlank, Live
  <2>4. /\ r.pc \in {"list", "cursor"} /\ (r.pc = "list" => token[c] = NoRow \/ r.limit = 0)
        /\ r.id = id /\ r.head = books[id].revision /\ r.started = clock /\ r.limit = limit
    OBVIOUS
  <2>5. token' = [token EXCEPT ![c] = token[c]] /\ copy' = [copy EXCEPT ![c] = copy[c]]
        /\ req' = [req EXCEPT ![c] = r]
    BY <2>1, <2>2 DEF ClientsOK
  <2>. HIDE DEF r
  <2>6. books[id].revision \in Nat /\ clock \in Nat /\ Span \in Nat /\ Burst \in Nat /\ limit \in Nat
    BY <2>2, Revisions, SyncAssumption
  <2>7. InPace(r) /\ Window(r.id, r.head, r.started)
    <3>1. clock - clock <= Span /\ books[id].revision - books[id].revision <= Burst /\ clock <= clock
      BY <2>6
    <3>2. books[id].revision + 1 .. books[id].revision = {}
      BY <2>6
    <3>. QED  BY <2>4, <3>1, <3>2 DEF InPace, Window
  <2>8. RequestSound(r, token[c], copy[c])
    BY <2>2, <2>3, <2>4, <2>7 DEF RequestSound
  <2>9. Meets(page, r, token[c], copy[c])
    <3>1. \A i \in DOMAIN page : page[i].id = id => page[i].rev < books[id].revision
      BY <2>2 DEF CursorsSound, CursorSound
    <3>2. ~(r.pc \in {"list", "build"} /\ r.limit > 0 /\ token[c] # NoRow)
      BY <2>4
    <3>. QED  BY <2>2, <2>4, <3>1, <3>2 DEF Meets
  <2>. QED  BY <2>2, <2>5, <2>8, <2>9, MoveSound
<1>3. CASE UNCHANGED <<req, token, copy>>
  BY <1>3, RequestKnows DEF SoundInv
<1>. QED  BY <1>1, <1>2, <1>3

\* An answer that arrives gives the client a new token and a new copy, one that is lost
\* leaves it those it had.
LEMMA AnswerSounds ==
  ASSUME OneClient, ClientsOK, NEW c \in Clients, NEW p, NEW id, NEW head, NEW items, NEW limit, NEW arrives,
         Respond(c, id, head, items, limit, arrives),
         RequestSound(req[c], token[c], copy[c]), Meets(p, Idle, token[c], copy[c]),
         NEW s, s = [id |-> id, rev |-> PageTokenRevision(head, items, limit)],
         NEW new, new = Apply(copy[c], Collapsed(Shown(items, limit))),
         RequestSound(Idle, s, new), Meets(p, Idle, s, new)
  PROVE  ClientsSound(p, req', token', copy')
<1>1. req' = [req EXCEPT ![c] = Idle]
  BY DEF Respond
<1>2. CASE arrives
  <2>1. token' = [token EXCEPT ![c] = s] /\ copy' = [copy EXCEPT ![c] = new]
    BY <1>2 DEF Respond, ClientsOK
  <2>. QED  BY <1>1, <2>1, MoveSound
<1>3. CASE ~arrives
  <2>1. token' = [token EXCEPT ![c] = token[c]] /\ copy' = [copy EXCEPT ![c] = copy[c]]
    BY <1>3 DEF Respond, ClientsOK
  <2>2. RequestSound(Idle, token[c], copy[c])
    BY IdleFits DEF RequestSound
  <2>. QED  BY <1>1, <2>1, <2>2, MoveSound
<1>. QED  BY <1>2, <1>3

LEMMA CursorHitSound ==
  ASSUME OneClient, SoundInv, NEW c \in Clients, NEW arrives, CursorHit(c, arrives), \A i \in DOMAIN page' : page'[i].rev > 0
  PROVE  CursorsSound(page') /\ ClientsSound(page', req', token', copy')
<1>1. PICK i \in CursorsAt(page, token[c]) :
        /\ page' = CacheAfter(Without(page, token[c]), page[i].id, page[i].head, page[i].items, req[c].limit)
        /\ Respond(c, page[i].id, page[i].head, page[i].items, req[c].limit, arrives)
  BY DEF CursorHit
<1> DEFINE p == Without(page, token[c])
           s == [id |-> page[i].id, rev |-> PageTokenRevision(page[i].head, page[i].items, req[c].limit)]
           new == Apply(copy[c], Collapsed(Shown(page[i].items, req[c].limit)))
<1>2. /\ JournalInv /\ ClientsOK /\ CursorsOK(page) /\ CacheOK(page) /\ CursorsSound(page)
      /\ RequestSound(req[c], token[c], copy[c]) /\ Meets(page, req[c], token[c], copy[c])
      /\ token[c] \in Tokens /\ Fits(req[c], token[c]) /\ req[c].limit \in Nat
  BY RequestKnows
<1>3. /\ page[i].id \in BookIds /\ page[i].head \in 0 .. MaxRev /\ page[i].items \in Seq(Item) /\ i \in DOMAIN page
      /\ CursorSound(page[i])
  BY <1>2, CursorsTyped DEF CursorsAt, CursorsSound
<1>4. token[c] # NoRow /\ token[c].id = page[i].id /\ token[c].rev = page[i].rev
  <2>1. Key(page[i]) = token[c] /\ token[c] # NoRow
    BY <1>2 DEF CursorsAt, CursorHit, Fits
  <2>. QED  BY <2>1 DEF Key
<1>5. /\ Serves(page[i].id, page[i].head, page[i].items, copy[c])
      /\ page[i].id \in Live =>
            \A j \in DOMAIN page : page[j].id = page[i].id /\ Key(page[j]) # token[c] => page[j].rev < page[i].head
  BY <1>2, <1>4 DEF Meets
<1>6. CacheOK(p) /\ (\A a \in DOMAIN p : Key(p[a]) # token[c]) /\ \A a \in DOMAIN p : \E b \in DOMAIN page : p[a] = page[b]
  <2>1. p \in Seq(Cursor) /\ Part(p, page)
    BY <1>2, WithoutIsPart DEF CacheOK
  <2>2. \A a \in DOMAIN p : Key(p[a]) # token[c]
    BY <1>2, WithoutIsPart DEF CacheOK
  <2>. HIDE DEF p
  <2>. QED  BY <1>2, <2>1, <2>2, PartOK, PartElements
<1>. HIDE DEF p
<1>7. CursorsSound(p) /\ CursorsAt(p, token[c]) = {}
  BY <1>2, <1>6 DEF CursorsSound, CursorsAt
<1>8. RequestSound(Idle, token[c], copy[c]) /\ Meets(p, Idle, token[c], copy[c])
  BY <1>2, <1>7, IdleFits DEF RequestSound, Meets
<1>9. page[i].id \in Live => \A a \in DOMAIN p : p[a].id = page[i].id => p[a].rev < page[i].head
  BY <1>5, <1>6
<1>10. /\ page[i].id <= seq.books /\ Ascending(page[i].items)
       /\ \A a \in DOMAIN page[i].items : page[i].items[a].rev > token[c].rev
       /\ MaxItems > 0 => Len(page[i].items) <= MaxItems
  BY <1>3, <1>4 DEF CursorSound, KnownBook
<1>11. page' = CacheAfter(p, page[i].id, page[i].head, page[i].items, req[c].limit)
  BY <1>1 DEF p
<1>12. s = [id |-> page[i].id, rev |-> PageTokenRevision(page[i].head, page[i].items, req[c].limit)]
       /\ new = Apply(copy[c], Collapsed(Shown(page[i].items, req[c].limit)))
  OBVIOUS
<1>. HIDE DEF s, new
<1>13. /\ CursorsSound(page') /\ Meets(page', Idle, token[c], copy[c])
       /\ RequestSound(Idle, s, new) /\ Meets(page', Idle, s, new)
  BY <1>2, <1>3, <1>5, <1>6, <1>7, <1>8, <1>9, <1>10, <1>11, <1>12, CutSound
<1>14. ClientsSound(page', req', token', copy')
  BY <1>1, <1>2, <1>12, <1>13, AnswerSounds
<1>. QED  BY <1>13, <1>14

LEMMA BuildSound ==
  ASSUME OneClient, SoundInv, ListingsFit, NEW c \in Clients, NEW arrives, Build(c, arrives),
         \A i \in DOMAIN page' : page'[i].rev > 0
  PROVE  CursorsSound(page') /\ ClientsSound(page', req', token', copy')
<1> DEFINE s == [id |-> req[c].id, rev |-> PageTokenRevision(req[c].head, req[c].items, req[c].limit)]
           new == Apply(copy[c], Collapsed(Shown(req[c].items, req[c].limit)))
<1>1. /\ JournalInv /\ ClientsOK /\ CacheOK(page) /\ CursorsSound(page)
      /\ RequestSound(req[c], token[c], copy[c]) /\ Meets(page, req[c], token[c], copy[c])
      /\ token[c] \in Tokens /\ Fits(req[c], token[c]) /\ req[c].limit \in Nat
      /\ req[c].head \in 0 .. MaxRev /\ req[c].items \in Seq(Item)
  BY RequestKnows
<1>2. req[c].pc = "build" /\ req[c].id \in BookIds
  BY <1>1 DEF Build, Fits
<1>3. /\ Respond(c, req[c].id, req[c].head, req[c].items, req[c].limit, arrives)
      /\ page' = CacheAfter(page, req[c].id, req[c].head, req[c].items, req[c].limit)
  BY DEF Build
<1>4. /\ req[c].id <= seq.books /\ Ascending(req[c].items) /\ Serves(req[c].id, req[c].head, req[c].items, copy[c])
      /\ token[c] # NoRow => \A a \in DOMAIN req[c].items : req[c].items[a].rev > token[c].rev
      /\ MaxItems > 0 => Len(req[c].items) <= MaxItems
  BY <1>1, <1>2 DEF RequestSound, KnownBook, ListingsFit
<1>5. RequestSound(Idle, token[c], copy[c]) /\ Meets(page, Idle, token[c], copy[c])
  BY <1>1, IdleFits DEF RequestSound, Meets
<1>6. req[c].id \in Live => \A a \in DOMAIN page : page[a].id = req[c].id => page[a].rev < req[c].head
  BY <1>1, <1>2 DEF Meets
<1>7. token[c] # NoRow /\ Truncated(req[c].items, req[c].limit) => CursorsAt(page, token[c]) = {}
  BY <1>1, <1>2 DEF Meets, Truncated
<1>8. s = [id |-> req[c].id, rev |-> PageTokenRevision(req[c].head, req[c].items, req[c].limit)]
      /\ new = Apply(copy[c], Collapsed(Shown(req[c].items, req[c].limit)))
  OBVIOUS
<1>. HIDE DEF s, new
<1>9. /\ CursorsSound(page') /\ Meets(page', Idle, token[c], copy[c])
      /\ RequestSound(Idle, s, new) /\ Meets(page', Idle, s, new)
  BY <1>1, <1>2, <1>3, <1>4, <1>5, <1>6, <1>7, <1>8, CutSound
<1>10. ClientsSound(page', req', token', copy')
  BY <1>1, <1>3, <1>8, <1>9, AnswerSounds
<1>. QED  BY <1>9, <1>10

\* A listing serves the client its request is from.
LEMMA ListedSound ==
  ASSUME OneClient, SoundInv, NEW c \in Clients, NEW list,
         req[c].pc = "list", Ascending(list), Serves(req[c].id, req[c].head, list, copy[c]),
         token[c] # NoRow => \A a \in DOMAIN list : list[a].rev > token[c].rev,
         req' = [req EXCEPT ![c].pc = "build", ![c].items = list], UNCHANGED <<token, copy>>
  PROVE  ClientsSound(page, req', token', copy')
<1> DEFINE r == [[req[c] EXCEPT !.pc = "build"] EXCEPT !.items = list]
<1>1. /\ ClientsOK /\ req[c] \in Requests
      /\ RequestSound(req[c], token[c], copy[c]) /\ Meets(page, req[c], token[c], copy[c])
  BY RequestKnows
<1>2. r.pc = "build" /\ r.id = req[c].id /\ r.head = req[c].head /\ r.items = list /\ r.limit = req[c].limit
  BY <1>1 DEF Requests
<1>3. req' = [req EXCEPT ![c] = r]
  BY <1>1 DEF ClientsOK
<1>. HIDE DEF r
<1>4. RequestSound(r, token[c], copy[c])
  BY <1>1, <1>2 DEF RequestSound
<1>5. Meets(page, r, token[c], copy[c])
  BY <1>1, <1>2 DEF Meets
<1>6. token' = [token EXCEPT ![c] = token[c]] /\ copy' = [copy EXCEPT ![c] = copy[c]]
  BY <1>1 DEF ClientsOK
<1>7. OneClient /\ c \in Clients
  OBVIOUS
<1>8. ClientsSound(page, req', token', copy')
  BY ONLY <1>1, <1>3, <1>4, <1>5, <1>6, <1>7, MoveSound
<1>. QED  BY <1>8

LEMMA ListAllSound ==
  ASSUME OneClient, SoundInv, NEW c \in Clients, ListAll(c)
  PROVE  ClientsSound(page, req', token', copy')
<1> DEFINE list == ListCurrentCardSyncStates(req[c].id)
<1>1. /\ StoreOK /\ ClientsOK /\ Fits(req[c], token[c]) /\ req[c].head \in 0 .. MaxRev
      /\ RequestSound(req[c], token[c], copy[c]) /\ LastPositive
  BY RequestKnows DEF SoundInv
<1>2. /\ req[c].pc = "list" /\ token[c] = NoRow /\ copy[c] = Nothing /\ req[c].id \in BookIds
      /\ req[c].id \in Live => req[c].head <= books[req[c].id].revision
  BY <1>1 DEF ListAll, RequestSound, KnownBook, Fits
<1>3. Ascending(list) /\ Serves(req[c].id, req[c].head, list, Nothing)
  BY <1>1, <1>2, CurrentServes
<1>4. req' = [req EXCEPT ![c].pc = "build", ![c].items = list] /\ UNCHANGED <<token, copy>>
  BY DEF ListAll
<1>. HIDE DEF list
<1>5. Serves(req[c].id, req[c].head, list, copy[c])
  BY <1>2, <1>3
<1>. QED  BY <1>2, <1>3, <1>4, <1>5, ListedSound

LEMMA ListChangesSound ==
  ASSUME OneClient, SoundInv, NEW c \in Clients, ListChanges(c)
  PROVE  ClientsSound(page, req', token', copy')
<1> DEFINE list == ListCardChangesSince(req[c].id, token[c].rev)
<1>1. /\ StoreOK /\ ClientsOK /\ Fits(req[c], token[c]) /\ req[c].head \in 0 .. MaxRev
      /\ RequestSound(req[c], token[c], copy[c]) /\ RowOwners /\ NoHoles
      /\ token[c] # NoRow => token[c] \in Token /\ token[c].rev \in Nat /\ token[c].id \in BookIds
  BY RequestKnows DEF SoundInv
<1>2. /\ req[c].pc = "list" /\ token[c] # NoRow /\ req[c].id \in BookIds /\ req[c].id = token[c].id
      /\ req[c].id \in Live => req[c].head <= books[req[c].id].revision
      /\ Sound(req[c].id, token[c].rev, copy[c]) /\ Window(req[c].id, req[c].head, req[c].started)
  BY <1>1 DEF ListChanges, RequestSound, KnownBook, Fits
<1>3. CASE StartOver(c)
  BY <1>1, <1>3, StartedOverSound
<1>4. CASE ~StartOver(c)
  <2>1. /\ ~(token[c].rev > req[c].head) /\ ~StaleToken(token[c], req[c].head, list)
        /\ req' = [req EXCEPT ![c].pc = "build", ![c].items = list] /\ UNCHANGED <<token, copy>>
    BY <1>4 DEF ListChanges
  <2>2. token[c].rev <= req[c].head
    <3>1. req[c].head \in Nat
      BY <1>1, BoundsAssumption
    <3>. QED  BY <1>1, <1>2, <2>1, <3>1
  <2>3. /\ Ascending(list) /\ Serves(req[c].id, req[c].head, list, copy[c])
        /\ \A a \in DOMAIN list : list[a].rev > token[c].rev
    BY <1>1, <1>2, <2>1, <2>2, ChangesServe
  <2>. HIDE DEF list
  <2>. QED  BY <1>2, <2>1, <2>3, ListedSound
<1>. QED  BY <1>3, <1>4

LEMMA CursorMissSound ==
  ASSUME OneClient, SoundInv, NEW c \in Clients, CursorMiss(c)
  PROVE  ClientsSound(page, req', token', copy')
<1> DEFINE r == [req[c] EXCEPT !.pc = "list"]
<1>1. /\ ClientsOK /\ req[c] \in Requests /\ req[c].pc = "cursor" /\ CursorsAt(page, token[c]) = {}
      /\ RequestSound(req[c], token[c], copy[c]) /\ Meets(page, req[c], token[c], copy[c])
  BY RequestKnows DEF CursorMiss
<1>2. /\ r.pc = "list" /\ r.id = req[c].id /\ r.head = req[c].head /\ r.limit = req[c].limit
      /\ r.started = req[c].started
  BY <1>1 DEF Requests
<1>3. req' = [req EXCEPT ![c] = r]
  BY <1>1 DEF CursorMiss
<1>. HIDE DEF r
<1>4. RequestSound(r, token[c], copy[c])
  BY <1>1, <1>2 DEF RequestSound, InPace
<1>5. Meets(page, r, token[c], copy[c])
  BY <1>1, <1>2 DEF Meets
<1>6. token' = [token EXCEPT ![c] = token[c]] /\ copy' = [copy EXCEPT ![c] = copy[c]]
  BY <1>1 DEF ClientsOK, CursorMiss
<1>7. OneClient /\ c \in Clients
  OBVIOUS
<1>8. ClientsSound(page, req', token', copy')
  BY ONLY <1>1, <1>3, <1>4, <1>5, <1>6, <1>7, MoveSound
<1>. QED  BY <1>8

LEMMA ExpireSound ==
  ASSUME SoundInv, ExpireCursor
  PROVE  CursorsSound(page') /\ ClientsSound(page', req', token', copy')
<1>1. CursorsOK(page) /\ CursorsSound(page) /\ ClientsSound(page, req, token, copy)
  BY DEF SoundInv, SyncInv
<1>2. \A a \in DOMAIN page' : \E b \in DOMAIN page : page'[a] = page[b]
  BY <1>1, TailIsPart, PartElements DEF ExpireCursor, CursorsOK, CacheOK
<1>3. CursorsSound(page')
  BY <1>1, <1>2 DEF CursorsSound
<1>4. ASSUME NEW c \in Clients
      PROVE  RequestSound(req[c], token[c], copy[c]) /\ Meets(page', req[c], token[c], copy[c])
  <2>1. RequestSound(req[c], token[c], copy[c]) /\ Meets(page, req[c], token[c], copy[c])
    BY <1>1 DEF ClientsSound
  <2>2. req[c].pc # "idle" /\ req[c].id \in Live => \A i \in DOMAIN page' : page'[i].id = req[c].id => page'[i].rev < req[c].head
    BY <1>2, <2>1 DEF Meets
  <2>3. CursorsAt(page, token[c]) = {} => CursorsAt(page', token[c]) = {}
    BY <1>2 DEF CursorsAt
  <2>4. ASSUME token[c] # NoRow, NEW i \in CursorsAt(page', token[c])
        PROVE  /\ Serves(page'[i].id, page'[i].head, page'[i].items, copy[c])
               /\ page'[i].id \in Live =>
                    \A j \in DOMAIN page' : page'[j].id = page'[i].id /\ Key(page'[j]) # token[c] => page'[j].rev < page'[i].head
    <3>1. PICK b \in DOMAIN page : page'[i] = page[b]
      BY <1>2 DEF CursorsAt
    <3>2. b \in CursorsAt(page, token[c])
      BY <3>1 DEF CursorsAt
    <3>3. /\ Serves(page[b].id, page[b].head, page[b].items, copy[c])
          /\ page[b].id \in Live =>
                \A j \in DOMAIN page : page[j].id = page[b].id /\ Key(page[j]) # token[c] => page[j].rev < page[b].head
      BY <2>1, <2>4, <3>2 DEF Meets
    <3>. QED  BY <1>2, <3>1, <3>3
  <2>. QED  BY <2>1, <2>2, <2>3, <2>4 DEF Meets
<1>5. ClientsSound(page', req', token', copy')
  BY <1>4 DEF ExpireCursor, ClientsSound
<1>. QED  BY <1>3, <1>5

-----------------------------------------------------------------------------
(* The world's steps, and the theorem *)

LEMMA PaceKept ==
  ASSUME StoreOK, WorldStep, ~WriteCard, ~TimePasses, NEW id \in BookIds, NEW head, KnownBook(id, head)
  PROVE  clock' = clock /\ (id \in Live' => id \in Live /\ books'[id] = books[id])
<1>1. TypeOK /\ JournalInv
  BY DEF StoreOK, JournalInv
<1>2. CASE RemoveCollection
  BY <1>2 DEF RemoveCollection, DeleteAddressbook, RemoveBooks, Live
<1>3. CASE MakeCollection
  <2>1. PICK u \in UserIds, n \in Names : CreateAddressbook(u, Slug, n, TRUE)
    BY <1>3 DEF MakeCollection
  <2>2. clock' = clock /\ \A o \in BookIds : o # NewBookId => books'[o] = books[o]
    BY <1>1, <2>1 DEF CreateAddressbook, TypeOK
  <2>3. id # NewBookId
    <3>1. seq.books \in Nat /\ id \in Nat
      BY <1>1, Revisions, BoundsAssumption DEF BookIds
    <3>. QED  BY <3>1 DEF KnownBook, NewBookId
  <2>. QED  BY <2>2, <2>3 DEF Live
<1>4. CASE PruneByAge \/ PruneByRevisions
  BY <1>4 DEF PruneByAge, PruneCardChangesByAge, PruneByRevisions, PruneCardChangesByMaxRevisions, Live
<1>. QED  BY <1>2, <1>3, <1>4 DEF WorldStep

LEMMA CursorStaysSound ==
  ASSUME StoreOK, StoreOK', WorldStep, NEW id \in BookIds, NEW rev \in Nat, KnownBook(id, rev),
         id \in Live => rev < books[id].revision
  PROVE  id \in Live' => rev < books'[id].revision
<1>. SUFFICES ASSUME id \in Live' PROVE rev < books'[id].revision
  OBVIOUS
<1>1. id \in Live /\ books[id].revision <= books'[id].revision
  BY KnownGrows DEF Grows
<1>2. books[id].revision \in Nat
  BY <1>1, Revisions DEF StoreOK
<1>3. (JournalInv => /\ \A o \in Live : books[o].revision \in Nat
                     /\ seq.books \in Nat)'
  BY RevisionsTyped, PTL
<1>4. books'[id].revision \in Nat
  BY <1>3 DEF StoreOK
<1>. QED  BY <1>1, <1>2, <1>4

LEMMA WorldKeepsSound ==
  ASSUME SoundInv, SyncInv', WorldStep, Retention = 0 \/ (LockWait = 0 /\ Span <= Retention), Keep = 0 \/ Burst <= Keep
  PROVE  SoundInv'
<1>1. /\ StoreOK /\ StoreOK' /\ JournalInv /\ JournalInv' /\ CursorsOK(page) /\ ClientsOK
      /\ CursorsSound(page) /\ ClientsSound(page, req, token, copy)
  BY DEF SoundInv, SyncInv, StoreOK
<1>2. RowOwners' /\ LastPositive' /\ NoHoles'
  BY <1>1, OwnersKept, HolesKept DEF SoundInv
<1>3. UNCHANGED syncVars /\ page' = page /\ token' = token /\ copy' = copy /\ req' = req
  BY <1>1, WorldIsStore DEF StoreOK, JournalInv, syncVars
<1>4. ASSUME NEW i \in DOMAIN page
      PROVE  /\ page[i].id \in Live' => page[i].id \in Live
             /\ CursorSound(page[i])'
  <2>1. PICK id \in BookIds, rev \in Nat, head \in Nat, items \in Seq(Item) :
           id = page[i].id /\ rev = page[i].rev /\ head = page[i].head /\ items = page[i].items
    BY <1>1, CursorsTyped, BoundsAssumption
  <2>2. CursorSound(page[i])
    BY <1>1 DEF CursorsSound
  <2>3. /\ KnownBook(id, rev) /\ Ascending(items) /\ \A a \in DOMAIN items : items[a].rev > rev
        /\ MaxItems > 0 => Len(items) <= MaxItems
        /\ id \in Live => rev < books[id].revision
    BY <2>1, <2>2 DEF CursorSound
  <2>4. KnownBook(id, rev)' /\ (id \in Live' => id \in Live)
    BY <1>1, <2>3, KnownGrows DEF Grows
  <2>5. id \in Live' => rev < books'[id].revision
    BY <1>1, <2>3, CursorStaysSound
  <2>6. id = page'[i].id /\ rev = page'[i].rev /\ head = page'[i].head /\ items = page'[i].items
    BY <1>3, <2>1
  <2>7. CursorSound(page[i])'
    BY <2>3, <2>4, <2>5, <2>6 DEF CursorSound, KnownBook, Live
  <2>. QED  BY <2>1, <2>4, <2>7
<1>5. ASSUME NEW i \in DOMAIN page, NEW c \in Clients, Serves(page[i].id, page[i].head, page[i].items, copy[c])
      PROVE  Serves(page[i].id, page[i].head, page[i].items, copy[c])'
  <2>1. PICK id \in BookIds, rev \in Nat, head \in Nat, items \in Seq(Item) :
           id = page[i].id /\ rev = page[i].rev /\ head = page[i].head /\ items = page[i].items
    BY <1>1, CursorsTyped, BoundsAssumption
  <2>2. PICK k : k = copy[c]
    OBVIOUS
  <2>3. KnownBook(id, rev) /\ Serves(id, head, items, k)
    BY <1>1, <1>5, <2>1, <2>2 DEF CursorsSound, CursorSound
  <2>4. id \in Live' => Grows(id)
    BY <1>1, <2>3, KnownGrows
  <2>5. Serves(id, head, items, k)'
    BY <1>1, <2>3, <2>4, ServesGrows
  <2>6. id = page'[i].id /\ head = page'[i].head /\ items = page'[i].items /\ k = copy'[c]
    BY <1>3, <2>1, <2>2
  <2>. QED  BY <2>5, <2>6 DEF Serves, Reached, Settled, Tells, RightIn, Live
<1>6. ASSUME NEW c \in Clients PROVE RequestSound(req[c], token[c], copy[c])' /\ Meets(page, req[c], token[c], copy[c])'
  <2>1. /\ RequestSound(req[c], token[c], copy[c]) /\ Meets(page, req[c], token[c], copy[c])
        /\ req[c] \in Requests /\ Fits(req[c], token[c]) /\ req[c].head \in Nat /\ req[c].items \in Seq(Item)
        /\ token[c] # NoRow => token[c].rev \in Nat /\ token[c].id \in BookIds
        /\ req[c].started \in Nat
    <3>1. req[c] \in Requests /\ req[c].started \in 0 .. MaxClock
      BY RequestKnows DEF Requests
    <3>. QED  BY <3>1, RequestKnows, BoundsAssumption
  <2>2. PICK k : k = copy[c]
    OBVIOUS
  <2>3. token[c] # NoRow => KnownBook(token[c].id, token[c].rev)' /\ Sound(token[c].id, token[c].rev, copy[c])'
    <3>. SUFFICES ASSUME token[c] # NoRow
                  PROVE  KnownBook(token[c].id, token[c].rev)' /\ Sound(token[c].id, token[c].rev, copy[c])'
      OBVIOUS
    <3>1. PICK id \in BookIds, rev \in Nat : id = token[c].id /\ rev = token[c].rev
      BY <2>1
    <3>2. KnownBook(id, rev) /\ Sound(id, rev, k)
      BY <2>1, <2>2, <3>1 DEF RequestSound
    <3>3. KnownBook(id, rev)' /\ (id \in Live' => Grows(id))
      BY <1>1, <3>2, KnownGrows
    <3>4. Sound(id, rev, k)'
      BY <1>1, <3>2, <3>3, SoundGrows
    <3>5. id = token'[c].id /\ rev = token'[c].rev /\ k = copy'[c]
      BY <1>3, <2>2, <3>1
    <3>. QED  BY <3>3, <3>4, <3>5 DEF KnownBook, Sound, RightIn, Live
  <2>4. ASSUME req[c].pc # "idle"
        PROVE  KnownBook(req[c].id, req[c].head)' /\ (req[c].id \in Live' => req[c].id \in Live)
    <3>1. PICK id \in BookIds, head \in Nat : id = req[c].id /\ head = req[c].head
      BY <2>1, <2>4 DEF Fits
    <3>2. KnownBook(id, head)' /\ (id \in Live' => id \in Live)
      BY <1>1, <2>1, <2>4, <3>1, KnownGrows DEF RequestSound, Grows
    <3>3. id = req'[c].id /\ head = req'[c].head
      BY <1>3, <3>1
    <3>. QED  BY <3>1, <3>2, <3>3 DEF KnownBook, Live
  <2>5. ASSUME req[c].pc \in {"cursor", "list"}
        PROVE  InPace(req[c])' /\ Window(req[c].id, req[c].head, req[c].started)'
    <3>1. PICK id \in BookIds, head \in Nat, started \in Nat : id = req[c].id /\ head = req[c].head /\ started = req[c].started
      BY <2>1, <2>5 DEF Fits
    <3>2. /\ KnownBook(id, head) /\ Window(id, head, started) /\ started <= clock /\ clock - started <= Span
          /\ id \in Live => books[id].revision - head <= Burst
      BY <2>1, <2>5, <3>1 DEF RequestSound, InPace
    <3>3. Window(id, head, started)' /\ started <= clock'
      BY <1>1, <3>2, WindowKept
    <3>4. id = req'[c].id /\ head = req'[c].head /\ started = req'[c].started
      BY <1>3, <3>1
    <3>5. clock' - started <= Span /\ (id \in Live' => books'[id].revision - head <= Burst)
      <4>1. CASE WriteCard \/ TimePasses
        <5>1. Paced'
          BY <4>1 DEF WriteCard, TimePasses
        <5>2. req'[c].pc \in {"cursor", "list"}
          BY <1>3, <2>5
        <5>. QED  BY <3>4, <5>1, <5>2 DEF Paced, Live
      <4>2. CASE ~WriteCard /\ ~TimePasses
        <5>1. clock' = clock /\ (id \in Live' => id \in Live /\ books'[id] = books[id])
          BY <1>1, <3>2, <4>2, PaceKept
        <5>. QED  BY <3>2, <5>1
      <4>. QED  BY <4>1, <4>2
    <3>. QED  BY <3>3, <3>4, <3>5 DEF InPace, Window, Live
  <2>6. ASSUME req[c].pc = "build"
        PROVE  Serves(req[c].id, req[c].head, req[c].items, copy[c])'
    <3>1. PICK id \in BookIds, head \in Nat, items \in Seq(Item) : id = req[c].id /\ head = req[c].head /\ items = req[c].items
      BY <2>1, <2>6 DEF Fits
    <3>2. KnownBook(id, head) /\ Serves(id, head, items, k)
      BY <2>1, <2>2, <2>6, <3>1 DEF RequestSound
    <3>3. Serves(id, head, items, k)'
      BY <1>1, <3>2, KnownGrows, ServesGrows
    <3>4. id = req'[c].id /\ head = req'[c].head /\ items = req'[c].items /\ k = copy'[c]
      BY <1>3, <2>2, <3>1
    <3>. QED  BY <3>3, <3>4 DEF Serves, Reached, Settled, Tells, RightIn, Live
  <2>7. RequestSound(req[c], token[c], copy[c])'
    <3>1. req[c].pc = "build" => /\ Ascending(req[c].items)
                                 /\ token[c] # NoRow => \A a \in DOMAIN req[c].items : req[c].items[a].rev > token[c].rev
      BY <2>1 DEF RequestSound
    <3>2. (token[c] = NoRow => copy[c] = Nothing) /\ (req[c].pc \in {"cursor", "list"} => req[c].pc # "idle")
      BY <2>1 DEF RequestSound
    <3>. QED  BY <1>3, <2>3, <2>4, <2>5, <2>6, <3>1, <3>2 DEF RequestSound, Ascending
  <2>8. Meets(page, req[c], token[c], copy[c])'
    <3>1. req[c].pc # "idle" /\ req[c].id \in Live' => \A i \in DOMAIN page : page[i].id = req[c].id => page[i].rev < req[c].head
      BY <2>1, <2>4 DEF Meets
    <3>2. req[c].pc \in {"list", "build"} /\ req[c].limit > 0 /\ token[c] # NoRow => CursorsAt(page, token[c]) = {}
      BY <2>1 DEF Meets
    <3>3. ASSUME token[c] # NoRow, NEW i \in CursorsAt(page, token[c])
          PROVE  /\ Serves(page[i].id, page[i].head, page[i].items, copy[c])'
                 /\ page[i].id \in Live' =>
                      \A j \in DOMAIN page : page[j].id = page[i].id /\ Key(page[j]) # token[c] => page[j].rev < page[i].head
      <4>1. i \in DOMAIN page
        BY DEF CursorsAt
      <4>2. /\ Serves(page[i].id, page[i].head, page[i].items, copy[c])
            /\ page[i].id \in Live =>
                      \A j \in DOMAIN page : page[j].id = page[i].id /\ Key(page[j]) # token[c] => page[j].rev < page[i].head
        BY <2>1, <3>3 DEF Meets
      <4>. QED  BY <1>4, <1>5, <4>1, <4>2
    <3>. QED  BY <1>3, <3>1, <3>2, <3>3 DEF Meets, CursorsAt, Key
  <2>. QED  BY <2>7, <2>8
<1>. QED  BY <1>1, <1>2, <1>3, <1>4, <1>6 DEF SoundInv, CursorsSound, ClientsSound

LEMMA SoundStays ==
  ASSUME UNCHANGED storeVars, CursorsSound(page'), ClientsSound(page', req', token', copy')
  PROVE  CursorsSound(page)' /\ ClientsSound(page, req, token, copy)'
<1>1. /\ users' = users /\ books' = books /\ cards' = cards /\ changes' = changes /\ seq' = seq /\ clock' = clock /\ last' = last
      /\ Live' = Live
  BY DEF storeVars, Live
<1>2. CursorsSound(page)'
  BY <1>1 DEF CursorsSound, CursorSound, KnownBook
<1>3. ASSUME NEW c \in Clients
      PROVE  RequestSound(req[c], token[c], copy[c])' /\ Meets(page, req[c], token[c], copy[c])'
  <2>1. RequestSound(req'[c], token'[c], copy'[c]) /\ Meets(page', req'[c], token'[c], copy'[c])
    BY DEF ClientsSound
  <2>2. RequestSound(req[c], token[c], copy[c])'
    BY <1>1, <2>1 DEF RequestSound, InPace, KnownBook, Window, Sound, RightIn, Serves, Reached, Settled, Tells
  <2>3. Meets(page, req[c], token[c], copy[c])'
    BY <1>1, <2>1 DEF Meets, Serves, Reached, Settled, Tells, RightIn
  <2>. QED  BY <2>2, <2>3
<1>. QED  BY <1>2, <1>3 DEF ClientsSound

LEMMA SoundStep ==
  ASSUME OneClient, Retention = 0 \/ (LockWait = 0 /\ Span <= Retention), Keep = 0 \/ Burst <= Keep
  PROVE  SoundInv /\ ListingsFit /\ NoCursorAtZero' /\ [SyncNext]_vars => SoundInv'
<1>. SUFFICES ASSUME SoundInv, ListingsFit, NoCursorAtZero', [SyncNext]_vars PROVE SoundInv'
  OBVIOUS
<1>1. /\ SyncInv /\ SyncInv' /\ ClientsOK /\ RowOwners /\ LastPositive /\ NoHoles
      /\ CursorsSound(page) /\ ClientsSound(page, req, token, copy)
  BY SyncStep DEF SoundInv, SyncInv
<1>2. CASE WorldStep
  BY <1>1, <1>2, WorldKeepsSound
<1>3. ASSUME UNCHANGED storeVars, CursorsSound(page'), ClientsSound(page', req', token', copy') PROVE SoundInv'
  <2>1. RowOwners' /\ LastPositive' /\ NoHoles'
    BY <1>1, <1>3 DEF storeVars, RowOwners, LastPositive, NoHoles, LiveChanges, Live, OrderInv, WholeFrom,
                      TimesInOrder, JournalInv, TypeOK, UnusedIdsAreBlank, LastWithinRevision, JournalAgrees
  <2>. QED  BY <1>1, <1>3, <2>1, SoundStays DEF SoundInv
<1>4. \A i \in DOMAIN page' : page'[i].rev > 0
  BY DEF NoCursorAtZero
<1>5. CASE ExpireCursor
  BY <1>3, <1>5, ExpireSound DEF ExpireCursor
<1>6. CASE \E c \in Clients : RequestStep(c)
  <2>1. PICK c \in Clients : RequestStep(c)
    BY <1>6
  <2>2. UNCHANGED storeVars
    BY <2>1 DEF RequestStep, ReadBook, CursorHit, CursorMiss, ListAll, ListChanges, Build
  <2>3. CASE \E limit \in Limits : ReadBook(c, limit)
    <3>1. page' = page
      BY <2>3 DEF ReadBook
    <3>. QED  BY <1>1, <1>3, <2>2, <2>3, <3>1, ReadBookSound
  <2>4. CASE \E arrives \in BOOLEAN : CursorHit(c, arrives)
    BY <1>3, <1>4, <2>2, <2>4, CursorHitSound
  <2>5. CASE CursorMiss(c)
    <3>1. page' = page
      BY <2>5 DEF CursorMiss
    <3>. QED  BY <1>1, <1>3, <2>2, <2>5, <3>1, CursorMissSound
  <2>6. CASE ListAll(c)
    <3>1. page' = page
      BY <2>6 DEF ListAll
    <3>. QED  BY <1>1, <1>3, <2>2, <2>6, <3>1, ListAllSound
  <2>7. CASE ListChanges(c)
    <3>1. page' = page
      BY <2>7 DEF ListChanges
    <3>. QED  BY <1>1, <1>3, <2>2, <2>7, <3>1, ListChangesSound
  <2>8. CASE \E arrives \in BOOLEAN : Build(c, arrives)
    BY <1>3, <1>4, <2>2, <2>8, BuildSound
  <2>. QED  BY <2>1, <2>3, <2>4, <2>5, <2>6, <2>7, <2>8 DEF RequestStep
<1>7. CASE \E c \in Clients : Restart(c)
  <2>1. PICK c \in Clients : Restart(c)
    BY <1>7
  <2>2. UNCHANGED storeVars /\ page' = page /\ StartOver(c)
    BY <2>1 DEF Restart
  <2>3. ClientsSound(page', req', token', copy')
    BY <1>1, <2>2, StartedOverSound
  <2>. QED  BY <1>1, <1>3, <2>2, <2>3
<1>8. CASE UNCHANGED vars
  BY <1>1, <1>3, <1>8 DEF vars, syncVars
<1>. QED  BY <1>2, <1>5, <1>6, <1>7, <1>8 DEF SyncNext, SteadyNext

LEMMA SoundStarts == SyncInit => SoundInv
<1>. SUFFICES ASSUME SyncInit PROVE SoundInv
  OBVIOUS
<1>1. SyncInv /\ StoreOK
  BY SyncStarts DEF SyncInv
<1>2. RowOwners /\ LastPositive
  BY DEF SyncInit, RowOwners, LastPositive, LiveChanges, Nothing, Live
<1>3. NoHoles
  BY <1>1 DEF SyncInit, NoHoles, OrderInv, WholeFrom, TimesInOrder, LiveChanges, StoreOK
<1>4. CursorsSound(page)
  <2>1. page = <<>> /\ DOMAIN <<>> = {}
    BY DEF SyncInit
  <2>. QED  BY <2>1 DEF CursorsSound
<1>5. ClientsSound(page, req, token, copy)
  <2>. SUFFICES ASSUME NEW c \in Clients PROVE RequestSound(req[c], token[c], copy[c]) /\ Meets(page, req[c], token[c], copy[c])
    BY DEF ClientsSound
  <2>1. req[c] = Idle /\ token[c] = NoRow /\ copy[c] = Nothing
    BY DEF SyncInit
  <2>. QED  BY <2>1, NothingSound
<1>. QED  BY <1>1, <1>2, <1>3, <1>4, <1>5 DEF SoundInv

LEMMA SoundSuffices == SoundInv => SyncSound
<1>. SUFFICES ASSUME SoundInv, NEW c \in Clients, token[c] # NoRow, token[c].id \in Live, NEW h \in Hrefs,
                     last[token[c].id][h] <= token[c].rev
              PROVE  InSync(c, h)
  BY DEF SyncSound
<1>1. Sound(token[c].id, token[c].rev, copy[c])
  BY DEF SoundInv, ClientsSound, RequestSound
<1>. QED  BY <1>1 DEF Sound, RightIn, InSync

\* A client that has the cursor cache to itself is never wrong about a card that its token
\* covers, created, changed or deleted: whatever other writers and prunes do between its
\* request's two reads, whatever the cache evicts or lets expire, whichever answers are
\* lost and however often it starts over.  Provided prunes reach back no further than a
\* request lasts, no page of an initial sync ends among the cards whose journal rows are
\* pruned (sync.go:320), and no listing is larger than the whole cache (putCursorLocked).
THEOREM OneClientInSync ==
  ASSUME OneClient, Retention = 0 \/ (LockWait = 0 /\ Span <= Retention), Keep = 0 \/ Burst <= Keep
  PROVE  SyncSpec /\ [](NoCursorAtZero /\ ListingsFit) => []SyncSound
<1>1. SyncInit => SoundInv
  BY SoundStarts
<1>2. SoundInv /\ (NoCursorAtZero /\ ListingsFit) /\ (NoCursorAtZero /\ ListingsFit)' /\ [SyncNext]_vars => SoundInv'
  BY SoundStep
<1>3. SoundInv => SyncSound
  BY SoundSuffices
<1>. QED  BY <1>1, <1>2, <1>3, PTL DEF SyncSpec

\* While the journal has every change, no page ends at revision 0.
LEMMA CutAfterZero ==
  ASSUME NEW p, CacheOK(p), \A i \in DOMAIN p : p[i].rev > 0, NEW id \in BookIds, NEW head \in 0 .. MaxRev,
         NEW items \in Seq(Item), NEW limit \in Nat, NEW from \in Nat, Covers(id, from, head, items)
  PROVE  LET q == CacheAfter(p, id, head, items, limit) IN \A i \in DOMAIN q : q[i].rev > 0
<1> DEFINE q == CacheAfter(p, id, head, items, limit)
           cur == Rest(id, head, items, limit)
<1>1. \A a \in DOMAIN q : (Truncated(items, limit) /\ q[a] = cur) \/ \E b \in DOMAIN p : q[a] = p[b]
  BY CacheAfterOK
<1>2. ASSUME Truncated(items, limit) PROVE cur.rev > 0
  <2>1. cur.rev = items[limit].rev /\ limit \in DOMAIN items
    BY <1>2, PageTokens, Pages DEF Rest
  <2>2. items[limit].rev > from /\ items[limit].rev \in Nat
    BY <2>1, ItemTypes DEF Covers
  <2>. QED  BY <2>1, <2>2
<1>. HIDE DEF q, cur
<1>3. \A i \in DOMAIN q : q[i].rev > 0
  BY <1>1, <1>2
<1>. QED  BY <1>3 DEF q

LEMMA PositiveStep == UpsertInv /\ NoCursorAtZero /\ [SyncNext]_vars => NoCursorAtZero'
<1>. SUFFICES ASSUME UpsertInv, NoCursorAtZero, [SyncNext]_vars PROVE NoCursorAtZero'
  OBVIOUS
<1>1. /\ StoreOK /\ TypeOK /\ UsersKnown /\ CursorsOK(page) /\ CacheOK(page) /\ ClientsOK
      /\ CursorsCover(page) /\ ClientsCover(req, token, copy)
  BY DEF UpsertInv, SyncInv, StoreOK, JournalInv, CursorsOK
<1>2. \A i \in DOMAIN page : page[i].rev > 0
  BY DEF NoCursorAtZero
<1>3. ASSUME page' = page PROVE NoCursorAtZero'
  BY <1>2, <1>3 DEF NoCursorAtZero
<1>4. CASE WorldStep
  BY <1>1, <1>3, <1>4, WorldIsStore DEF syncVars
<1>5. CASE ExpireCursor
  <2>1. \A a \in DOMAIN page' : \E b \in DOMAIN page : page'[a] = page[b]
    BY <1>1, <1>5, TailIsPart, PartElements DEF ExpireCursor, CacheOK
  <2>. QED  BY <1>2, <2>1 DEF NoCursorAtZero
<1>6. ASSUME NEW c \in Clients, RequestStep(c) PROVE NoCursorAtZero'
  <2>1. CASE \E limit \in Limits : ReadBook(c, limit)
    BY <1>3, <2>1 DEF ReadBook
  <2>2. CASE CursorMiss(c) \/ ListAll(c) \/ ListChanges(c)
    BY <1>3, <2>2 DEF CursorMiss, ListAll, ListChanges
  <2>3. CASE \E arrives \in BOOLEAN : CursorHit(c, arrives)
    <3>1. PICK i \in CursorsAt(page, token[c]) :
            page' = CacheAfter(Without(page, token[c]), page[i].id, page[i].head, page[i].items, req[c].limit)
      BY <2>3 DEF CursorHit
    <3>2. /\ page[i].id \in BookIds /\ page[i].rev \in Nat /\ page[i].head \in 0 .. MaxRev /\ page[i].items \in Seq(Item)
          /\ req[c].limit \in Nat /\ i \in DOMAIN page
      BY <1>1, CursorsTyped, RequestTyped, BoundsAssumption DEF CursorsAt
    <3>3. Covers(page[i].id, page[i].rev, page[i].head, page[i].items)
      BY <1>1, <3>2 DEF CursorsCover, CursorCovers
    <3>4. Without(page, token[c]) \in Seq(Cursor) /\ Part(Without(page, token[c]), page)
      BY <1>1, WithoutIsPart DEF CacheOK
    <3>5. CacheOK(Without(page, token[c])) /\ \A a \in DOMAIN Without(page, token[c]) : Without(page, token[c])[a].rev > 0
      BY <1>1, <1>2, <3>4, PartOK, PartElements
    <3>6. \A a \in DOMAIN page' : page'[a].rev > 0
      BY <3>1, <3>2, <3>3, <3>5, CutAfterZero
    <3>. QED  BY <3>6 DEF NoCursorAtZero
  <2>4. CASE \E arrives \in BOOLEAN : Build(c, arrives)
    <3>1. /\ page' = CacheAfter(page, req[c].id, req[c].head, req[c].items, req[c].limit)
          /\ req[c].pc = "build"
      BY <2>4 DEF Build
    <3>2. /\ req[c].id \in BookIds /\ req[c].head \in 0 .. MaxRev /\ req[c].items \in Seq(Item)
          /\ req[c].limit \in Nat /\ token[c] \in Tokens
      BY <1>1, <3>1, RequestTyped DEF Fits
    <3>3. Since(token[c]) \in Nat
      BY <3>2, BoundsAssumption DEF Tokens, Token, Since
    <3>4. Covers(req[c].id, Since(token[c]), req[c].head, req[c].items)
      BY <1>1, <3>1 DEF ClientsCover, ClientCovers
    <3>5. \A a \in DOMAIN page' : page'[a].rev > 0
      BY <1>1, <1>2, <3>1, <3>2, <3>3, <3>4, CutAfterZero
    <3>. QED  BY <3>5 DEF NoCursorAtZero
  <2>. QED  BY <1>6, <2>1, <2>2, <2>3, <2>4 DEF RequestStep
<1>7. CASE \E c \in Clients : Restart(c)
  BY <1>3, <1>7 DEF Restart
<1>8. CASE UNCHANGED vars
  BY <1>3, <1>8 DEF vars, syncVars
<1>. QED  BY <1>4, <1>5, <1>6, <1>7, <1>8 DEF SyncNext, SteadyNext

\* Where nothing is pruned the first of these conditions is met by itself: one client is
\* never wrong about a card that its token covers, as long as every listing fits the cache.
THEOREM OneClientUnpruned ==
  ASSUME OneClient, Keep = 0, Retention = 0
  PROVE  SyncSpec /\ []ListingsFit => []SyncSound
<1>1. SyncInit => UpsertInv /\ NoCursorAtZero
  <2>. SUFFICES ASSUME SyncInit PROVE NoCursorAtZero
    BY UpsertStarts
  <2>1. page = <<>> /\ DOMAIN <<>> = {}
    BY DEF SyncInit
  <2>. QED  BY <2>1 DEF NoCursorAtZero
<1>2. UpsertInv /\ NoCursorAtZero /\ [SyncNext]_vars => UpsertInv' /\ NoCursorAtZero'
  BY UpsertStep, PositiveStep
<1>3. SyncSpec => []NoCursorAtZero
  BY <1>1, <1>2, PTL DEF SyncSpec
<1>4. SyncSpec /\ [](NoCursorAtZero /\ ListingsFit) => []SyncSound
  BY OneClientInSync
<1>. QED  BY <1>3, <1>4, PTL
=============================================================================
