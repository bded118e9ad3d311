--------------------------- MODULE KVTablesProofs ---------------------------
(***************************************************************************)
(* What the methods of the block pool and of the block tables do, for      *)
(* every number and size of blocks, every set of tokens and salts, and     *)
(* pools and tables of any contents.  The proofs about BlockManager and    *)
(* about the KV cache share these facts.                                   *)
(***************************************************************************)
EXTENDS KVTables, SharedProofs, FiniteSetTheorems

-----------------------------------------------------------------------------
(* The parts of the invariant that speak of a pool alone.                  *)

FreeOK(p) ==
  /\ FreeSet(p) = {b \in Blocks : p.refCounts[b] = 0}
  /\ \A i, j \in 1 .. Len(p.free) : p.free[i] = p.free[j] => i = j

IndexOK(p) ==
  /\ \A k \in DOMAIN p.prefixes : p.keys[p.prefixes[k]] = k
  /\ \A b \in Blocks : p.keys[b] # NoKey =>
       /\ p.keys[b] \in DOMAIN p.prefixes
       /\ p.prefixes[p.keys[b]] = b

OrderOK(p) ==
  \A i, j \in 1 .. Len(p.free) :
    i < j /\ p.keys[p.free[i]] # NoKey => p.keys[p.free[j]] # NoKey

\* The exported counter agrees with the counts, so it never goes below zero.
Multiply(p) == {b \in Blocks : p.refCounts[b] > 1}
SharedOK(p) == p.shared = Cardinality(Multiply(p))

\* K is the set of the keys a block may be published under.
PoolOK(p, K) ==
  /\ NoKey \notin K
  /\ p \in PoolType(K)
  /\ FreeOK(p) /\ IndexOK(p) /\ OrderOK(p) /\ SharedOK(p)

\* The pool has finitely many blocks.
LEMMA BlocksFinite == IsFiniteSet(Blocks)
  BY FS_Interval, NumBlocksAssumption DEF Blocks

\* Finitely many blocks are referenced more than once.
LEMMA MultiplyFinite == \A p : IsFiniteSet(Multiply(p)) /\ Cardinality(Multiply(p)) \in Nat
<1> SUFFICES ASSUME NEW p PROVE IsFiniteSet(Multiply(p)) /\ Cardinality(Multiply(p)) \in Nat
  OBVIOUS
<1>1. Multiply(p) \subseteq Blocks
  BY DEF Multiply
<1> QED BY <1>1, BlocksFinite, FS_Subset, FS_CardinalityType

\* A new pool is consistent.
LEMMA EmptyPoolOK == ASSUME NEW K, NoKey \notin K PROVE PoolOK(EmptyPool, K)
<1>1. EmptyPool \in PoolType(K)
  <2>1. EmptyIndex \in [{} -> Blocks]
    BY DEF EmptyIndex
  <2>2. EmptyIndex \in UNION {[S -> Blocks] : S \in SUBSET K}
    BY <2>1
  <2>3. [i \in 1 .. NumBlocks |-> i - 1] \in Seq(Blocks)
    BY NumBlocksAssumption DEF Blocks
  <2> QED BY <2>2, <2>3 DEF EmptyPool, PoolType
<1>2. FreeOK(EmptyPool)
  <2>1. Len(EmptyPool.free) = NumBlocks
    BY NumBlocksAssumption DEF EmptyPool
  <2>2. \A i \in 1 .. NumBlocks : EmptyPool.free[i] = i - 1
    BY DEF EmptyPool
  <2>3. FreeSet(EmptyPool) = Blocks
    <3>1. ASSUME NEW b \in Blocks PROVE b + 1 \in 1 .. NumBlocks /\ (b + 1) - 1 = b
      BY NumBlocksAssumption DEF Blocks
    <3>2. ASSUME NEW i \in 1 .. NumBlocks PROVE i - 1 \in Blocks
      BY NumBlocksAssumption DEF Blocks
    <3>3. FreeSet(EmptyPool) \subseteq Blocks
      BY <2>1, <2>2, <3>2 DEF FreeSet
    <3>4. ASSUME NEW b \in Blocks PROVE b \in FreeSet(EmptyPool)
      BY <2>1, <2>2, <3>1 DEF FreeSet
    <3> QED BY <3>3, <3>4
  <2> QED BY <2>1, <2>2, <2>3, NumBlocksAssumption DEF FreeOK, EmptyPool
<1>3. IndexOK(EmptyPool)
  BY DEF IndexOK, EmptyPool, EmptyIndex
<1>4. OrderOK(EmptyPool)
  <2>1. Len(EmptyPool.free) = NumBlocks
    BY NumBlocksAssumption DEF EmptyPool
  <2>2. \A i \in 1 .. NumBlocks : EmptyPool.free[i] \in Blocks
    BY NumBlocksAssumption DEF EmptyPool, Blocks
  <2> QED BY <2>1, <2>2 DEF OrderOK, EmptyPool
<1>5. SharedOK(EmptyPool)
  <2>1. Multiply(EmptyPool) = {} /\ EmptyPool.shared = 0
    BY DEF Multiply, EmptyPool
  <2> QED BY <2>1, FS_EmptySet DEF SharedOK
<1> QED BY <1>1, <1>2, <1>3, <1>4, <1>5 DEF PoolOK

\* allocate keeps the pool consistent and hands out unreferenced blocks.
LEMMA AllocatedOK ==
  ASSUME NEW K, NEW p, PoolOK(p, K), NEW count \in Nat, CanAllocate(p, count)
  PROVE  /\ PoolOK(Allocated(p, count), K)
         /\ Taken(p, count) \subseteq Blocks
         /\ \A b \in Taken(p, count) : p.refCounts[b] = 0
<1> DEFINE q == Allocated(p, count)
           T == Taken(p, count)
           gone == {p.keys[b] : b \in T}
           n == Len(p.free)
<1>0. NoKey \notin K /\ p \in PoolType(K) /\ FreeOK(p) /\ IndexOK(p) /\ OrderOK(p) /\ SharedOK(p)
  BY DEF PoolOK
<1>1. /\ p.free \in Seq(Blocks) /\ n \in Nat /\ count <= n
      /\ p.keys \in [Blocks -> K \cup {NoKey}]
      /\ p.refCounts \in [Blocks -> Nat]
      /\ p.shared \in Nat
  BY <1>0 DEF PoolType, CanAllocate
<1>2. /\ DOMAIN p.prefixes \subseteq K
      /\ \A k \in DOMAIN p.prefixes : p.prefixes[k] \in Blocks
  BY <1>0 DEF PoolType
<1>3. /\ q.refCounts = [b \in Blocks |-> IF b \in T THEN 1 ELSE p.refCounts[b]]
      /\ q.free = SubSeq(p.free, count + 1, n)
      /\ q.keys = [b \in Blocks |-> IF b \in T THEN NoKey ELSE p.keys[b]]
      /\ q.prefixes = [k \in DOMAIN p.prefixes \ gone |-> p.prefixes[k]]
      /\ q.shared = p.shared
  BY DEF Allocated
<1>4. T \subseteq Blocks
  BY <1>1 DEF Taken
<1>5. \A b \in T : p.refCounts[b] = 0
  <2>1. T \subseteq FreeSet(p)
    BY <1>1 DEF Taken, FreeSet
  <2> QED BY <2>1, <1>0 DEF FreeOK
<1>6. /\ q.free \in Seq(Blocks) /\ Len(q.free) = n - count
      /\ \A i \in 1 .. n - count : q.free[i] = p.free[count + i]
  BY <1>1, <1>3
<1>7. \A i \in 1 .. n - count : count + i \in 1 .. n /\ q.free[i] \in Blocks
  BY <1>1, <1>6
<1>8. \A i \in 1 .. n - count : q.free[i] \notin T
  <2> SUFFICES ASSUME NEW i \in 1 .. n - count, q.free[i] \in T PROVE FALSE
    OBVIOUS
  <2>1. PICK j \in 1 .. count : p.free[j] = q.free[i]
    BY DEF Taken
  <2>2. j \in 1 .. n /\ count + i \in 1 .. n /\ j # count + i
    BY <1>1, SMTT(30)
  <2> QED BY <2>1, <2>2, <1>0, <1>6 DEF FreeOK
<1>9. q \in PoolType(K)
  <2>1. q.prefixes \in [DOMAIN p.prefixes \ gone -> Blocks]
    BY <1>2, <1>3
  <2>2. q.prefixes \in UNION {[S -> Blocks] : S \in SUBSET K}
    BY <1>2, <2>1
  <2>3. q.refCounts \in [Blocks -> Nat] /\ q.keys \in [Blocks -> K \cup {NoKey}]
    BY <1>1, <1>3
  <2> QED BY <2>2, <2>3, <1>1, <1>3, <1>6 DEF PoolType, Allocated
<1>10. FreeOK(q)
  <2>1. FreeSet(q) \subseteq {b \in Blocks : q.refCounts[b] = 0}
    <3> SUFFICES ASSUME NEW i \in 1 .. n - count
                 PROVE  q.free[i] \in Blocks /\ q.refCounts[q.free[i]] = 0
      BY <1>6 DEF FreeSet
    <3>1. p.free[count + i] \in FreeSet(p)
      BY <1>7 DEF FreeSet
    <3> QED BY <3>1, <1>0, <1>3, <1>6, <1>7, <1>8 DEF FreeOK
  <2>2. ASSUME NEW b \in Blocks, q.refCounts[b] = 0 PROVE b \in FreeSet(q)
    <3>1. b \notin T /\ p.refCounts[b] = 0
      BY <2>2, <1>3
    <3>2. PICK i \in 1 .. n : p.free[i] = b
      BY <3>1, <1>0 DEF FreeOK, FreeSet
    <3>3. i \notin 1 .. count
      BY <3>1, <3>2 DEF Taken
    <3>4. i - count \in 1 .. n - count /\ count + (i - count) = i
      BY <3>3, <1>1
    <3>5. q.free[i - count] = b
      BY <3>2, <3>4, <1>6
    <3> QED BY <3>4, <3>5, <1>6 DEF FreeSet
  <2>3. ASSUME NEW i \in 1 .. n - count, NEW j \in 1 .. n - count, q.free[i] = q.free[j]
        PROVE  i = j
    <3>1. p.free[count + i] = p.free[count + j]
      BY <2>3, <1>6
    <3>2. count + i = count + j
      BY <3>1, <1>0, <1>7 DEF FreeOK
    <3> QED BY <3>2, <1>1
  <2> QED BY <2>1, <2>2, <2>3, <1>6 DEF FreeOK
<1>11. IndexOK(q)
  <2>1. ASSUME NEW k \in DOMAIN q.prefixes PROVE q.keys[q.prefixes[k]] = k
    <3>1. k \in DOMAIN p.prefixes /\ k \notin gone /\ q.prefixes[k] = p.prefixes[k]
      BY <1>3
    <3>2. p.keys[p.prefixes[k]] = k /\ p.prefixes[k] \in Blocks
      BY <3>1, <1>0, <1>2 DEF IndexOK
    <3>3. p.prefixes[k] \notin T
      BY <3>1, <3>2
    <3> QED BY <3>1, <3>2, <3>3, <1>3
  <2>2. ASSUME NEW b \in Blocks, q.keys[b] # NoKey
        PROVE  q.keys[b] \in DOMAIN q.prefixes /\ q.prefixes[q.keys[b]] = b
    <3>1. b \notin T /\ q.keys[b] = p.keys[b]
      BY <2>2, <1>3
    <3>2. p.keys[b] \in DOMAIN p.prefixes /\ p.prefixes[p.keys[b]] = b
      BY <2>2, <3>1, <1>0 DEF IndexOK
    <3>3. p.keys[b] \notin gone
      <4> SUFFICES ASSUME NEW c \in T, p.keys[c] = p.keys[b] PROVE FALSE
        OBVIOUS
      <4>1. p.prefixes[p.keys[c]] = c
        BY <1>0, <1>4, <2>2, <3>1 DEF IndexOK
      <4> QED BY <4>1, <3>1, <3>2
    <3> QED BY <3>1, <3>2, <3>3, <1>3
  <2> QED BY <2>1, <2>2 DEF IndexOK
<1>12. OrderOK(q)
  <2> SUFFICES ASSUME NEW i \in 1 .. n - count, NEW j \in 1 .. n - count, i < j,
                      q.keys[q.free[i]] # NoKey
               PROVE  q.keys[q.free[j]] # NoKey
    BY <1>6 DEF OrderOK
  <2>1. count + i < count + j
    BY <1>1
  <2>2. ASSUME NEW l \in 1 .. n - count
        PROVE  q.keys[q.free[l]] = p.keys[p.free[count + l]]
    <3>1. q.free[l] \in Blocks /\ q.free[l] \notin T
      BY <1>7, <1>8
    <3>2. q.keys[q.free[l]] = p.keys[q.free[l]]
      BY <3>1, <1>3
    <3> QED BY <3>2, <1>6
  <2>3. count + i \in 1 .. Len(p.free) /\ count + j \in 1 .. Len(p.free)
    BY <1>7
  <2>4. p.keys[p.free[count + i]] # NoKey => p.keys[p.free[count + j]] # NoKey
    BY <2>1, <2>3, <1>0 DEF OrderOK
  <2> QED BY <2>2, <2>4
<1>13. SharedOK(q)
  <2>1. Multiply(q) = Multiply(p)
    BY <1>1, <1>3, <1>5 DEF Multiply
  <2> QED BY <1>0, <1>3, <2>1 DEF SharedOK
<1> QED BY <1>0, <1>4, <1>5, <1>9, <1>10, <1>11, <1>12, <1>13 DEF PoolOK

-----------------------------------------------------------------------------
(* The list without one of its blocks.                                     *)

\* Removing the only occurrence of an element closes the gap and keeps the order.
LEMMA WithoutProperties ==
  ASSUME NEW s \in Seq(Blocks), NEW b \in Blocks,
         \A i, j \in 1 .. Len(s) : s[i] = s[j] => i = j,
         NEW m \in 1 .. Len(s), s[m] = b
  PROVE  /\ Without(s, b) \in Seq(Blocks)
         /\ Len(Without(s, b)) = Len(s) - 1
         /\ \A i \in 1 .. Len(s) - 1 :
              Without(s, b)[i] = IF i < m THEN s[i] ELSE s[i + 1]
<1>1. (CHOOSE i \in 1 .. Len(s) : s[i] = b) = m
  OBVIOUS
<1>2. Without(s, b) = SubSeq(s, 1, m - 1) \o SubSeq(s, m + 1, Len(s))
  BY <1>1 DEF Without
<1> DEFINE l == SubSeq(s, 1, m - 1)
           r == SubSeq(s, m + 1, Len(s))
<1>3. /\ l \in Seq(Blocks) /\ Len(l) = m - 1
      /\ \A i \in 1 .. m - 1 : l[i] = s[i]
  OBVIOUS
<1>4. /\ r \in Seq(Blocks) /\ Len(r) = Len(s) - m
      /\ \A i \in 1 .. Len(s) - m : r[i] = s[m + i]
  OBVIOUS
<1> HIDE DEF l, r
<1>5. l \o r \in Seq(Blocks) /\ Len(l \o r) = Len(s) - 1
  <2>0. l \in Seq(Blocks) /\ r \in Seq(Blocks)
    BY <1>3, <1>4
  <2>1. Len(l \o r) = Len(l) + Len(r)
    BY <2>0
  <2>2. Len(s) \in Nat /\ m \in Nat
    OBVIOUS
  <2> QED BY <1>3, <1>4, <2>1, <2>2
<1>6. ASSUME NEW i \in 1 .. Len(s) - 1
      PROVE  (l \o r)[i] = IF i < m THEN s[i] ELSE s[i + 1]
  <2>1. CASE i < m
    BY <1>3, <1>4, <2>1
  <2>2. CASE ~(i < m)
    <3>1. (l \o r)[i] = r[i - (m - 1)] /\ i - (m - 1) \in 1 .. Len(s) - m
      BY <1>3, <1>4, <2>2
    <3>2. m + (i - (m - 1)) = i + 1
      OBVIOUS
    <3> QED BY <3>1, <3>2, <1>4, <2>2
  <2> QED BY <2>1, <2>2
<1> QED BY <1>2, <1>5, <1>6 DEF l, r

\* retain keeps the pool consistent, and takes a cached block off the free list.
LEMMA RetainedOK ==
  ASSUME NEW K, NEW p, PoolOK(p, K), NEW b \in Blocks
  PROVE  PoolOK(Retained(p, b), K)
<1> DEFINE q == Retained(p, b)
           n == Len(p.free)
<1>0. NoKey \notin K /\ p \in PoolType(K) /\ FreeOK(p) /\ IndexOK(p) /\ OrderOK(p) /\ SharedOK(p)
  BY DEF PoolOK
<1>1. /\ p.free \in Seq(Blocks) /\ n \in Nat
      /\ p.refCounts \in [Blocks -> Nat]
      /\ p.shared \in Nat
  BY <1>0 DEF PoolType
<1>2. /\ q.refCounts = [p.refCounts EXCEPT ![b] = @ + 1]
      /\ q.free = IF p.refCounts[b] = 0 THEN Without(p.free, b) ELSE p.free
      /\ q.keys = p.keys
      /\ q.prefixes = p.prefixes
      /\ q.shared = IF p.refCounts[b] = 1 THEN p.shared + 1 ELSE p.shared
  BY DEF Retained
<1>3. IndexOK(q)
  BY <1>0, <1>2 DEF IndexOK
<1>s. SharedOK(q)
  <2>1. CASE p.refCounts[b] = 1
    <3>1. Multiply(q) = Multiply(p) \cup {b} /\ b \notin Multiply(p)
      BY <1>1, <1>2, <2>1 DEF Multiply
    <3>2. Cardinality(Multiply(p) \cup {b}) = Cardinality(Multiply(p)) + 1
      BY <3>1, MultiplyFinite, FS_AddElement
    <3> QED BY <1>0, <1>2, <2>1, <3>1, <3>2 DEF SharedOK
  <2>2. CASE p.refCounts[b] # 1
    <3>1. Multiply(q) = Multiply(p)
      BY <1>1, <1>2, <2>2 DEF Multiply
    <3> QED BY <1>0, <1>2, <2>2, <3>1 DEF SharedOK
  <2> QED BY <2>1, <2>2
<1>4. CASE p.refCounts[b] # 0
  <2>1. q.free = p.free
    BY <1>2, <1>4
  <2>2. q \in PoolType(K)
    BY <1>0, <1>1, <1>2, <2>1 DEF PoolType, Retained
  <2>3. \A c \in Blocks : (q.refCounts[c] = 0) <=> (p.refCounts[c] = 0)
    BY <1>1, <1>2, <1>4
  <2>4. FreeOK(q)
    BY <1>0, <2>1, <2>3 DEF FreeOK, FreeSet
  <2>5. OrderOK(q)
    BY <1>0, <1>2, <2>1 DEF OrderOK
  <2> QED BY <1>0, <1>3, <1>s, <2>2, <2>4, <2>5 DEF PoolOK
<1>5. CASE p.refCounts[b] = 0
  <2>1. PICK m \in 1 .. n : p.free[m] = b
    BY <1>0, <1>5 DEF FreeOK, FreeSet
  <2>2. /\ q.free \in Seq(Blocks) /\ Len(q.free) = n - 1
        /\ \A i \in 1 .. n - 1 : q.free[i] = IF i < m THEN p.free[i] ELSE p.free[i + 1]
    <3>1. \A i, j \in 1 .. Len(p.free) : p.free[i] = p.free[j] => i = j
      BY <1>0 DEF FreeOK
    <3>2. /\ Without(p.free, b) \in Seq(Blocks)
          /\ Len(Without(p.free, b)) = Len(p.free) - 1
          /\ \A i \in 1 .. Len(p.free) - 1 :
               Without(p.free, b)[i] = IF i < m THEN p.free[i] ELSE p.free[i + 1]
      BY <1>1, <2>1, <3>1, WithoutProperties
    <3>3. q.free = Without(p.free, b)
      BY <1>2, <1>5
    <3> QED BY <3>2, <3>3
  <2> DEFINE at(i) == IF i < m THEN i ELSE i + 1
  <2>3. ASSUME NEW i \in 1 .. n - 1
        PROVE  at(i) \in 1 .. n /\ at(i) # m /\ q.free[i] = p.free[at(i)]
    <3>1. n \in Nat /\ m \in 1 .. n /\ i \in 1 .. n - 1
      BY <1>1, <2>1
    <3>2. at(i) \in 1 .. n /\ at(i) # m
      BY <3>1
    <3>3. q.free[i] = p.free[at(i)]
      BY <2>2
    <3> QED BY <3>2, <3>3
  <2>4. ASSUME NEW i \in 1 .. n - 1, NEW j \in 1 .. n - 1
        PROVE  (at(i) = at(j) => i = j) /\ (i < j => at(i) < at(j))
    BY <1>1, <2>1
  <2>5. ASSUME NEW i \in 1 .. n, i # m
        PROVE  \E j \in 1 .. n - 1 : at(j) = i
    <3>1. CASE i < m
      BY <1>1, <2>1, <3>1
    <3>2. CASE i > m
      <4>1. i - 1 \in 1 .. n - 1 /\ at(i - 1) = i
        BY <1>1, <2>1, <3>2
      <4> QED BY <4>1
    <3> QED BY <2>5, <3>1, <3>2
  <2> HIDE DEF at
  <2>6. q \in PoolType(K)
    BY <1>0, <1>1, <1>2, <2>2 DEF PoolType, Retained
  <2>7. FreeSet(q) \subseteq {c \in Blocks : q.refCounts[c] = 0}
    <3> SUFFICES ASSUME NEW i \in 1 .. n - 1
                 PROVE  q.free[i] \in Blocks /\ q.refCounts[q.free[i]] = 0
      BY <2>2 DEF FreeSet
    <3>1. p.free[at(i)] \in FreeSet(p) /\ p.free[at(i)] # b
      BY <1>0, <2>1, <2>3 DEF FreeSet, FreeOK
    <3> QED BY <3>1, <1>0, <1>1, <1>2, <2>3 DEF FreeOK
  <2>8. ASSUME NEW c \in Blocks, q.refCounts[c] = 0 PROVE c \in FreeSet(q)
    <3>1. c # b /\ p.refCounts[c] = 0
      BY <2>8, <1>1, <1>2
    <3>2. PICK i \in 1 .. n : p.free[i] = c
      BY <3>1, <1>0 DEF FreeOK, FreeSet
    <3>3. PICK j \in 1 .. n - 1 : at(j) = i
      BY <2>1, <2>5, <3>1, <3>2
    <3>4. q.free[j] = c
      BY <2>3, <3>2, <3>3
    <3> QED BY <2>2, <3>4 DEF FreeSet
  <2>9. ASSUME NEW i \in 1 .. n - 1, NEW j \in 1 .. n - 1, q.free[i] = q.free[j]
        PROVE  i = j
    <3>1. at(i) = at(j)
      BY <2>3, <2>9, <1>0 DEF FreeOK
    <3> QED BY <3>1, <2>4
  <2>10. FreeOK(q)
    BY <2>2, <2>7, <2>8, <2>9 DEF FreeOK
  <2>11. OrderOK(q)
    <3> SUFFICES ASSUME NEW i \in 1 .. n - 1, NEW j \in 1 .. n - 1, i < j,
                        q.keys[q.free[i]] # NoKey
                 PROVE  q.keys[q.free[j]] # NoKey
      BY <2>2 DEF OrderOK
    <3>1. at(i) < at(j) /\ at(i) \in 1 .. n /\ at(j) \in 1 .. n
      BY <2>3, <2>4
    <3>2. q.free[i] = p.free[at(i)] /\ q.free[j] = p.free[at(j)] /\ q.keys = p.keys
      BY <2>3, <1>2
    <3>3. p.keys[p.free[at(i)]] # NoKey => p.keys[p.free[at(j)]] # NoKey
      BY <3>1, <1>0 DEF OrderOK
    <3> QED BY <3>2, <3>3
  <2> QED BY <1>0, <1>3, <1>s, <2>6, <2>10, <2>11 DEF PoolOK
<1> QED BY <1>4, <1>5

\* Positions of a list that is one longer at its front or at its end.
LEMMA IndexArithmetic ==
  ASSUME NEW n \in Nat
  PROVE  /\ 1 \in 1 .. n + 1 /\ n + 1 \in 1 .. n + 1
         /\ \A i \in 1 .. n + 1 : (i = 1 \/ i - 1 \in 1 .. n) /\ (i = n + 1 \/ i \in 1 .. n)
         /\ \A i \in 1 .. n : /\ i + 1 \in 1 .. n + 1 /\ (i + 1) - 1 = i /\ i + 1 # 1
                             /\ i \in 1 .. n + 1 /\ i # n + 1
  OBVIOUS

\* release keeps the pool consistent, and frees a block at its last reference.
LEMMA ReleasedOK ==
  ASSUME NEW K, NEW p, PoolOK(p, K), NEW b \in Blocks, CanRelease(p, b)
  PROVE  PoolOK(Released(p, b), K)
<1> DEFINE q == Released(p, b)
           n == Len(p.free)
<1>0. NoKey \notin K /\ p \in PoolType(K) /\ FreeOK(p) /\ IndexOK(p) /\ OrderOK(p) /\ SharedOK(p)
  BY DEF PoolOK
<1>1. /\ p.free \in Seq(Blocks) /\ n \in Nat
      /\ p.refCounts \in [Blocks -> Nat] /\ p.refCounts[b] > 0
      /\ p.shared \in Nat
  BY <1>0 DEF PoolType, CanRelease
<1>2. /\ q.refCounts = [p.refCounts EXCEPT ![b] = @ - 1]
      /\ q.free = IF p.refCounts[b] # 1 THEN p.free
                  ELSE IF p.keys[b] = NoKey THEN <<b>> \o p.free ELSE Append(p.free, b)
      /\ q.keys = p.keys
      /\ q.prefixes = p.prefixes
      /\ q.shared = IF p.refCounts[b] = 2 THEN p.shared - 1 ELSE p.shared
  BY DEF Released
<1>3. IndexOK(q)
  BY <1>0, <1>2 DEF IndexOK
<1>s. SharedOK(q) /\ q.shared \in Nat
  <2>1. CASE p.refCounts[b] = 2
    <3>1. Multiply(q) = Multiply(p) \ {b} /\ b \in Multiply(p)
      BY <1>1, <1>2, <2>1 DEF Multiply
    <3>2. Cardinality(Multiply(p) \ {b}) = Cardinality(Multiply(p)) - 1
      BY <3>1, MultiplyFinite, FS_RemoveElement
    <3>3. SharedOK(q)
      BY <1>0, <1>2, <2>1, <3>1, <3>2 DEF SharedOK
    <3> QED BY <3>3, MultiplyFinite DEF SharedOK
  <2>2. CASE p.refCounts[b] # 2
    <3>1. Multiply(q) = Multiply(p)
      BY <1>1, <1>2, <2>2 DEF Multiply
    <3> QED BY <1>0, <1>1, <1>2, <2>2, <3>1 DEF SharedOK
  <2> QED BY <2>1, <2>2
<1>4. q.free \in Seq(Blocks) => q \in PoolType(K)
  <2>1. q.refCounts \in [Blocks -> Nat] /\ q.shared \in Nat
    BY <1>1, <1>2, <1>s
  <2> QED BY <1>0, <1>2, <2>1 DEF PoolType, Released
<1>5. CASE p.refCounts[b] # 1
  <2>1. q.free = p.free
    BY <1>2, <1>5
  <2>2. \A c \in Blocks : (q.refCounts[c] = 0) <=> (p.refCounts[c] = 0)
    BY <1>1, <1>2, <1>5
  <2>3. FreeOK(q)
    BY <1>0, <2>1, <2>2 DEF FreeOK, FreeSet
  <2>4. OrderOK(q)
    BY <1>0, <1>2, <2>1 DEF OrderOK
  <2> QED BY <1>0, <1>1, <1>3, <1>s, <1>4, <2>1, <2>3, <2>4 DEF PoolOK
<1>6. CASE p.refCounts[b] = 1
  <2>1. \A c \in Blocks : (q.refCounts[c] = 0) <=> (p.refCounts[c] = 0 \/ c = b)
    BY <1>1, <1>2, <1>6
  <2>2. \A i \in 1 .. n : p.free[i] \in Blocks /\ p.free[i] # b /\ p.refCounts[p.free[i]] = 0
    <3> SUFFICES ASSUME NEW i \in 1 .. n
                 PROVE  p.free[i] \in Blocks /\ p.refCounts[p.free[i]] = 0
      BY <1>6
    <3>1. p.free[i] \in FreeSet(p)
      BY DEF FreeSet
    <3> QED BY <3>1, <1>0 DEF FreeOK
  <2>3. CASE p.keys[b] = NoKey
    <3>1. q.free = <<b>> \o p.free
      BY <1>2, <1>6, <2>3
    <3>2. /\ q.free \in Seq(Blocks) /\ Len(q.free) = n + 1
          /\ \A i \in 1 .. n + 1 : q.free[i] = IF i = 1 THEN b ELSE p.free[i - 1]
      BY <3>1, <1>1
    <3>3. \A i \in 1 .. n + 1 : i = 1 \/ i - 1 \in 1 .. n
      BY <1>1, IndexArithmetic
    <3>4. \A i \in 1 .. n : i + 1 \in 1 .. n + 1 /\ (i + 1) - 1 = i /\ i + 1 # 1
      BY <1>1, IndexArithmetic
    <3>5. FreeSet(q) \subseteq FreeSet(p) \cup {b}
      <4> SUFFICES ASSUME NEW i \in 1 .. n + 1 PROVE q.free[i] \in FreeSet(p) \cup {b}
        BY <3>2 DEF FreeSet
      <4>1. q.free[i] = b \/ (q.free[i] = p.free[i - 1] /\ i - 1 \in 1 .. n)
        BY <3>2, <3>3
      <4> QED BY <1>1, <4>1 DEF FreeSet
    <3>6. b \in FreeSet(q)
      <4>1. 1 \in 1 .. n + 1 /\ q.free[1] = b
        BY <1>1, <3>2, IndexArithmetic
      <4> QED BY <3>2, <4>1 DEF FreeSet
    <3>7. ASSUME NEW c \in FreeSet(p) PROVE c \in FreeSet(q)
      <4>1. PICK i \in 1 .. n : p.free[i] = c
        BY DEF FreeSet
      <4>2. q.free[i + 1] = c
        BY <3>2, <3>4, <4>1
      <4> QED BY <3>2, <3>4, <4>2 DEF FreeSet
    <3>8. FreeSet(q) = {c \in Blocks : q.refCounts[c] = 0}
      BY <1>0, <2>1, <3>5, <3>6, <3>7 DEF FreeOK
    <3>9. ASSUME NEW i \in 1 .. n + 1, NEW j \in 1 .. n + 1, q.free[i] = q.free[j]
          PROVE  i = j
      <4>1. CASE i = 1 \/ j = 1
        <5>1. \A l \in 1 .. n + 1 : q.free[l] = b => l = 1
          BY <2>2, <3>2, <3>3
        <5>2. q.free[1] = b
          BY <1>1, <3>2, IndexArithmetic
        <5> QED BY <3>9, <4>1, <5>1, <5>2
      <4>2. CASE i # 1 /\ j # 1
        <5>1. p.free[i - 1] = p.free[j - 1]
          BY <3>2, <3>9, <4>2
        <5>2. i - 1 = j - 1
          BY <1>0, <3>3, <4>2, <5>1 DEF FreeOK
        <5> QED BY <1>1, <5>2
      <4> QED BY <4>1, <4>2
    <3>10. FreeOK(q)
      BY <3>2, <3>8, <3>9 DEF FreeOK
    <3>11. OrderOK(q)
      <4> SUFFICES ASSUME NEW i \in 1 .. n + 1, NEW j \in 1 .. n + 1, i < j,
                          q.keys[q.free[i]] # NoKey
                   PROVE  q.keys[q.free[j]] # NoKey
        BY <3>2 DEF OrderOK
      <4>1. i # 1
        BY <1>2, <2>3, <3>2
      <4>2. j # 1 /\ i - 1 < j - 1 /\ i - 1 \in 1 .. Len(p.free) /\ j - 1 \in 1 .. Len(p.free)
        BY <1>1, <3>3, <4>1, SMTT(30)
      <4>3. q.free[i] = p.free[i - 1] /\ q.free[j] = p.free[j - 1] /\ q.keys = p.keys
        BY <1>2, <3>2, <4>1, <4>2
      <4>4. p.keys[p.free[i - 1]] # NoKey => p.keys[p.free[j - 1]] # NoKey
        BY <1>0, <4>2 DEF OrderOK
      <4> QED BY <4>3, <4>4
    <3> QED BY <1>0, <1>3, <1>s, <1>4, <3>2, <3>10, <3>11 DEF PoolOK
  <2>4. CASE p.keys[b] # NoKey
    <3>1. q.free = Append(p.free, b)
      BY <1>2, <1>6, <2>4
    <3>2. /\ q.free \in Seq(Blocks) /\ Len(q.free) = n + 1
          /\ \A i \in 1 .. n + 1 : q.free[i] = IF i = n + 1 THEN b ELSE p.free[i]
      BY <3>1, <1>1
    <3>3. \A i \in 1 .. n + 1 : i = n + 1 \/ i \in 1 .. n
      BY <1>1, IndexArithmetic
    <3>4. \A i \in 1 .. n : i \in 1 .. n + 1 /\ i # n + 1
      BY <1>1, IndexArithmetic
    <3>5. FreeSet(q) \subseteq FreeSet(p) \cup {b}
      BY <3>2, <3>3 DEF FreeSet
    <3>6. b \in FreeSet(q)
      <4>1. n + 1 \in 1 .. n + 1
        BY <1>1, IndexArithmetic
      <4>2. q.free[n + 1] = b
        BY <3>2, <4>1
      <4> QED BY <3>2, <4>1, <4>2 DEF FreeSet
    <3>7. ASSUME NEW c \in FreeSet(p) PROVE c \in FreeSet(q)
      <4>1. PICK i \in 1 .. n : p.free[i] = c
        BY DEF FreeSet
      <4>2. q.free[i] = c
        BY <3>2, <3>4, <4>1
      <4> QED BY <3>2, <3>4, <4>2 DEF FreeSet
    <3>8. FreeSet(q) = {c \in Blocks : q.refCounts[c] = 0}
      BY <1>0, <2>1, <3>5, <3>6, <3>7 DEF FreeOK
    <3>9. ASSUME NEW i \in 1 .. n + 1, NEW j \in 1 .. n + 1, q.free[i] = q.free[j]
          PROVE  i = j
      <4>1. CASE i = n + 1 \/ j = n + 1
        BY <2>2, <3>2, <3>3, <3>9, <4>1
      <4>2. CASE i # n + 1 /\ j # n + 1
        <5>1. p.free[i] = p.free[j] /\ i \in 1 .. Len(p.free) /\ j \in 1 .. Len(p.free)
          BY <3>2, <3>3, <3>9, <4>2
        <5> QED BY <1>0, <5>1 DEF FreeOK
      <4> QED BY <4>1, <4>2
    <3>10. FreeOK(q)
      BY <3>2, <3>8, <3>9 DEF FreeOK
    <3>11. OrderOK(q)
      <4> SUFFICES ASSUME NEW i \in 1 .. n + 1, NEW j \in 1 .. n + 1, i < j,
                          q.keys[q.free[i]] # NoKey
                   PROVE  q.keys[q.free[j]] # NoKey
        BY <3>2 DEF OrderOK
      <4>1. CASE j = n + 1
        BY <1>2, <2>4, <3>2, <4>1
      <4>2. CASE j # n + 1
        <5>1. i \in 1 .. Len(p.free) /\ j \in 1 .. Len(p.free)
          BY <1>1, <4>2, SMTT(30)
        <5>2. q.free[i] = p.free[i] /\ q.free[j] = p.free[j] /\ q.keys = p.keys
          BY <1>2, <3>2, <3>4, <5>1
        <5>3. p.keys[p.free[i]] # NoKey => p.keys[p.free[j]] # NoKey
          BY <1>0, <5>1 DEF OrderOK
        <5> QED BY <5>2, <5>3
      <4> QED BY <4>1, <4>2
    <3> QED BY <1>0, <1>3, <1>s, <1>4, <3>2, <3>10, <3>11 DEF PoolOK
  <2> QED BY <2>3, <2>4
<1> QED BY <1>5, <1>6

\* Indexing a referenced, unindexed block keeps the pool consistent.
LEMMA PublishedOK ==
  ASSUME NEW K, NEW p, PoolOK(p, K), NEW b \in Blocks, NEW key \in K,
         p.keys[b] = NoKey, p.refCounts[b] > 0
  PROVE  PoolOK(Published(p, b, key), K)
<1> DEFINE q == Published(p, b, key)
<1>0. NoKey \notin K /\ p \in PoolType(K) /\ FreeOK(p) /\ IndexOK(p) /\ OrderOK(p) /\ SharedOK(p)
  BY DEF PoolOK
<1>1. CASE key \in DOMAIN p.prefixes
  BY <1>1 DEF Published
<1>2. CASE key \notin DOMAIN p.prefixes
  <2>1. /\ q.refCounts = p.refCounts /\ q.free = p.free /\ q.shared = p.shared
        /\ q.keys = [p.keys EXCEPT ![b] = key]
        /\ q.prefixes = [k \in DOMAIN p.prefixes \cup {key} |-> IF k = key THEN b ELSE p.prefixes[k]]
    BY <1>2 DEF Published
  <2>2. /\ DOMAIN p.prefixes \subseteq K
        /\ \A k \in DOMAIN p.prefixes : p.prefixes[k] \in Blocks
        /\ p.keys \in [Blocks -> K \cup {NoKey}]
        /\ p.free \in Seq(Blocks)
        /\ p.refCounts \in [Blocks -> Nat]
    BY <1>0 DEF PoolType
  <2>3. q \in PoolType(K)
    <3>1. q.prefixes \in [DOMAIN p.prefixes \cup {key} -> Blocks]
      BY <2>1, <2>2
    <3>2. q.prefixes \in UNION {[S -> Blocks] : S \in SUBSET K}
      BY <2>2, <3>1
    <3>3. q.keys \in [Blocks -> K \cup {NoKey}]
      BY <2>1, <2>2
    <3> QED BY <1>0, <1>2, <2>1, <3>2, <3>3 DEF PoolType, Published
  <2>4. FreeOK(q)
    BY <1>0, <2>1 DEF FreeOK, FreeSet
  <2>5. key # NoKey
    BY <1>0
  <2>6. IndexOK(q)
    <3>1. ASSUME NEW k \in DOMAIN q.prefixes PROVE q.keys[q.prefixes[k]] = k
      BY <1>0, <2>1, <2>2, <2>5, <1>0 DEF IndexOK
    <3>2. ASSUME NEW c \in Blocks, q.keys[c] # NoKey
          PROVE  q.keys[c] \in DOMAIN q.prefixes /\ q.prefixes[q.keys[c]] = c
      <4>1. CASE c = b
        BY <2>1, <2>2, <4>1
      <4>2. CASE c # b
        <5>1. q.keys[c] = p.keys[c]
          BY <2>1, <2>2, <4>2
        <5>2. p.keys[c] \in DOMAIN p.prefixes /\ p.prefixes[p.keys[c]] = c
          BY <1>0, <3>2, <5>1 DEF IndexOK
        <5> QED BY <1>2, <2>1, <5>1, <5>2
      <4> QED BY <4>1, <4>2
    <3> QED BY <3>1, <3>2 DEF IndexOK
  <2>7. OrderOK(q)
    <3>1. b \notin FreeSet(p)
      BY <1>0 DEF FreeOK
    <3>2. \A i \in 1 .. Len(p.free) : p.free[i] \in Blocks /\ p.free[i] # b
      BY <2>2, <3>1 DEF FreeSet
    <3>3. \A i \in 1 .. Len(p.free) : q.keys[p.free[i]] = p.keys[p.free[i]]
      BY <2>1, <2>2, <3>2
    <3> QED BY <1>0, <2>1, <3>3 DEF OrderOK
  <2>8. SharedOK(q)
    BY <1>0, <2>1 DEF SharedOK, Multiply
  <2> QED BY <1>0, <2>3, <2>4, <2>6, <2>7, <2>8 DEF PoolOK
<1> QED BY <1>1, <1>2

\* clear_prefixes keeps the pool consistent.
LEMMA ClearedOK ==
  ASSUME NEW K, NEW p, PoolOK(p, K)
  PROVE  PoolOK(Cleared(p), K)
<1> DEFINE q == Cleared(p)
<1>0. NoKey \notin K /\ p \in PoolType(K) /\ FreeOK(p) /\ SharedOK(p)
  BY DEF PoolOK
<1>1. /\ q.refCounts = p.refCounts /\ q.free = p.free /\ q.shared = p.shared
      /\ q.keys = [b \in Blocks |-> NoKey]
      /\ q.prefixes = EmptyIndex
  BY DEF Cleared
<1>2. q \in PoolType(K)
  <2>1. EmptyIndex \in [{} -> Blocks]
    BY DEF EmptyIndex
  <2>2. EmptyIndex \in UNION {[S -> Blocks] : S \in SUBSET K}
    BY <2>1
  <2> QED BY <1>0, <1>1, <2>2 DEF PoolType, Cleared
<1>3. FreeOK(q)
  BY <1>0, <1>1 DEF FreeOK, FreeSet
<1>4. IndexOK(q)
  BY <1>1 DEF IndexOK, EmptyIndex
<1>5. OrderOK(q)
  <2>1. \A i \in 1 .. Len(p.free) : p.free[i] \in Blocks
    BY <1>0 DEF PoolType
  <2> QED BY <1>1, <2>1 DEF OrderOK
<1>6. SharedOK(q)
  BY <1>0, <1>1 DEF SharedOK, Multiply
<1> QED BY <1>0, <1>2, <1>3, <1>4, <1>5, <1>6 DEF PoolOK


-----------------------------------------------------------------------------
(* Loops over the pool.                                                     *)

\* Retaining a list without repetitions adds one reference to each of its blocks.
LEMMA RetainedAllOK ==
  ASSUME NEW K, NEW p, PoolOK(p, K), NEW blocks \in Seq(Blocks), DistinctList(blocks)
  PROVE  LET q == RetainedAll(p, blocks)
         IN  /\ PoolOK(q, K) /\ q.keys = p.keys /\ q.prefixes = p.prefixes
             /\ \A b \in Blocks :
                  q.refCounts[b] = IF Listed(blocks, b) THEN p.refCounts[b] + 1 ELSE p.refCounts[b]
<1> DEFINE n == Len(blocks)
           Seen(i, b) == \E j \in 1 .. i : blocks[j] = b
           After(q, i) ==
             /\ PoolOK(q, K) /\ q.keys = p.keys /\ q.prefixes = p.prefixes
             /\ \A b \in Blocks :
                  q.refCounts[b] = IF Seen(i, b) THEN p.refCounts[b] + 1 ELSE p.refCounts[b]
           S == [i \in 0 .. n |-> {q \in PoolType(K) : After(q, i)}]
           step == [i \in 1 .. n |-> [q \in PoolType(K) |-> Retained(q, blocks[i])]]
           Passes(g) == g = [i \in 0 .. n |-> IF i = 0 THEN p ELSE Retained(g[i - 1], blocks[i])]
<1>1. n \in Nat /\ p \in PoolType(K) /\ p.refCounts \in [Blocks -> Nat]
  BY DEF PoolOK, PoolType
<1>2. p \in S[0]
  BY <1>1
<1>3. ASSUME NEW i \in 1 .. n, NEW q, q \in S[i - 1]
      PROVE  q \in PoolType(K) /\ Retained(q, blocks[i]) \in S[i]
  <2>1. i - 1 \in 0 .. n /\ i \in 0 .. n /\ blocks[i] \in Blocks
    BY <1>1
  <2>2. q \in PoolType(K) /\ After(q, i - 1)
    BY <1>3, <2>1
  <2> DEFINE r == Retained(q, blocks[i])
  <2>3. PoolOK(r, K)
    BY <2>1, <2>2, RetainedOK
  <2>4. /\ r.refCounts = [q.refCounts EXCEPT ![blocks[i]] = @ + 1]
        /\ r.keys = q.keys /\ r.prefixes = q.prefixes
        /\ q.refCounts \in [Blocks -> Nat]
    BY <2>2 DEF Retained, PoolType
  <2>5. ASSUME NEW b \in Blocks
        PROVE  r.refCounts[b] = IF Seen(i, b) THEN p.refCounts[b] + 1 ELSE p.refCounts[b]
    <3>1. CASE b = blocks[i]
      <4>1. Seen(i, b) /\ ~Seen(i - 1, b)
        BY <3>1 DEF DistinctList
      <4> QED BY <2>2, <2>4, <3>1, <4>1
    <3>2. CASE b # blocks[i]
      <4>1. Seen(i, b) <=> Seen(i - 1, b)
        <5>1. \A j \in 1 .. i : j = i \/ j \in 1 .. i - 1
          OBVIOUS
        <5>2. \A j \in 1 .. i - 1 : j \in 1 .. i
          OBVIOUS
        <5> QED BY <3>2, <5>1, <5>2
      <4> QED BY <2>2, <2>4, <3>2, <4>1
    <3> QED BY <3>1, <3>2
  <2> HIDE DEF r
  <2>6. After(r, i)
    BY <2>2, <2>3, <2>4, <2>5
  <2>7. r \in PoolType(K)
    BY <2>3 DEF PoolOK
  <2> QED BY <2>1, <2>2, <2>6, <2>7 DEF r
<1>4. ASSUME NEW i \in 1 .. n, NEW q \in S[i - 1] PROVE step[i][q] \in S[i]
  BY <1>3
<1> HIDE DEF S
<1>5. PICK h : PassesFrom(p, n, step, S, h)
  <2>1. PassesKeep(n, step, S)
    BY <1>4 DEF PassesKeep
  <2> HIDE DEF step, n
  <2> QED BY <1>1, <1>2, <2>1, PassesExist
<1>6. Passes(h)
  <2>1. ASSUME NEW i \in 1 .. n PROVE h[i] = Retained(h[i - 1], blocks[i])
    <3>1. i - 1 \in 0 .. n
      BY <1>1
    <3>2. h[i - 1] \in PoolType(K)
      BY <1>3, <1>5, <3>1 DEF PassesFrom
    <3> QED BY <1>5, <3>2 DEF PassesFrom
  <2>2. \A i \in 0 .. n : i = 0 \/ i \in 1 .. n
    OBVIOUS
  <2> HIDE DEF step, n
  <2> QED BY <1>5, <2>1, <2>2 DEF PassesFrom
<1> DEFINE g == CHOOSE g : Passes(g)
<1>7. Passes(g)
  BY <1>6, Zenon
<1>8. RetainedAll(p, blocks) = g[n]
  BY DEF RetainedAll, Loop
<1> HIDE DEF g
<1>9. /\ g[0] = p
      /\ \A i \in 1 .. n : i \in 0 .. n /\ g[i] = Retained(g[i - 1], blocks[i])
  BY <1>1, <1>7
<1>10. \A i \in 0 .. n : g[i] \in S[i]
  <2>1. \A i \in 1 .. n : g[i - 1] \in S[i - 1] => g[i] \in S[i]
    BY <1>3, <1>9
  <2> HIDE DEF n
  <2> QED BY <1>1, <1>2, <1>9, <2>1, PassesStay
<1>11. g[n] \in S[n] /\ n \in 0 .. n
  BY <1>1, <1>10
<1> QED BY <1>8, <1>11 DEF S, Listed

\* Releasing a list without repetitions takes one reference from each of its blocks.
LEMMA ReleasedAllOK ==
  ASSUME NEW K, NEW p, PoolOK(p, K), NEW blocks \in Seq(Blocks), DistinctList(blocks),
         \A i \in 1 .. Len(blocks) : p.refCounts[blocks[i]] > 0
  PROVE  LET q == ReleasedAll(p, blocks)
         IN  /\ PoolOK(q, K) /\ q.keys = p.keys /\ q.prefixes = p.prefixes
             /\ \A b \in Blocks :
                  q.refCounts[b] = IF Listed(blocks, b) THEN p.refCounts[b] - 1 ELSE p.refCounts[b]
<1> DEFINE n == Len(blocks)
           Seen(i, b) == \E j \in 1 .. i : blocks[j] = b
           After(q, i) ==
             /\ PoolOK(q, K) /\ q.keys = p.keys /\ q.prefixes = p.prefixes
             /\ \A b \in Blocks :
                  q.refCounts[b] = IF Seen(i, b) THEN p.refCounts[b] - 1 ELSE p.refCounts[b]
           S == [i \in 0 .. n |-> {q \in PoolType(K) : After(q, i)}]
           step == [i \in 1 .. n |-> [q \in PoolType(K) |-> Released(q, blocks[i])]]
           Passes(g) == g = [i \in 0 .. n |-> IF i = 0 THEN p ELSE Released(g[i - 1], blocks[i])]
<1>1. n \in Nat /\ p \in PoolType(K) /\ p.refCounts \in [Blocks -> Nat]
  BY DEF PoolOK, PoolType
<1>2. p \in S[0]
  BY <1>1
<1>3. ASSUME NEW i \in 1 .. n, NEW q, q \in S[i - 1]
      PROVE  q \in PoolType(K) /\ Released(q, blocks[i]) \in S[i]
  <2>1. i - 1 \in 0 .. n /\ i \in 0 .. n /\ blocks[i] \in Blocks
    BY <1>1
  <2>2. q \in PoolType(K) /\ After(q, i - 1)
    BY <1>3, <2>1
  <2> DEFINE r == Released(q, blocks[i])
  <2>3. PoolOK(r, K)
    <3>1. ~Seen(i - 1, blocks[i])
      BY DEF DistinctList
    <3>2. CanRelease(q, blocks[i])
      BY <2>1, <2>2, <3>1 DEF CanRelease
    <3> QED BY <2>1, <2>2, <3>2, ReleasedOK
  <2>4. /\ r.refCounts = [q.refCounts EXCEPT ![blocks[i]] = @ - 1]
        /\ r.keys = q.keys /\ r.prefixes = q.prefixes
        /\ q.refCounts \in [Blocks -> Nat]
    BY <2>2 DEF Released, PoolType
  <2>5. ASSUME NEW b \in Blocks
        PROVE  r.refCounts[b] = IF Seen(i, b) THEN p.refCounts[b] - 1 ELSE p.refCounts[b]
    <3>1. CASE b = blocks[i]
      <4>1. Seen(i, b) /\ ~Seen(i - 1, b)
        BY <3>1 DEF DistinctList
      <4> QED BY <2>2, <2>4, <3>1, <4>1
    <3>2. CASE b # blocks[i]
      <4>1. Seen(i, b) <=> Seen(i - 1, b)
        <5>1. \A j \in 1 .. i : j = i \/ j \in 1 .. i - 1
          OBVIOUS
        <5>2. \A j \in 1 .. i - 1 : j \in 1 .. i
          OBVIOUS
        <5> QED BY <3>2, <5>1, <5>2
      <4> QED BY <2>2, <2>4, <3>2, <4>1
    <3> QED BY <3>1, <3>2
  <2> HIDE DEF r
  <2>6. After(r, i)
    BY <2>2, <2>3, <2>4, <2>5
  <2>7. r \in PoolType(K)
    BY <2>3 DEF PoolOK
  <2> QED BY <2>1, <2>2, <2>6, <2>7 DEF r
<1>4. ASSUME NEW i \in 1 .. n, NEW q \in S[i - 1] PROVE step[i][q] \in S[i]
  BY <1>3
<1> HIDE DEF S
<1>5. PICK h : PassesFrom(p, n, step, S, h)
  <2>1. PassesKeep(n, step, S)
    BY <1>4 DEF PassesKeep
  <2> HIDE DEF step, n
  <2> QED BY <1>1, <1>2, <2>1, PassesExist
<1>6. Passes(h)
  <2>1. ASSUME NEW i \in 1 .. n PROVE h[i] = Released(h[i - 1], blocks[i])
    <3>1. i - 1 \in 0 .. n
      BY <1>1
    <3>2. h[i - 1] \in PoolType(K)
      BY <1>3, <1>5, <3>1 DEF PassesFrom
    <3> QED BY <1>5, <3>2 DEF PassesFrom
  <2>2. \A i \in 0 .. n : i = 0 \/ i \in 1 .. n
    OBVIOUS
  <2> HIDE DEF step, n
  <2> QED BY <1>5, <2>1, <2>2 DEF PassesFrom
<1> DEFINE g == CHOOSE g : Passes(g)
<1>7. Passes(g)
  BY <1>6, Zenon
<1>8. ReleasedAll(p, blocks) = g[n]
  BY DEF ReleasedAll, Loop
<1> HIDE DEF g
<1>9. /\ g[0] = p
      /\ \A i \in 1 .. n : i \in 0 .. n /\ g[i] = Released(g[i - 1], blocks[i])
  BY <1>1, <1>7
<1>10. \A i \in 0 .. n : g[i] \in S[i]
  <2>1. \A i \in 1 .. n : g[i - 1] \in S[i - 1] => g[i] \in S[i]
    BY <1>3, <1>9
  <2> HIDE DEF n
  <2> QED BY <1>1, <1>2, <1>9, <2>1, PassesStay
<1>11. g[n] \in S[n] /\ n \in 0 .. n
  BY <1>1, <1>10
<1> QED BY <1>8, <1>11 DEF S, Listed

\* The blocks of a table that are about to be published are used and are not
\* published yet.
Publishable(p, K, state, known, full) ==
  \A i \in known + 1 .. full :
    /\ p.keys[state.blocks[i]] = NoKey /\ p.refCounts[state.blocks[i]] > 0
    /\ PrefixKey(state.salt, state.tokens, i) \in K

\* A block that was published has the key of its place in the table.
PublishedFrom(p, q, state, known, full) ==
  \A b \in Blocks :
    \/ q.keys[b] = p.keys[b]
    \/ \E i \in known + 1 .. full :
         b = state.blocks[i] /\ q.keys[b] = PrefixKey(state.salt, state.tokens, i)

\* Committing indexes exactly the blocks that became full and are not indexed
\* under their prefix yet; nothing else of the pool changes.
LEMMA PublishedUpToOK ==
  ASSUME NEW K, NEW p, PoolOK(p, K), NEW state, state.blocks \in Seq(Blocks),
         DistinctList(state.blocks),
         NEW known \in Nat, NEW full \in Nat, known <= full, full <= Len(state.blocks),
         Publishable(p, K, state, known, full)
  PROVE  LET q == PublishedUpTo(p, state, known, full)
         IN  /\ PoolOK(q, K) /\ q.refCounts = p.refCounts
             /\ PublishedFrom(p, q, state, known, full)
<1> DEFINE n == full - known
           at(i) == state.blocks[known + i]
           key(i) == PrefixKey(state.salt, state.tokens, known + i)
           After(q, i) ==
             /\ PoolOK(q, K) /\ q.refCounts = p.refCounts
             /\ \A b \in Blocks : \/ q.keys[b] = p.keys[b]
                                 \/ \E j \in 1 .. i : b = at(j) /\ q.keys[b] = key(j)
           S == [i \in 0 .. n |-> {q \in PoolType(K) : After(q, i)}]
           step == [i \in 1 .. n |-> [q \in PoolType(K) |-> Published(q, at(i), key(i))]]
           Passes(g) == g = [i \in 0 .. n |-> IF i = 0 THEN p ELSE Published(g[i - 1], at(i), key(i))]
<1>1. n \in Nat /\ p \in PoolType(K)
  BY DEF PoolOK
<1>2. p \in S[0]
  BY <1>1
<1>a. ASSUME NEW i \in 1 .. n
      PROVE  /\ known + i \in known + 1 .. full /\ known + i \in 1 .. Len(state.blocks)
             /\ at(i) \in Blocks /\ p.keys[at(i)] = NoKey /\ p.refCounts[at(i)] > 0 /\ key(i) \in K
             /\ \A j \in 1 .. n : at(i) = at(j) => i = j
  <2>1. /\ known + i \in known + 1 .. full /\ known + i \in 1 .. Len(state.blocks)
        /\ \A j \in 1 .. n : known + j \in 1 .. Len(state.blocks)
    OBVIOUS
  <2>2. \A j \in 1 .. n : at(i) = at(j) => known + i = known + j
    BY <2>1 DEF DistinctList
  <2> QED BY <2>1, <2>2 DEF Publishable
<1>3. ASSUME NEW i \in 1 .. n, NEW q, q \in S[i - 1]
      PROVE  q \in PoolType(K) /\ Published(q, at(i), key(i)) \in S[i]
  <2>1. i - 1 \in 0 .. n /\ i \in 0 .. n
    BY <1>1
  <2>2. q \in PoolType(K) /\ After(q, i - 1)
    BY <1>3, <2>1
  <2> DEFINE r == Published(q, at(i), key(i))
  <2> HIDE DEF at, key, S
  <2>3. PoolOK(r, K)
    <3>1. \A j \in 1 .. i - 1 : at(i) # at(j)
      BY <1>a
    <3>2. q.keys[at(i)] = NoKey
      BY <1>a, <2>2, <3>1
    <3> QED BY <1>a, <2>2, <3>2, PublishedOK
  <2>4. /\ r.refCounts = q.refCounts
        /\ \A b \in Blocks : r.keys[b] = q.keys[b] \/ (b = at(i) /\ r.keys[b] = key(i))
    BY <2>2 DEF Published, PoolType
  <2>5. \A b \in Blocks : \/ r.keys[b] = p.keys[b]
                         \/ \E j \in 1 .. i : b = at(j) /\ r.keys[b] = key(j)
    <3>1. i \in 1 .. i /\ \A j \in 1 .. i - 1 : j \in 1 .. i
      OBVIOUS
    <3> QED BY <2>2, <2>4, <3>1
  <2> HIDE DEF r
  <2>6. After(r, i) /\ r \in PoolType(K)
    BY <2>2, <2>3, <2>4, <2>5 DEF PoolOK
  <2>7. r \in S[i]
    BY <2>1, <2>6 DEF S
  <2> QED BY <2>2, <2>7 DEF r
<1>4. ASSUME NEW i \in 1 .. n, NEW q \in S[i - 1] PROVE step[i][q] \in S[i]
  BY <1>3
<1> HIDE DEF S
<1>5. PICK h : PassesFrom(p, n, step, S, h)
  <2>1. PassesKeep(n, step, S)
    BY <1>4 DEF PassesKeep
  <2> HIDE DEF step, n
  <2> QED BY <1>1, <1>2, <2>1, PassesExist
<1>6. Passes(h)
  <2>1. ASSUME NEW i \in 1 .. n PROVE h[i] = Published(h[i - 1], at(i), key(i))
    <3>1. i - 1 \in 0 .. n
      BY <1>1
    <3>2. h[i - 1] \in PoolType(K)
      BY <1>3, <1>5, <3>1 DEF PassesFrom
    <3> QED BY <1>5, <3>2 DEF PassesFrom
  <2>2. \A i \in 0 .. n : i = 0 \/ i \in 1 .. n
    OBVIOUS
  <2> HIDE DEF step, n, at, key
  <2> QED BY <1>5, <2>1, <2>2 DEF PassesFrom
<1> DEFINE g == CHOOSE g : Passes(g)
<1>7. Passes(g)
  BY <1>6, Zenon
<1>8. PublishedUpTo(p, state, known, full) = g[n]
  BY DEF PublishedUpTo, Loop
<1> HIDE DEF g
<1>9. /\ g[0] = p
      /\ \A i \in 1 .. n : i \in 0 .. n /\ g[i] = Published(g[i - 1], at(i), key(i))
  BY <1>1, <1>7
<1>10. \A i \in 0 .. n : g[i] \in S[i]
  <2>1. \A i \in 1 .. n : g[i - 1] \in S[i - 1] => g[i] \in S[i]
    BY <1>3, <1>9
  <2> HIDE DEF n
  <2> QED BY <1>1, <1>2, <1>9, <2>1, PassesStay
<1>11. After(g[n], n)
  <2>1. g[n] \in S[n] /\ n \in 0 .. n
    BY <1>1, <1>10
  <2> QED BY <2>1 DEF S
<1>12. \A b \in Blocks, i \in 1 .. n : b = at(i) /\ g[n].keys[b] = key(i) =>
         \E j \in known + 1 .. full :
           b = state.blocks[j] /\ g[n].keys[b] = PrefixKey(state.salt, state.tokens, j)
  BY <1>a
<1> QED BY <1>8, <1>11, <1>12 DEF PublishedFrom

-----------------------------------------------------------------------------
(* Positions of tokens and blocks: block i of a table holds the positions   *)
(* from End(i - 1) to End(i) - 1.                                           *)

End(i) == i * BlockSize

\* The ends of successive blocks are BlockSize apart and in order.
LEMMA EndFacts ==
  /\ BlockSize \in Nat \ {0} /\ End(0) = 0
  /\ \A i \in Nat : End(i) \in Nat /\ End(i + 1) = End(i) + BlockSize
  /\ \A i, j \in Nat : /\ i <= j <=> End(i) <= End(j)
                       /\ i < j <=> End(i) + BlockSize <= End(j)
                       /\ End(i) = End(j) <=> i = j
<1>1. BlockSize \in Nat \ {0}
  BY BlockSizeAssumption
<1>2. End(0) = 0 /\ \A i \in Nat : End(i) \in Nat /\ End(i + 1) = End(i) + BlockSize
  BY <1>1 DEF End
<1>3. ASSUME NEW i \in Nat, NEW j \in Nat, i < j PROVE End(i) + BlockSize <= End(j)
  <2>1. End(j) >= End(i) + BlockSize
    BY <1>1, <1>3, OneStepMore DEF End
  <2> QED BY <2>1, <1>1, <1>2
<1>4. ASSUME NEW i \in Nat, NEW j \in Nat
      PROVE  /\ i <= j <=> End(i) <= End(j)
             /\ i < j <=> End(i) + BlockSize <= End(j)
             /\ End(i) = End(j) <=> i = j
  <2>1. CASE i < j
    <3>1. End(i) + BlockSize <= End(j)
      BY <1>3, <2>1
    <3> QED BY <1>1, <1>2, <2>1, <3>1
  <2>2. CASE j < i
    <3>1. End(j) + BlockSize <= End(i)
      BY <1>3, <2>2
    <3> QED BY <1>1, <1>2, <2>2, <3>1
  <2>3. CASE i = j
    BY <1>1, <1>2, <2>3
  <2> QED BY <2>1, <2>2, <2>3
<1> QED BY <1>1, <1>2, <1>4

\* The block and the slot of a position.
LEMMA SlotFacts ==
  ASSUME NEW n \in Nat
  PROVE  LET q == n \div BlockSize
         IN  /\ q \in Nat /\ n % BlockSize \in 0 .. BlockSize - 1
             /\ n = End(q) + (n % BlockSize)
             /\ \A i \in Nat : i <= q <=> End(i) <= n
<1> DEFINE q == n \div BlockSize
           o == n % BlockSize
<1>1. q \in Nat /\ o \in 0 .. BlockSize - 1 /\ n = End(q) + o
  BY QuotientAndRemainder, BlockSizeAssumption DEF End
<1> HIDE DEF q, o
<1>2. ASSUME NEW i \in Nat PROVE i <= q <=> End(i) <= n
  <2>1. CASE i <= q
    <3>1. End(i) <= End(q) /\ End(i) \in Nat /\ End(q) \in Nat
      BY <1>1, <2>1, EndFacts
    <3> QED BY <1>1, <2>1, <3>1, EndFacts
  <2>2. CASE q < i
    <3>1. End(q) + BlockSize <= End(i) /\ End(i) \in Nat /\ End(q) \in Nat
      BY <1>1, <2>2, EndFacts
    <3> QED BY <1>1, <2>2, <3>1, EndFacts
  <2> QED BY <1>1, <2>1, <2>2
<1> QED BY <1>1, <1>2 DEF q, o

\* A position has one block and one offset.
LEMMA SlotIsUnique ==
  ASSUME NEW q \in Nat, NEW o \in 0 .. BlockSize - 1
  PROVE  End(q) + o \in Nat /\ (End(q) + o) \div BlockSize = q /\ (End(q) + o) % BlockSize = o
<1>1. (End(q) + o) \div BlockSize = q /\ (End(q) + o) % BlockSize = o
  BY QuotientIsUnique, BlockSizeAssumption DEF End
<1>2. End(q) \in Nat
  BY EndFacts
<1>3. End(q) + o \in Nat
  BY <1>2, BlockSizeAssumption
<1> QED BY <1>1, <1>3, Zenon

\* The number of blocks that hold n tokens.
LEMMA CeilDivFacts ==
  ASSUME NEW n \in Nat
  PROVE  /\ CeilDiv(n) \in Nat /\ n <= End(CeilDiv(n))
         /\ \A i \in Nat \ {0} : i <= CeilDiv(n) <=> End(i - 1) < n
<1> DEFINE c == CeilDiv(n)
<1>1. c \in Nat /\ n <= End(c) /\ (c # 0 => End(c - 1) < n) /\ (n = 0 => c = 0)
  <2>1. CASE n = 0
    <3>1. (0 * BlockSize + (BlockSize - 1)) \div BlockSize = 0
      BY QuotientIsUnique, BlockSizeAssumption
    <3>2. n + BlockSize - 1 = 0 * BlockSize + (BlockSize - 1)
      BY <2>1, BlockSizeAssumption
    <3>3. c = 0
      BY <3>1, <3>2 DEF CeilDiv
    <3> QED BY <2>1, <3>3, EndFacts
  <2>2. CASE n # 0
    BY <2>2, CoveringParts, BlockSizeAssumption DEF CeilDiv, End
  <2> QED BY <2>1, <2>2
<1> HIDE DEF c
<1>2. ASSUME NEW i \in Nat \ {0} PROVE i <= c <=> End(i - 1) < n
  <2>1. i - 1 \in Nat
    OBVIOUS
  <2>2. CASE i <= c
    <3>1. c # 0 /\ c - 1 \in Nat /\ i - 1 <= c - 1
      BY <1>1, <2>2
    <3>2. End(i - 1) <= End(c - 1) /\ End(i - 1) \in Nat /\ End(c - 1) \in Nat
      BY <2>1, <3>1, EndFacts
    <3> QED BY <1>1, <2>2, <3>1, <3>2
  <2>3. CASE c < i
    <3>1. c <= i - 1
      BY <1>1, <2>3
    <3>2. End(c) <= End(i - 1) /\ End(i - 1) \in Nat /\ End(c) \in Nat
      BY <1>1, <2>1, <3>1, EndFacts
    <3> QED BY <1>1, <2>3, <3>2
  <2> QED BY <1>1, <2>2, <2>3
<1> QED BY <1>1, <1>2 DEF c

-----------------------------------------------------------------------------
(***************************************************************************)
(* The invariant of the block tables, for tokens in T and salts in Z.      *)
(***************************************************************************)

StateType(T, Z) == [blocks : Seq(Blocks), tokens : Seq(T), salt : Z]

\* A table has a block once and covers its tokens, and a published block in it
\* is full and published under the prefix the table has there.
TableOK(keys, state) ==
  /\ DistinctList(state.blocks)
  /\ Len(state.tokens) <= End(Len(state.blocks))
  /\ \A i \in 1 .. Len(state.blocks) : keys[state.blocks[i]] # NoKey =>
       /\ End(i) <= Len(state.tokens)
       /\ keys[state.blocks[i]] = PrefixKey(state.salt, state.tokens, i)

\* Two tables share a block only at the same place and within one salt, and
\* both have tokens in it; if one of them could add a token to it, they are
\* equally long.  (So the block that one of them fills and publishes is never
\* a partly filled block of the other, whose tokens its key would not name.)
Sharing(s, t) ==
  \A i \in 1 .. Len(s.blocks), j \in 1 .. Len(t.blocks) : s.blocks[i] = t.blocks[j] =>
    /\ i = j /\ s.salt = t.salt
    /\ End(i - 1) < Len(s.tokens) /\ End(i - 1) < Len(t.tokens)
    /\ Len(s.tokens) = Len(t.tokens) \/ (End(i) <= Len(s.tokens) /\ End(i) <= Len(t.tokens))

Using(kv, b) == {r \in Live(kv) : Listed(kv.states[r].blocks, b)}

CountsOK(kv) == \A b \in Blocks : kv.pool.refCounts[b] = Cardinality(Using(kv, b))

StatesOK(kv, T, Z) ==
  /\ kv = [pool |-> kv.pool, states |-> kv.states]
  /\ IsFiniteSet(Live(kv))
  /\ kv.states \in [Live(kv) -> StateType(T, Z)]

TablesOK(kv, T, Z) ==
  /\ PoolOK(kv.pool, Z \X Seq(T))
  /\ StatesOK(kv, T, Z)
  /\ CountsOK(kv)
  /\ \A r \in Live(kv) : TableOK(kv.pool.keys, kv.states[r])
  /\ \A r, s \in Live(kv) : r # s => Sharing(kv.states[r], kv.states[s])

\* Sharing is symmetric.
LEMMA SharingIsSymmetric ==
  ASSUME NEW s, NEW t, Sharing(s, t)
  PROVE  Sharing(t, s)
  BY DEF Sharing

\* A block is in finitely many tables.
LEMMA UsingFinite ==
  ASSUME NEW kv, IsFiniteSet(Live(kv)), NEW b
  PROVE  IsFiniteSet(Using(kv, b)) /\ Cardinality(Using(kv, b)) \in Nat
<1>1. Using(kv, b) \subseteq Live(kv)
  BY DEF Using
<1> QED BY <1>1, FS_Subset, FS_CardinalityType

\* A block that is counted is in some table, and a block in a table is counted.
LEMMA CountedIsUsed ==
  ASSUME NEW T, NEW Z, NEW kv, TablesOK(kv, T, Z), NEW b \in Blocks
  PROVE  /\ kv.pool.refCounts[b] \in Nat
         /\ kv.pool.refCounts[b] > 0 <=> \E r \in Live(kv) : Listed(kv.states[r].blocks, b)
         /\ kv.pool.refCounts[b] > 1 <=>
              \E r, s \in Live(kv) : /\ r # s
                                     /\ Listed(kv.states[r].blocks, b)
                                     /\ Listed(kv.states[s].blocks, b)
<1> DEFINE U == Using(kv, b)
           n == kv.pool.refCounts[b]
<1>1. IsFiniteSet(U) /\ n = Cardinality(U) /\ n \in Nat
  BY UsingFinite DEF TablesOK, StatesOK, CountsOK
<1>2. \A r : r \in U <=> r \in Live(kv) /\ Listed(kv.states[r].blocks, b)
  BY DEF Using
<1> HIDE DEF U, n
<1>3. n > 0 <=> \E r : r \in U
  <2>1. n = 0 <=> U = {}
    BY <1>1, FS_EmptySet
  <2> QED BY <1>1, <2>1
<1>4. n > 1 <=> \E r, s \in U : r # s
  <2>1. ASSUME NEW r \in U PROVE n = Cardinality(U \ {r}) + 1 /\ Cardinality(U \ {r}) \in Nat
                                 /\ (Cardinality(U \ {r}) = 0 <=> U \ {r} = {})
    <3>1. IsFiniteSet(U \ {r}) /\ Cardinality(U \ {r}) = Cardinality(U) - 1
      BY <1>1, FS_RemoveElement
    <3>2. Cardinality(U \ {r}) \in Nat /\ (Cardinality(U \ {r}) = 0 <=> U \ {r} = {})
      BY <3>1, FS_EmptySet, FS_CardinalityType
    <3> QED BY <1>1, <3>1, <3>2
  <2>2. ASSUME n > 1 PROVE \E r, s \in U : r # s
    <3>1. PICK r \in U : TRUE
      BY <1>1, <1>3, <2>2
    <3>2. /\ n = Cardinality(U \ {r}) + 1 /\ Cardinality(U \ {r}) \in Nat
          /\ Cardinality(U \ {r}) = 0 <=> U \ {r} = {}
      BY <2>1
    <3>3. U \ {r} # {}
      BY <2>2, <3>2
    <3> QED BY <3>3
  <2>3. ASSUME NEW r \in U, NEW s \in U, r # s PROVE n > 1
    <3>1. U \ {r} # {}
      BY <2>3
    <3>2. /\ n = Cardinality(U \ {r}) + 1 /\ Cardinality(U \ {r}) \in Nat
          /\ Cardinality(U \ {r}) = 0 <=> U \ {r} = {}
      BY <2>1
    <3> QED BY <3>1, <3>2
  <2> QED BY <2>2, <2>3
<1> QED BY <1>1, <1>2, <1>3, <1>4 DEF n

-----------------------------------------------------------------------------
(* A table more, a table less, another table for a request.                 *)

\* Adding a table whose blocks got one more reference each.
LEMMA TableAdded ==
  ASSUME NEW T, NEW Z, NEW kv, TablesOK(kv, T, Z), NEW r, r \notin Live(kv),
         NEW p, PoolOK(p, Z \X Seq(T)), p.keys = kv.pool.keys,
         NEW state \in StateType(T, Z), TableOK(p.keys, state),
         \A b \in Blocks : p.refCounts[b] = IF Listed(state.blocks, b)
                                            THEN kv.pool.refCounts[b] + 1
                                            ELSE kv.pool.refCounts[b],
         \A s \in Live(kv) : Sharing(state, kv.states[s])
  PROVE  TablesOK([pool |-> p, states |-> AddState(kv, r, state)], T, Z)
<1> DEFINE q == [pool |-> p, states |-> AddState(kv, r, state)]
<1>1. /\ q.pool = p /\ Live(q) = Live(kv) \cup {r}
      /\ q.states[r] = state /\ \A s \in Live(kv) : q.states[s] = kv.states[s]
      /\ q = [pool |-> q.pool, states |-> q.states]
      /\ q.states = [x \in Live(kv) \cup {r} |-> IF x = r THEN state ELSE kv.states[x]]
  BY DEF AddState, Live
<1> HIDE DEF q
<1>2. StatesOK(q, T, Z)
  <2>1. IsFiniteSet(Live(q))
    BY <1>1, FS_AddElement DEF TablesOK, StatesOK
  <2>2. q.states \in [Live(q) -> StateType(T, Z)]
    BY <1>1 DEF TablesOK, StatesOK
  <2> QED BY <1>1, <2>1, <2>2 DEF StatesOK
<1>3. CountsOK(q)
  <2> SUFFICES ASSUME NEW b \in Blocks PROVE p.refCounts[b] = Cardinality(Using(q, b))
    BY <1>1 DEF CountsOK
  <2>1. kv.pool.refCounts[b] = Cardinality(Using(kv, b)) /\ IsFiniteSet(Using(kv, b))
    BY UsingFinite DEF TablesOK, CountsOK, StatesOK
  <2>2. CASE Listed(state.blocks, b)
    <3>1. Using(q, b) = Using(kv, b) \cup {r} /\ r \notin Using(kv, b)
      BY <1>1, <2>2 DEF Using
    <3>2. Cardinality(Using(kv, b) \cup {r}) = Cardinality(Using(kv, b)) + 1
      BY <2>1, <3>1, FS_AddElement
    <3> QED BY <2>1, <2>2, <3>1, <3>2
  <2>3. CASE ~Listed(state.blocks, b)
    <3>1. Using(q, b) = Using(kv, b)
      BY <1>1, <2>3 DEF Using
    <3> QED BY <2>1, <2>3, <3>1
  <2> QED BY <2>2, <2>3
<1>4. \A s \in Live(q) : TableOK(q.pool.keys, q.states[s])
  BY <1>1 DEF TablesOK
<1>5. ASSUME NEW s \in Live(q), NEW t \in Live(q), s # t
      PROVE  Sharing(q.states[s], q.states[t])
  BY <1>1, <1>5, SharingIsSymmetric DEF TablesOK
<1> QED BY <1>1, <1>2, <1>3, <1>4, <1>5 DEF TablesOK, q

\* Replacing a table, with references moved from the old blocks to the new.
LEMMA TableReplaced ==
  ASSUME NEW T, NEW Z, NEW kv, TablesOK(kv, T, Z), NEW r \in Live(kv),
         NEW p, PoolOK(p, Z \X Seq(T)),
         NEW state \in StateType(T, Z), TableOK(p.keys, state),
         \A s \in Live(kv) \ {r} : TableOK(p.keys, kv.states[s]) /\ Sharing(state, kv.states[s]),
         \A b \in Blocks :
           LET before == Listed(kv.states[r].blocks, b)
               after  == Listed(state.blocks, b)
           IN  p.refCounts[b] = IF before /\ ~after THEN kv.pool.refCounts[b] - 1
                                ELSE IF after /\ ~before THEN kv.pool.refCounts[b] + 1
                                ELSE kv.pool.refCounts[b]
  PROVE  TablesOK([pool |-> p, states |-> WithState(kv, r, state)], T, Z)
<1> DEFINE q == [pool |-> p, states |-> WithState(kv, r, state)]
<1>0. kv.states \in [Live(kv) -> StateType(T, Z)] /\ IsFiniteSet(Live(kv))
  BY DEF TablesOK, StatesOK
<1>1. /\ q.pool = p /\ q.states = [kv.states EXCEPT ![r] = state]
      /\ q = [pool |-> q.pool, states |-> q.states]
  BY DEF WithState
<1> HIDE DEF q
<1>2. /\ Live(q) = Live(kv)
      /\ q.states[r] = state /\ \A s \in Live(kv) \ {r} : q.states[s] = kv.states[s]
      /\ q.states \in [Live(kv) -> StateType(T, Z)]
  BY <1>0, <1>1 DEF Live
<1>3. StatesOK(q, T, Z)
  BY <1>0, <1>1, <1>2 DEF StatesOK
<1>4. CountsOK(q)
  <2> SUFFICES ASSUME NEW b \in Blocks PROVE p.refCounts[b] = Cardinality(Using(q, b))
    BY <1>1 DEF CountsOK
  <2> DEFINE before == Listed(kv.states[r].blocks, b)
             after  == Listed(state.blocks, b)
  <2>1. kv.pool.refCounts[b] = Cardinality(Using(kv, b)) /\ IsFiniteSet(Using(kv, b))
    BY UsingFinite DEF TablesOK, CountsOK, StatesOK
  <2>2. CASE before /\ ~after
    <3>1. Using(q, b) = Using(kv, b) \ {r} /\ r \in Using(kv, b)
      BY <1>2, <2>2 DEF Using
    <3>2. Cardinality(Using(kv, b) \ {r}) = Cardinality(Using(kv, b)) - 1
      BY <2>1, <3>1, FS_RemoveElement
    <3> QED BY <2>1, <2>2, <3>1, <3>2
  <2>3. CASE after /\ ~before
    <3>1. Using(q, b) = Using(kv, b) \cup {r} /\ r \notin Using(kv, b)
      BY <1>2, <2>3 DEF Using
    <3>2. Cardinality(Using(kv, b) \cup {r}) = Cardinality(Using(kv, b)) + 1
      BY <2>1, <3>1, FS_AddElement
    <3> QED BY <2>1, <2>3, <3>1, <3>2
  <2>4. CASE before <=> after
    <3>1. Using(q, b) = Using(kv, b)
      BY <1>2, <2>4 DEF Using
    <3> QED BY <2>1, <2>4, <3>1
  <2> QED BY <2>2, <2>3, <2>4
<1>5. \A s \in Live(q) : TableOK(q.pool.keys, q.states[s])
  BY <1>1, <1>2
<1>6. ASSUME NEW s \in Live(q), NEW t \in Live(q), s # t
      PROVE  Sharing(q.states[s], q.states[t])
  BY <1>2, <1>6, SharingIsSymmetric DEF TablesOK
<1> QED BY <1>1, <1>3, <1>4, <1>5, <1>6 DEF TablesOK, q

\* Removing a table whose blocks lost one reference each.
LEMMA TableRemoved ==
  ASSUME NEW T, NEW Z, NEW kv, TablesOK(kv, T, Z), NEW r \in Live(kv),
         NEW p, PoolOK(p, Z \X Seq(T)), p.keys = kv.pool.keys,
         \A b \in Blocks : p.refCounts[b] = IF Listed(kv.states[r].blocks, b)
                                            THEN kv.pool.refCounts[b] - 1
                                            ELSE kv.pool.refCounts[b]
  PROVE  TablesOK([pool |-> p, states |-> WithoutState(kv, r)], T, Z)
<1> DEFINE q == [pool |-> p, states |-> WithoutState(kv, r)]
<1>1. /\ q.pool = p /\ Live(q) = Live(kv) \ {r}
      /\ \A s \in Live(q) : q.states[s] = kv.states[s]
      /\ q = [pool |-> q.pool, states |-> q.states]
      /\ q.states = [x \in Live(kv) \ {r} |-> kv.states[x]]
  BY DEF Live, WithoutState
<1> HIDE DEF q
<1>2. StatesOK(q, T, Z)
  <2>1. IsFiniteSet(Live(q))
    BY <1>1, FS_RemoveElement DEF TablesOK, StatesOK
  <2>2. q.states \in [Live(q) -> StateType(T, Z)]
    BY <1>1 DEF TablesOK, StatesOK
  <2> QED BY <1>1, <2>1, <2>2 DEF StatesOK
<1>3. CountsOK(q)
  <2> SUFFICES ASSUME NEW b \in Blocks PROVE p.refCounts[b] = Cardinality(Using(q, b))
    BY <1>1 DEF CountsOK
  <2>1. kv.pool.refCounts[b] = Cardinality(Using(kv, b)) /\ IsFiniteSet(Using(kv, b))
    BY UsingFinite DEF TablesOK, CountsOK, StatesOK
  <2>2. CASE Listed(kv.states[r].blocks, b)
    <3>1. Using(q, b) = Using(kv, b) \ {r} /\ r \in Using(kv, b)
      BY <1>1, <2>2 DEF Using
    <3>2. Cardinality(Using(kv, b) \ {r}) = Cardinality(Using(kv, b)) - 1
      BY <2>1, <3>1, FS_RemoveElement
    <3> QED BY <2>1, <2>2, <3>1, <3>2
  <2>3. CASE ~Listed(kv.states[r].blocks, b)
    <3>1. Using(q, b) = Using(kv, b)
      BY <1>1, <2>3 DEF Using
    <3> QED BY <2>1, <2>3, <3>1
  <2> QED BY <2>2, <2>3
<1>4. \A s \in Live(q) : TableOK(q.pool.keys, q.states[s])
  BY <1>1 DEF TablesOK
<1>5. ASSUME NEW s \in Live(q), NEW t \in Live(q), s # t
      PROVE  Sharing(q.states[s], q.states[t])
  BY <1>1, <1>5 DEF TablesOK
<1> QED BY <1>1, <1>2, <1>3, <1>4, <1>5 DEF TablesOK, q

-----------------------------------------------------------------------------
(* release, trim and fork.                                                  *)

\* Reversing a list keeps its elements and their distinctness.
LEMMA ReverseList ==
  ASSUME NEW S, NEW blocks \in Seq(S), DistinctList(blocks)
  PROVE  /\ Reverse(blocks) \in Seq(S) /\ Len(Reverse(blocks)) = Len(blocks)
         /\ DistinctList(Reverse(blocks))
         /\ \A b : Listed(Reverse(blocks), b) <=> Listed(blocks, b)
<1> DEFINE n == Len(blocks)
           back == Reverse(blocks)
<1>1. n \in Nat /\ back = [i \in 1 .. n |-> blocks[(n - i) + 1]]
  BY DEF Reverse
<1>2. \A i \in 1 .. n : (n - i) + 1 \in 1 .. n /\ (n - ((n - i) + 1)) + 1 = i
  BY <1>1
<1> HIDE DEF n
<1>3. /\ back \in Seq(S) /\ Len(back) = n
      /\ \A i \in 1 .. n : back[i] = blocks[(n - i) + 1]
  <2>1. \A i \in 1 .. n : blocks[(n - i) + 1] \in S
    BY <1>2 DEF n
  <2> QED BY <1>1, <2>1
<1> HIDE DEF back
<1>4. DistinctList(back)
  <2> SUFFICES ASSUME NEW i \in 1 .. n, NEW j \in 1 .. n, back[i] = back[j] PROVE i = j
    BY <1>3 DEF DistinctList
  <2>1. (n - i) + 1 = (n - j) + 1
    BY <1>2, <1>3 DEF DistinctList, n
  <2> QED BY <1>1, <2>1
<1>5. ASSUME NEW b PROVE Listed(back, b) <=> Listed(blocks, b)
  <2>1. ASSUME NEW i \in 1 .. n, back[i] = b PROVE Listed(blocks, b)
    BY <1>2, <1>3, <2>1 DEF Listed, n
  <2>2. ASSUME NEW i \in 1 .. n, blocks[i] = b PROVE Listed(back, b)
    <3>1. back[(n - i) + 1] = b
      BY <1>2, <1>3, <2>2
    <3> QED BY <1>2, <1>3, <3>1 DEF Listed
  <2> QED BY <1>3, <2>1, <2>2 DEF Listed, n
<1> QED BY <1>3, <1>4, <1>5 DEF n, back

\* Every block of a live table is referenced.
LEMMA ListIsCounted ==
  ASSUME NEW T, NEW Z, NEW kv, TablesOK(kv, T, Z), NEW r \in Live(kv)
  PROVE  LET blocks == kv.states[r].blocks
         IN  /\ blocks \in Seq(Blocks) /\ DistinctList(blocks)
             /\ \A i \in 1 .. Len(blocks) : blocks[i] \in Blocks /\ kv.pool.refCounts[blocks[i]] > 0
<1> DEFINE blocks == kv.states[r].blocks
<1>1. blocks \in Seq(Blocks) /\ DistinctList(blocks)
  BY DEF TablesOK, StatesOK, StateType, TableOK
<1> HIDE DEF blocks
<1>2. \A i \in 1 .. Len(blocks) : blocks[i] \in Blocks
  BY <1>1
<1>3. \A i \in 1 .. Len(blocks) : Listed(blocks, blocks[i])
  BY DEF Listed
<1>4. \A i \in 1 .. Len(blocks) : kv.pool.refCounts[blocks[i]] > 0
  BY <1>2, <1>3, CountedIsUsed DEF blocks
<1> QED BY <1>1, <1>2, <1>4 DEF blocks

\* Releasing a request removes its table and leaves the others consistent.
LEMMA ReleasedRequestOK ==
  ASSUME NEW T, NEW Z, NEW kv, TablesOK(kv, T, Z), NEW r \in Live(kv)
  PROVE  LET q == ReleasedRequest(kv, r)
         IN  /\ TablesOK(q, T, Z)
             /\ q.states = WithoutState(kv, r)
             /\ q.pool.keys = kv.pool.keys /\ q.pool.prefixes = kv.pool.prefixes
<1> DEFINE blocks == kv.states[r].blocks
           p == ReleasedAll(kv.pool, Reverse(blocks))
<1>1. /\ blocks \in Seq(Blocks) /\ DistinctList(blocks)
      /\ \A i \in 1 .. Len(blocks) : kv.pool.refCounts[blocks[i]] > 0
  BY ListIsCounted
<1> HIDE DEF blocks
<1>2. /\ Reverse(blocks) \in Seq(Blocks) /\ Len(Reverse(blocks)) = Len(blocks)
      /\ DistinctList(Reverse(blocks))
      /\ \A b : Listed(Reverse(blocks), b) <=> Listed(blocks, b)
  BY <1>1, ReverseList
<1>3. \A i \in 1 .. Len(Reverse(blocks)) : kv.pool.refCounts[Reverse(blocks)[i]] > 0
  <2>1. \A i \in 1 .. Len(Reverse(blocks)) : Listed(Reverse(blocks), Reverse(blocks)[i])
    BY DEF Listed
  <2> QED BY <1>1, <1>2, <2>1 DEF Listed
<1>4. PoolOK(kv.pool, Z \X Seq(T))
  BY DEF TablesOK
<1>5. /\ PoolOK(p, Z \X Seq(T)) /\ p.keys = kv.pool.keys /\ p.prefixes = kv.pool.prefixes
      /\ \A b \in Blocks : p.refCounts[b] = IF Listed(blocks, b)
                                            THEN kv.pool.refCounts[b] - 1 ELSE kv.pool.refCounts[b]
  BY <1>2, <1>3, <1>4, ReleasedAllOK
<1>6. ReleasedRequest(kv, r) = [pool |-> p, states |-> WithoutState(kv, r)]
  BY DEF ReleasedRequest, blocks
<1> HIDE DEF p
<1>7. TablesOK(ReleasedRequest(kv, r), T, Z)
  <2>1. \A b \in Blocks : p.refCounts[b] = IF Listed(kv.states[r].blocks, b)
                                         THEN kv.pool.refCounts[b] - 1 ELSE kv.pool.refCounts[b]
    BY <1>5 DEF blocks
  <2> QED BY <1>5, <1>6, <2>1, TableRemoved
<1> QED BY <1>5, <1>6, <1>7

\* The blocks that hold the committed tokens are the head of the table.
LEMMA TokensFit ==
  ASSUME NEW n \in Nat, NEW m \in Nat, n <= End(m)
  PROVE  CeilDiv(n) \in 0 .. m
<1>1. CeilDiv(n) \in Nat
  BY CeilDivFacts
<1> SUFFICES ASSUME m < CeilDiv(n) PROVE FALSE
  BY <1>1
<1>2. m + 1 \in Nat \ {0} /\ m + 1 <= CeilDiv(n) /\ (m + 1) - 1 = m
  BY <1>1
<1>3. End(m) < n
  BY <1>2, CeilDivFacts
<1>4. End(m) \in Nat
  BY EndFacts
<1> QED BY <1>3, <1>4

\* What a table keeps of its tokens when blocks behind them come or go.
SameTokens(s, t) ==
  /\ s.tokens = t.tokens /\ s.salt = t.salt
  /\ \A i \in 1 .. CeilDiv(Len(s.tokens)) : s.blocks[i] = t.blocks[i]

\* The head of a table that holds the committed tokens.
HeadOf(state) == [state EXCEPT !.blocks = SubSeq(@, 1, CeilDiv(Len(state.tokens)))]

\* It is a table too, and shares no more than the whole table does.
LEMMA HeadOfTable ==
  ASSUME NEW T, NEW Z, NEW kv, TablesOK(kv, T, Z), NEW r \in Live(kv),
         NEW state, state = kv.states[r],
         NEW head, head = HeadOf(state)
  PROVE  /\ CeilDiv(Len(state.tokens)) \in 0 .. Len(state.blocks)
         /\ Len(state.blocks) \in Nat
         /\ head \in StateType(T, Z)
         /\ head.tokens = state.tokens /\ head.salt = state.salt
         /\ head.blocks = SubSeq(state.blocks, 1, CeilDiv(Len(state.tokens)))
         /\ Len(head.blocks) = CeilDiv(Len(state.tokens))
         /\ \A i \in 1 .. Len(head.blocks) :
              head.blocks[i] = state.blocks[i] /\ i \in 1 .. Len(state.blocks)
         /\ TableOK(kv.pool.keys, head)
         /\ SameTokens(head, state)
         /\ \A s \in Live(kv) \ {r} : Sharing(head, kv.states[s])
<1> DEFINE keep == CeilDiv(Len(state.tokens))
<1>1. /\ state \in StateType(T, Z) /\ TableOK(kv.pool.keys, state)
      /\ \A s \in Live(kv) \ {r} : Sharing(state, kv.states[s])
  BY DEF TablesOK, StatesOK
<1>2. /\ state.blocks \in Seq(Blocks) /\ state.tokens \in Seq(T) /\ state.salt \in Z
      /\ Len(state.blocks) \in Nat /\ Len(state.tokens) \in Nat
  BY <1>1 DEF StateType
<1>3. keep \in 0 .. Len(state.blocks) /\ Len(state.tokens) <= End(keep)
  BY <1>1, <1>2, TokensFit, CeilDivFacts DEF TableOK
<1> HIDE DEF keep
<1>4. /\ SubSeq(state.blocks, 1, keep) \in Seq(Blocks)
      /\ Len(SubSeq(state.blocks, 1, keep)) = keep
      /\ \A i \in 1 .. keep : SubSeq(state.blocks, 1, keep)[i] = state.blocks[i]
  BY <1>2, <1>3
<1>5. /\ head \in StateType(T, Z) /\ head.blocks = SubSeq(state.blocks, 1, keep)
      /\ head.tokens = state.tokens /\ head.salt = state.salt
  BY <1>1, <1>4 DEF StateType, HeadOf, keep
<1>6. Len(head.blocks) = keep /\ \A i \in 1 .. keep : head.blocks[i] = state.blocks[i]
  BY <1>4, <1>5
<1>7. \A i \in 1 .. keep : i \in 1 .. Len(state.blocks)
  BY <1>2, <1>3
<1>8. TableOK(kv.pool.keys, head)
  <2>1. DistinctList(head.blocks)
    BY <1>1, <1>6, <1>7 DEF DistinctList, TableOK
  <2> QED BY <1>1, <1>3, <1>5, <1>6, <1>7, <2>1 DEF TableOK
<1>9. ASSUME NEW s \in Live(kv) \ {r} PROVE Sharing(head, kv.states[s])
  <2>1. Sharing(state, kv.states[s])
    BY <1>1
  <2> SUFFICES ASSUME NEW i \in 1 .. keep, NEW j \in 1 .. Len(kv.states[s].blocks),
                      head.blocks[i] = kv.states[s].blocks[j]
               PROVE  /\ i = j /\ head.salt = kv.states[s].salt
                      /\ End(i - 1) < Len(head.tokens) /\ End(i - 1) < Len(kv.states[s].tokens)
                      /\ \/ Len(head.tokens) = Len(kv.states[s].tokens)
                         \/ End(i) <= Len(head.tokens) /\ End(i) <= Len(kv.states[s].tokens)
    BY <1>6 DEF Sharing
  <2>2. i \in 1 .. Len(state.blocks) /\ state.blocks[i] = kv.states[s].blocks[j]
    BY <1>6, <1>7
  <2> QED BY <1>5, <2>1, <2>2 DEF Sharing
<1>10. SameTokens(head, state)
  BY <1>5, <1>6 DEF SameTokens, keep
<1> QED BY <1>2, <1>3, <1>5, <1>6, <1>7, <1>8, <1>9, <1>10 DEF keep

\* Trimming returns the blocks past the computed tokens and keeps the tokens.
LEMMA TrimmedOK ==
  ASSUME NEW T, NEW Z, NEW kv, TablesOK(kv, T, Z), NEW r \in Live(kv)
  PROVE  LET q == Trimmed(kv, r)
         IN  /\ TablesOK(q, T, Z)
             /\ Live(q) = Live(kv)
             /\ \A s \in Live(kv) \ {r} : q.states[s] = kv.states[s]
             /\ SameTokens(q.states[r], kv.states[r])
             /\ q.pool.keys = kv.pool.keys /\ q.pool.prefixes = kv.pool.prefixes
<1> DEFINE state == kv.states[r]
           n     == Len(state.blocks)
           keep  == CeilDiv(Len(state.tokens))
           head  == HeadOf(state)
           tail  == SubSeq(state.blocks, keep + 1, n)
           p     == ReleasedAll(kv.pool, Reverse(tail))
<1>1. /\ keep \in 0 .. n /\ n \in Nat
      /\ head \in StateType(T, Z)
      /\ Len(head.blocks) = keep
      /\ \A i \in 1 .. keep : head.blocks[i] = state.blocks[i] /\ i \in 1 .. n
      /\ TableOK(kv.pool.keys, head)
      /\ SameTokens(head, state)
      /\ \A s \in Live(kv) \ {r} : Sharing(head, kv.states[s])
  BY HeadOfTable
<1>2. /\ state.blocks \in Seq(Blocks) /\ DistinctList(state.blocks)
      /\ \A i \in 1 .. n : state.blocks[i] \in Blocks /\ kv.pool.refCounts[state.blocks[i]] > 0
  BY ListIsCounted
<1>3. Trimmed(kv, r) = [pool |-> p, states |-> WithState(kv, r, head)]
  BY DEF Trimmed, HeadOf
<1> HIDE DEF keep, head, p, n
<1>4. /\ tail \in Seq(Blocks) /\ Len(tail) = n - keep
      /\ \A i \in 1 .. n - keep : keep + i \in 1 .. n /\ tail[i] = state.blocks[keep + i]
  BY <1>1, <1>2 DEF n
<1> HIDE DEF tail
<1>5. DistinctList(tail)
  <2> SUFFICES ASSUME NEW i \in 1 .. n - keep, NEW j \in 1 .. n - keep, tail[i] = tail[j]
               PROVE  i = j
    BY <1>4 DEF DistinctList
  <2>1. keep + i = keep + j
    BY <1>2, <1>4 DEF DistinctList, n
  <2> QED BY <1>1, <2>1
<1>6. \A b : Listed(tail, b) <=> Listed(state.blocks, b) /\ ~Listed(head.blocks, b)
  <2>1. ASSUME NEW b, Listed(tail, b) PROVE Listed(state.blocks, b) /\ ~Listed(head.blocks, b)
    <3>1. PICK i \in 1 .. n - keep : state.blocks[keep + i] = b
      BY <1>4, <2>1 DEF Listed
    <3>2. ASSUME NEW j \in 1 .. keep, head.blocks[j] = b PROVE FALSE
      <4>1. j = keep + i
        BY <1>1, <1>2, <1>4, <3>1, <3>2 DEF DistinctList, n
      <4> QED BY <1>1, <4>1
    <3>3. Listed(state.blocks, b)
      BY <1>4, <3>1 DEF Listed, n
    <3> QED BY <1>1, <3>2, <3>3 DEF Listed
  <2>2. ASSUME NEW b, Listed(state.blocks, b), ~Listed(head.blocks, b) PROVE Listed(tail, b)
    <3>1. PICK i \in 1 .. n : state.blocks[i] = b
      BY <2>2 DEF Listed, n
    <3>2. i \notin 1 .. keep
      BY <1>1, <2>2, <3>1 DEF Listed
    <3>3. i - keep \in 1 .. n - keep /\ keep + (i - keep) = i
      BY <1>1, <3>2
    <3> QED BY <1>4, <3>1, <3>3 DEF Listed
  <2> QED BY <2>1, <2>2
<1>7. /\ Reverse(tail) \in Seq(Blocks) /\ Len(Reverse(tail)) = Len(tail)
      /\ DistinctList(Reverse(tail))
      /\ \A b : Listed(Reverse(tail), b) <=> Listed(tail, b)
  BY <1>4, <1>5, ReverseList
<1>8. \A i \in 1 .. Len(Reverse(tail)) : kv.pool.refCounts[Reverse(tail)[i]] > 0
  <2>1. \A i \in 1 .. Len(Reverse(tail)) : Listed(Reverse(tail), Reverse(tail)[i])
    BY DEF Listed
  <2>2. \A b : Listed(state.blocks, b) => kv.pool.refCounts[b] > 0
    BY <1>2 DEF Listed, n
  <2> QED BY <1>6, <1>7, <2>1, <2>2
<1>9. PoolOK(kv.pool, Z \X Seq(T))
  BY DEF TablesOK
<1>10. /\ PoolOK(p, Z \X Seq(T)) /\ p.keys = kv.pool.keys /\ p.prefixes = kv.pool.prefixes
       /\ \A b \in Blocks : p.refCounts[b] = IF Listed(tail, b)
                                             THEN kv.pool.refCounts[b] - 1 ELSE kv.pool.refCounts[b]
  BY <1>7, <1>8, <1>9, ReleasedAllOK DEF p
<1>11. \A b \in Blocks :
         LET before == Listed(kv.states[r].blocks, b)
             after  == Listed(head.blocks, b)
         IN  p.refCounts[b] = IF before /\ ~after THEN kv.pool.refCounts[b] - 1
                              ELSE IF after /\ ~before THEN kv.pool.refCounts[b] + 1
                              ELSE kv.pool.refCounts[b]
  <2>1. \A b : Listed(head.blocks, b) => Listed(state.blocks, b)
    BY <1>1 DEF Listed, n
  <2> QED BY <1>6, <1>10, <2>1
<1>12. \A s \in Live(kv) \ {r} : TableOK(p.keys, kv.states[s])
  BY <1>10 DEF TablesOK
<1>13. TablesOK(Trimmed(kv, r), T, Z)
  BY <1>1, <1>3, <1>10, <1>11, <1>12, TableReplaced
<1>14. kv.states \in [Live(kv) -> StateType(T, Z)]
  BY DEF TablesOK, StatesOK
<1>15. /\ Live(Trimmed(kv, r)) = Live(kv)
       /\ \A s \in Live(kv) \ {r} : Trimmed(kv, r).states[s] = kv.states[s]
       /\ Trimmed(kv, r).states[r] = head
  BY <1>3, <1>14 DEF WithState, Live
<1> QED BY <1>1, <1>3, <1>10, <1>13, <1>15

\* A fork shares the blocks that hold its source's tokens, a partly filled one too.
LEMMA ForkedOK ==
  ASSUME NEW T, NEW Z, NEW kv, TablesOK(kv, T, Z),
         NEW source \in Live(kv), NEW target, target \notin Live(kv)
  PROVE  LET q == Forked(kv, source, target)
         IN  /\ TablesOK(q, T, Z)
             /\ Live(q) = Live(kv) \cup {target}
             /\ \A s \in Live(kv) : q.states[s] = kv.states[s]
             /\ SameTokens(q.states[target], kv.states[source])
             /\ q.pool.keys = kv.pool.keys /\ q.pool.prefixes = kv.pool.prefixes
<1> DEFINE state  == kv.states[source]
           n      == Len(state.blocks)
           keep   == CeilDiv(Len(state.tokens))
           blocks == SubSeq(state.blocks, 1, keep)
           head   == HeadOf(state)
           p      == RetainedAll(kv.pool, blocks)
<1>a. state = kv.states[source] /\ head = HeadOf(state)
  OBVIOUS
<1> HIDE DEF head, state
<1>b. keep \in 0 .. n /\ n \in Nat
  BY <1>a, HeadOfTable
<1>d. head \in StateType(T, Z) /\ head.tokens = state.tokens /\ head.salt = state.salt
  BY <1>a, HeadOfTable
<1>e. head.blocks = blocks /\ Len(head.blocks) = keep
  BY <1>a, HeadOfTable
<1>f. \A i \in 1 .. Len(head.blocks) : head.blocks[i] = state.blocks[i] /\ i \in 1 .. n
  BY <1>a, HeadOfTable
<1>g. TableOK(kv.pool.keys, head) /\ SameTokens(head, state)
  BY <1>a, HeadOfTable
<1>c. \A s \in Live(kv) \ {source} : Sharing(head, kv.states[s])
  BY <1>a, HeadOfTable
<1>1. /\ keep \in 0 .. n /\ n \in Nat
      /\ head \in StateType(T, Z)
      /\ head.tokens = state.tokens /\ head.salt = state.salt
      /\ head.blocks = blocks /\ Len(head.blocks) = keep
      /\ \A i \in 1 .. keep : head.blocks[i] = state.blocks[i] /\ i \in 1 .. n
      /\ TableOK(kv.pool.keys, head)
      /\ SameTokens(head, state)
      /\ \A s \in Live(kv) \ {source} : Sharing(head, kv.states[s])
  BY <1>b, <1>c, <1>d, <1>e, <1>f, <1>g
<1> USE DEF head, state
<1>2. state \in StateType(T, Z) /\ TableOK(kv.pool.keys, state)
  BY DEF TablesOK, StatesOK
<1>3. Forked(kv, source, target) = [pool |-> p, states |-> AddState(kv, target, head)]
  BY DEF Forked, HeadOf
<1>4. Sharing(head, state)
  <2> SUFFICES ASSUME NEW i \in 1 .. keep, NEW j \in 1 .. n, head.blocks[i] = state.blocks[j]
               PROVE  i = j /\ End(i - 1) < Len(state.tokens)
    BY <1>1 DEF Sharing
  <2>1. i = j
    BY <1>1, <1>2 DEF TableOK, DistinctList
  <2>2. Len(state.tokens) \in Nat
    BY <1>2 DEF StateType
  <2>3. i \in Nat \ {0}
    OBVIOUS
  <2>4. i <= keep
    BY <1>1
  <2>5. End(i - 1) < Len(state.tokens)
    BY <2>2, <2>3, <2>4, CeilDivFacts
  <2> QED BY <2>1, <2>5
<1>5. \A s \in Live(kv) : Sharing(head, kv.states[s])
  BY <1>1, <1>4
<1> HIDE DEF state, n, keep, head, p
<1>6. blocks \in Seq(Blocks) /\ DistinctList(blocks)
  BY <1>1 DEF StateType, TableOK
<1> HIDE DEF blocks
<1>7. PoolOK(kv.pool, Z \X Seq(T))
  BY DEF TablesOK
<1>8. /\ PoolOK(p, Z \X Seq(T)) /\ p.keys = kv.pool.keys /\ p.prefixes = kv.pool.prefixes
      /\ \A b \in Blocks : p.refCounts[b] = IF Listed(head.blocks, b)
                                            THEN kv.pool.refCounts[b] + 1 ELSE kv.pool.refCounts[b]
  BY <1>1, <1>6, <1>7, RetainedAllOK DEF p
<1>9. TablesOK(Forked(kv, source, target), T, Z)
  BY <1>1, <1>3, <1>5, <1>8, TableAdded
<1>10. /\ Live(Forked(kv, source, target)) = Live(kv) \cup {target}
       /\ \A s \in Live(kv) : Forked(kv, source, target).states[s] = kv.states[s]
       /\ Forked(kv, source, target).states[target] = head
  BY <1>3 DEF AddState, Live
<1> QED BY <1>1, <1>3, <1>8, <1>9, <1>10 DEF state

-----------------------------------------------------------------------------
(* Prefixes of token sequences and their keys.                              *)

\* A prefix of a sequence.
LEMMA PrefixFacts ==
  ASSUME NEW T, NEW s \in Seq(T), NEW m \in 0 .. Len(s)
  PROVE  /\ SubSeq(s, 1, m) \in Seq(T) /\ Len(SubSeq(s, 1, m)) = m
         /\ \A i \in 1 .. m : SubSeq(s, 1, m)[i] = s[i]
  OBVIOUS

\* A prefix of a prefix.
LEMMA PrefixOfPrefix ==
  ASSUME NEW T, NEW s \in Seq(T), NEW m \in 0 .. Len(s), NEW k \in 0 .. m
  PROVE  SubSeq(SubSeq(s, 1, m), 1, k) = SubSeq(s, 1, k)
<1> DEFINE t == SubSeq(s, 1, m)
<1>1. /\ t \in Seq(T) /\ Len(t) = m /\ \A i \in 1 .. m : t[i] = s[i]
      /\ k \in 0 .. Len(t) /\ k \in 0 .. Len(s)
  BY PrefixFacts
<1> HIDE DEF t
<1>2. /\ SubSeq(t, 1, k) \in Seq(T) /\ Len(SubSeq(t, 1, k)) = k
      /\ \A i \in 1 .. k : SubSeq(t, 1, k)[i] = t[i]
      /\ SubSeq(s, 1, k) \in Seq(T) /\ Len(SubSeq(s, 1, k)) = k
      /\ \A i \in 1 .. k : SubSeq(s, 1, k)[i] = s[i]
  BY <1>1, PrefixFacts
<1>3. SubSeq(t, 1, k) = SubSeq(s, 1, k)
  BY <1>1, <1>2, SeqEqual
<1> QED BY <1>3 DEF t

\* A prefix of a concatenation that ends within its first part.
LEMMA PrefixOfConcat ==
  ASSUME NEW T, NEW s \in Seq(T), NEW t \in Seq(T), NEW m \in 0 .. Len(s)
  PROVE  /\ s \o t \in Seq(T) /\ Len(s \o t) = Len(s) + Len(t)
         /\ SubSeq(s \o t, 1, m) = SubSeq(s, 1, m)
<1>1. /\ s \o t \in Seq(T) /\ Len(s \o t) = Len(s) + Len(t)
      /\ \A i \in 1 .. Len(s) : (s \o t)[i] = s[i]
      /\ m \in 0 .. Len(s \o t)
  OBVIOUS
<1>2. /\ SubSeq(s \o t, 1, m) \in Seq(T) /\ Len(SubSeq(s \o t, 1, m)) = m
      /\ \A i \in 1 .. m : SubSeq(s \o t, 1, m)[i] = (s \o t)[i]
      /\ SubSeq(s, 1, m) \in Seq(T) /\ Len(SubSeq(s, 1, m)) = m
      /\ \A i \in 1 .. m : SubSeq(s, 1, m)[i] = s[i]
  BY <1>1, PrefixFacts
<1> QED BY <1>1, <1>2, SeqEqual

\* Keys of prefixes are keys, and equal ones are of equally many blocks.
LEMMA PrefixKeyFacts ==
  ASSUME NEW T, NEW Z, NEW s \in Seq(T), NEW z \in Z, NEW i \in Nat, End(i) <= Len(s)
  PROVE  /\ PrefixKey(z, s, i) \in Z \X Seq(T)
         /\ PrefixKey(z, s, i) = <<z, SubSeq(s, 1, End(i))>>
         /\ Len(PrefixKey(z, s, i)[2]) = End(i)
<1>1. End(i) \in 0 .. Len(s)
  BY EndFacts
<1>2. SubSeq(s, 1, End(i)) \in Seq(T) /\ Len(SubSeq(s, 1, End(i))) = End(i)
  BY <1>1, PrefixFacts
<1> QED BY <1>2 DEF PrefixKey, End

\* Equal prefix keys have equal salts and cover equally many blocks.
LEMMA EqualKeys ==
  ASSUME NEW T, NEW s \in Seq(T), NEW t \in Seq(T), NEW y, NEW z,
         NEW i \in Nat, NEW j \in Nat, End(i) <= Len(s), End(j) <= Len(t),
         PrefixKey(y, s, i) = PrefixKey(z, t, j)
  PROVE  y = z /\ i = j
<1>1. End(i) \in 0 .. Len(s) /\ End(j) \in 0 .. Len(t)
  BY EndFacts
<1>2. Len(SubSeq(s, 1, End(i))) = End(i) /\ Len(SubSeq(t, 1, End(j))) = End(j)
  BY <1>1, PrefixFacts
<1>3. <<y, SubSeq(s, 1, End(i))>> = <<z, SubSeq(t, 1, End(j))>>
  BY DEF PrefixKey, End
<1>4. y = z /\ SubSeq(s, 1, End(i)) = SubSeq(t, 1, End(j))
  BY <1>3
<1> QED BY <1>2, <1>4, EndFacts

-----------------------------------------------------------------------------
(* attach.                                                                  *)

\* The hits are the longest chain of published blocks that leaves a token.
LEMMA HitBlocksFacts ==
  ASSUME NEW T, NEW kv, NEW tokens \in Seq(T), tokens # <<>>, NEW salt
  PROVE  LET n == HitBlocks(kv, tokens, salt)
         IN  /\ n \in Nat /\ End(n) < Len(tokens)
             /\ \A i \in 1 .. n : PrefixKey(salt, tokens, i) \in DOMAIN kv.pool.prefixes
<1> DEFINE max    == MaxHitBlocks(tokens)
           hit(i) == PrefixKey(salt, tokens, i) \in DOMAIN kv.pool.prefixes
           Longest(n) == /\ \A i \in 1 .. n : hit(i)
                         /\ n = max \/ PrefixKey(salt, tokens, n + 1) \notin DOMAIN kv.pool.prefixes
           n == CHOOSE n \in 0 .. max : Longest(n)
<1>1. Len(tokens) \in Nat \ {0} /\ Len(tokens) - 1 \in Nat
  OBVIOUS
<1>2. max \in Nat /\ \A i \in Nat : i <= max => End(i) < Len(tokens)
  <2>1. max = (Len(tokens) - 1) \div BlockSize
    BY DEF MaxHitBlocks
  <2>2. max \in Nat /\ \A i \in Nat : i <= max <=> End(i) <= Len(tokens) - 1
    BY <1>1, <2>1, SlotFacts
  <2> QED BY <1>1, <2>2, EndFacts
<1> HIDE DEF max, hit, Longest, n
<1>3. \E i \in 0 .. max : Longest(i)
  <2> DEFINE S == {i \in 0 .. max : i = max \/ ~hit(i + 1)}
  <2>1. S \in SUBSET Nat /\ max \in S
    BY <1>2
  <2>2. PICK m \in S : \A i \in S : m <= i
    BY <2>1, LeastNatural, Zenon
  <2>3. ASSUME NEW i \in 1 .. m PROVE hit(i)
    <3>1. i - 1 \in 0 .. max /\ i - 1 # max /\ ~(m <= i - 1) /\ (i - 1) + 1 = i
      BY <1>2
    <3> QED BY <2>2, <3>1
  <2>4. Longest(m)
    BY <2>2, <2>3 DEF Longest, hit
  <2> QED BY <2>4
<1>4. n \in 0 .. max /\ Longest(n)
  BY <1>3, Zenon DEF n
<1>5. CASE EnablePrefixCache
  <2>1. HitBlocks(kv, tokens, salt) = n
    BY <1>5, Zenon DEF HitBlocks, n, Longest, max, hit
  <2> QED BY <1>2, <1>4, <2>1 DEF Longest, hit
<1>6. CASE ~EnablePrefixCache
  <2>1. HitBlocks(kv, tokens, salt) = 0
    BY <1>6 DEF HitBlocks
  <2> QED BY <1>1, <2>1, EndFacts
<1> QED BY <1>5, <1>6

\* A hit is a block published under the key of the place it gets.
LEMMA HitFacts ==
  ASSUME NEW T, NEW Z, NEW kv, TablesOK(kv, T, Z),
         NEW tokens \in Seq(T), NEW salt \in Z, NEW i \in Nat, End(i) <= Len(tokens),
         PrefixKey(salt, tokens, i) \in DOMAIN kv.pool.prefixes,
         NEW b, b = kv.pool.prefixes[PrefixKey(salt, tokens, i)]
  PROVE  b \in Blocks /\ kv.pool.keys[b] = PrefixKey(salt, tokens, i) /\ kv.pool.keys[b] # NoKey
<1> DEFINE key == PrefixKey(salt, tokens, i)
<1>1. key \in Z \X Seq(T)
  BY PrefixKeyFacts
<1> HIDE DEF key
<1>2. /\ NoKey \notin Z \X Seq(T) /\ IndexOK(kv.pool)
      /\ kv.pool.prefixes \in [DOMAIN kv.pool.prefixes -> Blocks]
  BY DEF TablesOK, PoolOK, PoolType
<1>3. key \in DOMAIN kv.pool.prefixes /\ b = kv.pool.prefixes[key]
  BY DEF key
<1>4. b \in Blocks /\ kv.pool.keys[b] = key
  BY <1>2, <1>3 DEF IndexOK
<1> QED BY <1>1, <1>2, <1>4 DEF key

\* Attaching starts with the longest cached proper prefix of the prompt, in the
\* blocks the index returned.
LEMMA AttachedOK ==
  ASSUME NEW T, NEW Z, NEW kv, TablesOK(kv, T, Z), NEW r, r \notin Live(kv),
         NEW tokens \in Seq(T), tokens # <<>>, NEW salt \in Z
  PROVE  LET q == Attached(kv, r, tokens, salt)
             n == HitBlocks(kv, tokens, salt)
         IN  /\ TablesOK(q, T, Z)
             /\ n \in Nat /\ End(n) < Len(tokens)
             /\ Live(q) = Live(kv) \cup {r}
             /\ \A s \in Live(kv) : q.states[s] = kv.states[s]
             /\ q.states[r].tokens = SubSeq(tokens, 1, End(n)) /\ q.states[r].salt = salt
             /\ \A i \in 1 .. n :
                  /\ PrefixKey(salt, tokens, i) \in DOMAIN kv.pool.prefixes
                  /\ q.states[r].blocks[i] = kv.pool.prefixes[PrefixKey(salt, tokens, i)]
             /\ q.pool.keys = kv.pool.keys /\ q.pool.prefixes = kv.pool.prefixes
<1> DEFINE n     == HitBlocks(kv, tokens, salt)
           key(i) == PrefixKey(salt, tokens, i)
           hits  == [i \in 1 .. n |-> kv.pool.prefixes[key(i)]]
           head  == SubSeq(tokens, 1, End(n))
           state == [blocks |-> hits, tokens |-> head, salt |-> salt]
           p     == RetainedAll(kv.pool, hits)
           K     == Z \X Seq(T)
<1>1. /\ n \in Nat /\ End(n) < Len(tokens) /\ End(n) \in 0 .. Len(tokens)
      /\ \A i \in 1 .. n : key(i) \in DOMAIN kv.pool.prefixes
  <2>1. /\ n \in Nat /\ End(n) < Len(tokens)
        /\ \A i \in 1 .. n : key(i) \in DOMAIN kv.pool.prefixes
    BY HitBlocksFacts
  <2> HIDE DEF n
  <2>2. End(n) \in 0 .. Len(tokens)
    BY <2>1, EndFacts
  <2> QED BY <2>1, <2>2
<1>2. Attached(kv, r, tokens, salt) = [pool |-> p, states |-> AddState(kv, r, state)]
  BY DEF Attached, End
<1> HIDE DEF n
<1>3. ASSUME NEW i \in 1 .. n
      PROVE  /\ i \in Nat /\ End(i) <= End(n) /\ End(i) <= Len(tokens) /\ End(i - 1) < End(i)
             /\ End(i) \in Nat /\ End(i - 1) \in Nat
             /\ key(i) \in K
             /\ hits[i] \in Blocks /\ kv.pool.keys[hits[i]] = key(i) /\ kv.pool.keys[hits[i]] # NoKey
  <2>1. i \in Nat /\ i - 1 \in Nat /\ (i - 1) + 1 = i /\ i <= n
    BY <1>1
  <2>2. /\ End(i) <= End(n) /\ End(i) <= Len(tokens) /\ End(i - 1) < End(i)
        /\ End(i) \in Nat /\ End(i - 1) \in Nat
    <3>1. End(i) <= End(n) /\ End(i) \in Nat /\ End(i - 1) \in Nat /\ End(n) \in Nat
      BY <1>1, <2>1, EndFacts
    <3>2. End(i) = End(i - 1) + BlockSize /\ BlockSize \in Nat \ {0}
      BY <2>1, EndFacts
    <3> QED BY <1>1, <3>1, <3>2
  <2>3. key(i) \in K
    BY <2>1, <2>2, PrefixKeyFacts
  <2>4. hits[i] = kv.pool.prefixes[key(i)] /\ key(i) \in DOMAIN kv.pool.prefixes
    BY <1>1
  <2> HIDE DEF hits
  <2>5. hits[i] \in Blocks /\ kv.pool.keys[hits[i]] = key(i) /\ kv.pool.keys[hits[i]] # NoKey
    BY <2>1, <2>2, <2>4, HitFacts
  <2> QED BY <2>1, <2>2, <2>3, <2>5
<1>4. hits \in Seq(Blocks) /\ Len(hits) = n
  BY <1>1, <1>3
<1>5. head \in Seq(T) /\ Len(head) = End(n)
  BY <1>1, PrefixFacts
<1>6. \A i \in 1 .. n : PrefixKey(salt, head, i) = key(i)
  <2> SUFFICES ASSUME NEW i \in 1 .. n PROVE PrefixKey(salt, head, i) = key(i)
    OBVIOUS
  <2>1. End(i) \in 0 .. End(n)
    BY <1>1, <1>3
  <2>2. SubSeq(head, 1, End(i)) = SubSeq(tokens, 1, End(i))
    BY <1>1, <2>1, PrefixOfPrefix
  <2> QED BY <2>2 DEF PrefixKey, End
<1>7. DistinctList(hits)
  <2> SUFFICES ASSUME NEW i \in 1 .. n, NEW j \in 1 .. n, hits[i] = hits[j] PROVE i = j
    BY <1>4 DEF DistinctList
  <2>1. key(i) = key(j)
    BY <1>3
  <2> QED BY <1>3, <2>1, EqualKeys
<1> HIDE DEF hits, head
<1>8. /\ state \in StateType(T, Z)
      /\ state.blocks = hits /\ state.tokens = head /\ state.salt = salt
  BY <1>4, <1>5 DEF StateType
<1> HIDE DEF state, key
<1>9. TableOK(kv.pool.keys, state)
  BY <1>3, <1>4, <1>5, <1>6, <1>7, <1>8 DEF TableOK
<1>10. ASSUME NEW s \in Live(kv) PROVE Sharing(state, kv.states[s])
  <2> DEFINE t == kv.states[s]
  <2>1. t \in StateType(T, Z) /\ TableOK(kv.pool.keys, t)
    BY DEF TablesOK, StatesOK
  <2> HIDE DEF t
  <2>2. t.tokens \in Seq(T) /\ Len(t.tokens) \in Nat /\ Len(t.blocks) \in Nat
    BY <2>1 DEF StateType
  <2> SUFFICES ASSUME NEW i \in 1 .. n, NEW j \in 1 .. Len(t.blocks), hits[i] = t.blocks[j]
               PROVE  /\ i = j /\ salt = t.salt
                      /\ End(i - 1) < End(n) /\ End(i - 1) < Len(t.tokens)
                      /\ End(i) <= End(n) /\ End(i) <= Len(t.tokens)
    BY <1>4, <1>5, <1>8 DEF Sharing, t
  <2>3. /\ End(j) <= Len(t.tokens) /\ key(i) = PrefixKey(t.salt, t.tokens, j) /\ j \in Nat
    BY <1>3, <2>1, <2>2 DEF TableOK
  <2>4. salt = t.salt /\ i = j
    BY <1>3, <2>2, <2>3, EqualKeys DEF key
  <2> QED BY <1>1, <1>3, <2>2, <2>3, <2>4
<1>11. PoolOK(kv.pool, K)
  BY DEF TablesOK
<1>12. /\ PoolOK(p, K) /\ p.keys = kv.pool.keys /\ p.prefixes = kv.pool.prefixes
       /\ \A b \in Blocks : p.refCounts[b] = IF Listed(state.blocks, b)
                                             THEN kv.pool.refCounts[b] + 1 ELSE kv.pool.refCounts[b]
  BY <1>4, <1>7, <1>8, <1>11, RetainedAllOK
<1> HIDE DEF p
<1>13. TablesOK(Attached(kv, r, tokens, salt), T, Z)
  BY <1>2, <1>8, <1>9, <1>10, <1>12, TableAdded
<1>14. /\ Live(Attached(kv, r, tokens, salt)) = Live(kv) \cup {r}
       /\ \A s \in Live(kv) : Attached(kv, r, tokens, salt).states[s] = kv.states[s]
       /\ Attached(kv, r, tokens, salt).states[r] = state
       /\ Attached(kv, r, tokens, salt).pool = p
  BY <1>2 DEF AddState, Live
<1>15. \A i \in 1 .. n : hits[i] = kv.pool.prefixes[key(i)]
  BY DEF hits
<1> QED BY <1>1, <1>8, <1>12, <1>13, <1>14, <1>15 DEF n, head, key

-----------------------------------------------------------------------------
(* reserve.                                                                 *)

\* The block of a position, and the tail of a table.
LEMMA PositionFacts ==
  ASSUME NEW pos \in Nat
  PROVE  LET i == pos \div BlockSize + 1
         IN  /\ i \in Nat \ {0} /\ i - 1 \in Nat /\ pos \div BlockSize = i - 1
             /\ End(i) \in Nat /\ End(i - 1) \in Nat /\ End(i) = End(i - 1) + BlockSize
             /\ End(i - 1) <= pos /\ pos < End(i)
             /\ pos % BlockSize \in 0 .. BlockSize - 1 /\ pos = End(i - 1) + (pos % BlockSize)
             /\ \A j \in Nat : pos < End(j) => i <= j
<1> DEFINE d == pos \div BlockSize
           o == pos % BlockSize
<1>1. /\ d \in Nat /\ o \in 0 .. BlockSize - 1 /\ pos = End(d) + o
      /\ \A j \in Nat : j <= d <=> End(j) <= pos
  BY SlotFacts
<1> HIDE DEF d, o
<1>2. /\ End(d) \in Nat /\ End(d + 1) = End(d) + BlockSize /\ BlockSize \in Nat \ {0}
      /\ \A j \in Nat : End(j) \in Nat
  BY <1>1, EndFacts
<1>3. d + 1 \in Nat \ {0} /\ (d + 1) - 1 = d
  BY <1>1
<1>4. \A j \in Nat : pos < End(j) => d + 1 <= j
  BY <1>1, <1>2
<1> QED BY <1>1, <1>2, <1>3, <1>4 DEF d, o

\* A position below the length of a table's tokens has a block there.
LEMMA PositionInTable ==
  ASSUME NEW n \in Nat, NEW pos \in Nat, pos < End(n)
  PROVE  pos \div BlockSize + 1 \in 1 .. n
<1> DEFINE i == pos \div BlockSize + 1
<1>1. i \in Nat \ {0} /\ i <= n
  BY PositionFacts
<1> QED BY <1>1

\* A partly filled block is the last one with computed tokens.
LEMMA TailFacts ==
  ASSUME NEW T, NEW Z, NEW kv, TablesOK(kv, T, Z), NEW r \in Live(kv),
         Computed(kv, r) % BlockSize # 0
  PROVE  LET i == TailIndex(kv, r)
         IN  /\ i \in 1 .. Len(kv.states[r].blocks)
             /\ End(i - 1) < Computed(kv, r) /\ Computed(kv, r) < End(i)
<1> DEFINE n == Computed(kv, r)
           i == n \div BlockSize + 1
<1>1. /\ kv.states[r] \in StateType(T, Z) /\ TableOK(kv.pool.keys, kv.states[r])
  BY DEF TablesOK, StatesOK
<1>2. n \in Nat /\ Len(kv.states[r].blocks) \in Nat /\ n <= End(Len(kv.states[r].blocks))
  BY <1>1 DEF StateType, TableOK, Computed
<1> HIDE DEF n
<1>3. /\ i \in Nat \ {0} /\ i - 1 \in Nat /\ n \div BlockSize = i - 1
      /\ End(i) \in Nat /\ End(i - 1) \in Nat
      /\ End(i - 1) <= n /\ n < End(i)
      /\ n % BlockSize \in 0 .. BlockSize - 1 /\ n = End(i - 1) + (n % BlockSize)
  BY <1>2, PositionFacts
<1>4. End(i - 1) < n
  BY <1>2, <1>3 DEF n
<1>5. i - 1 < Len(kv.states[r].blocks)
  <2>1. End(Len(kv.states[r].blocks)) \in Nat
    BY <1>2, EndFacts
  <2>2. End(i - 1) < End(Len(kv.states[r].blocks))
    BY <1>2, <1>3, <1>4, <2>1
  <2>3. Len(kv.states[r].blocks) <= i - 1 => End(Len(kv.states[r].blocks)) <= End(i - 1)
    BY <1>2, <1>3, EndFacts
  <2> QED BY <1>2, <1>3, <2>1, <2>2, <2>3
<1>6. i \in 1 .. Len(kv.states[r].blocks)
  BY <1>2, <1>3, <1>5
<1> QED BY <1>3, <1>4, <1>6 DEF TailIndex, n

\* The blocks a reservation takes are unused, and each is taken once.
LEMMA FreshFacts ==
  ASSUME NEW T, NEW Z, NEW kv, TablesOK(kv, T, Z), NEW r \in Live(kv), NEW end \in Nat,
         CanReserve(kv, r, end)
  PROVE  LET d     == Demand(kv, r, end)
             fresh == Fresh(kv, r, end)
         IN  /\ Needed(kv, r, end) \in Nat /\ d \in Nat
             /\ d = Needed(kv, r, end) + (IF CopyTail(kv, r, end) THEN 1 ELSE 0)
             /\ end <= End(Len(kv.states[r].blocks) + Needed(kv, r, end))
             /\ fresh \in Seq(Blocks) /\ Len(fresh) = d /\ DistinctList(fresh)
             /\ \A b : Listed(fresh, b) <=> b \in Taken(kv.pool, d)
             /\ Taken(kv.pool, d) \subseteq Blocks
             /\ \A b \in Taken(kv.pool, d) : kv.pool.refCounts[b] = 0
             /\ PoolOK(Allocated(kv.pool, d), Z \X Seq(T))
<1> DEFINE d     == Demand(kv, r, end)
           m     == Needed(kv, r, end)
           l     == Len(kv.states[r].blocks)
           free  == kv.pool.free
           fresh == Fresh(kv, r, end)
<1>1. kv.states[r] \in StateType(T, Z) /\ PoolOK(kv.pool, Z \X Seq(T))
  BY DEF TablesOK, StatesOK
<1>2. l \in Nat /\ CeilDiv(end) \in Nat /\ end <= End(CeilDiv(end))
  <2>1. kv.states[r].blocks \in Seq(Blocks)
    BY <1>1 DEF StateType
  <2>2. l \in Nat
    BY <2>1
  <2> QED BY <2>2, CeilDivFacts
<1>3. m \in Nat /\ CeilDiv(end) <= l + m /\ l + m \in Nat
  <2>1. m = IF CeilDiv(end) - l > 0 THEN CeilDiv(end) - l ELSE 0
    BY DEF Needed
  <2> HIDE DEF l, m
  <2> QED BY <1>2, <2>1
<1>4. end <= End(l + m)
  <2>1. End(CeilDiv(end)) <= End(l + m) /\ End(l + m) \in Nat /\ End(CeilDiv(end)) \in Nat
    BY <1>2, <1>3, EndFacts
  <2> QED BY <1>2, <2>1
<1>5. d \in Nat /\ d = m + (IF CopyTail(kv, r, end) THEN 1 ELSE 0)
  BY <1>3 DEF Demand
<1>6. CanAllocate(kv.pool, d)
  BY DEF CanReserve
<1> HIDE DEF d, m
<1>7. /\ free \in Seq(Blocks) /\ d <= Len(free) /\ Len(free) \in Nat
      /\ \A i, j \in 1 .. Len(free) : free[i] = free[j] => i = j
  BY <1>1, <1>6 DEF PoolOK, PoolType, FreeOK, CanAllocate
<1>8. fresh = SubSeq(free, 1, d)
  BY DEF Fresh, d
<1> HIDE DEF fresh
<1>9. fresh \in Seq(Blocks) /\ Len(fresh) = d /\ \A i \in 1 .. d : fresh[i] = free[i] /\ i \in 1 .. Len(free)
  BY <1>5, <1>7, <1>8
<1>10. DistinctList(fresh)
  BY <1>7, <1>9 DEF DistinctList
<1>11. \A b : Listed(fresh, b) <=> b \in Taken(kv.pool, d)
  BY <1>9 DEF Listed, Taken
<1>12. /\ Taken(kv.pool, d) \subseteq Blocks
       /\ \A b \in Taken(kv.pool, d) : kv.pool.refCounts[b] = 0
       /\ PoolOK(Allocated(kv.pool, d), Z \X Seq(T))
  BY <1>1, <1>5, <1>6, AllocatedOK
<1> QED BY <1>3, <1>4, <1>5, <1>9, <1>10, <1>11, <1>12 DEF d, m, fresh

GivenBlocks(state, blocks) == [state EXCEPT !.blocks = blocks]

\* After a reservation the table of r is its old blocks, but for a tail that had
\* to be copied, and the blocks that were taken.
GrownTable(kv, r, end, blocks) ==
  LET state == kv.states[r]
      d     == Demand(kv, r, end)
      p     == Allocated(kv.pool, d)
  IN  /\ Reserved(kv, r, end) =
           [pool   |-> IF CopyTail(kv, r, end)
                       THEN Released(p, state.blocks[TailIndex(kv, r)]) ELSE p,
            states |-> WithState(kv, r, GivenBlocks(state, blocks))]
      /\ Len(blocks) = Len(state.blocks) + Needed(kv, r, end)
      /\ \A i \in 1 .. Len(blocks) :
           IF i <= Len(state.blocks) /\ ~(CopyTail(kv, r, end) /\ i = TailIndex(kv, r))
           THEN blocks[i] = state.blocks[i] ELSE blocks[i] \in Taken(kv.pool, d)
      /\ CopyTail(kv, r, end) => blocks[TailIndex(kv, r)] = Head(Fresh(kv, r, end))
      /\ DistinctList(blocks)
      /\ \A b \in Taken(kv.pool, d) : Listed(blocks, b)

\* What a reservation that fits makes of the table: the old blocks with the shared
\* tail replaced by a fresh copy, followed by fresh blocks.
LEMMA ReservedShape ==
  ASSUME NEW T, NEW Z, NEW kv, TablesOK(kv, T, Z), NEW r \in Live(kv), NEW end \in Nat,
         CanReserve(kv, r, end)
  PROVE  \E blocks \in Seq(Blocks) : GrownTable(kv, r, end, blocks)
<1> DEFINE state  == kv.states[r]
           d      == Demand(kv, r, end)
           p      == Allocated(kv.pool, d)
           old    == state.blocks
           l      == Len(old)
           m      == Needed(kv, r, end)
           fresh  == Fresh(kv, r, end)
           copy   == CopyTail(kv, r, end)
           tail   == TailIndex(kv, r)
           blocks == IF copy THEN [old EXCEPT ![tail] = Head(fresh)] \o Tail(fresh) ELSE old \o fresh
           kept(i) == i <= l /\ ~(copy /\ i = tail)
           f(i)   == IF copy THEN IF i = tail THEN 1 ELSE i - l + 1 ELSE i - l
<1>1. /\ m \in Nat /\ d \in Nat /\ d = m + (IF copy THEN 1 ELSE 0)
      /\ fresh \in Seq(Blocks) /\ Len(fresh) = d /\ DistinctList(fresh)
      /\ \A b : Listed(fresh, b) <=> b \in Taken(kv.pool, d)
      /\ \A b \in Taken(kv.pool, d) : kv.pool.refCounts[b] = 0
  BY FreshFacts
<1>2. /\ old \in Seq(Blocks) /\ DistinctList(old)
      /\ \A i \in 1 .. l : kv.pool.refCounts[old[i]] > 0
  BY ListIsCounted
<1>3. copy => tail \in 1 .. l
  BY TailFacts DEF CopyTail
<1>4. Reserved(kv, r, end) =
        [pool   |-> IF copy THEN Released(p, old[tail]) ELSE p,
         states |-> WithState(kv, r, GivenBlocks(state, blocks))]
  <2>1. CASE copy
    BY <2>1 DEF Reserved, GivenBlocks
  <2>2. CASE ~copy
    BY <2>2 DEF Reserved, GivenBlocks
  <2> QED BY <2>1, <2>2
<1> HIDE DEF copy, tail, fresh, m, d, p, state
<1>5. /\ blocks \in Seq(Blocks) /\ Len(blocks) = l + m /\ l \in Nat
      /\ \A i \in 1 .. l + m : IF kept(i) THEN blocks[i] = old[i]
                               ELSE f(i) \in 1 .. d /\ blocks[i] = fresh[f(i)]
  <2>1. CASE copy
    <3> DEFINE head == [old EXCEPT ![tail] = Head(fresh)]
    <3>1. /\ tail \in 1 .. l /\ d = m + 1 /\ fresh # <<>> /\ l \in Nat
      BY <1>1, <1>2, <1>3, <2>1
    <3>2. /\ Head(fresh) \in Blocks /\ Head(fresh) = fresh[1]
          /\ Tail(fresh) \in Seq(Blocks) /\ Len(Tail(fresh)) = m
          /\ \A i \in 1 .. m : Tail(fresh)[i] = fresh[i + 1]
      BY <1>1, <3>1
    <3>3. /\ head \in Seq(Blocks) /\ Len(head) = l
          /\ \A i \in 1 .. l : head[i] = IF i = tail THEN fresh[1] ELSE old[i]
      BY <1>2, <3>1, <3>2
    <3> HIDE DEF head
    <3>4. blocks = head \o Tail(fresh)
      BY <2>1 DEF head
    <3> HIDE DEF blocks
    <3>5. /\ blocks \in Seq(Blocks) /\ Len(blocks) = l + m
          /\ \A i \in 1 .. l : blocks[i] = head[i]
          /\ \A i \in l + 1 .. l + m : blocks[i] = Tail(fresh)[i - l]
      <4> DEFINE rest == Tail(fresh)
      <4>1. /\ head \in Seq(Blocks) /\ rest \in Seq(Blocks) /\ blocks = head \o rest
            /\ l = Len(head) /\ m = Len(rest)
        BY <3>2, <3>3, <3>4
      <4> HIDE DEF rest, l
      <4>2. /\ blocks \in Seq(Blocks) /\ Len(blocks) = l + m
            /\ \A i \in 1 .. l : blocks[i] = head[i]
            /\ \A i \in l + 1 .. l + m : blocks[i] = rest[i - l]
        BY ONLY <4>1
      <4> QED BY <4>2 DEF rest
    <3> HIDE DEF l
    <3>6. ASSUME NEW i \in 1 .. l + m
          PROVE  IF kept(i) THEN blocks[i] = old[i] ELSE f(i) \in 1 .. d /\ blocks[i] = fresh[f(i)]
      <4>1. CASE i <= l
        <5>1. i \in 1 .. l
          BY <3>1, <4>1
        <5> QED BY <1>1, <2>1, <3>1, <3>3, <3>5, <5>1
      <4>2. CASE l < i
        <5>1. i \in l + 1 .. l + m /\ i - l \in 1 .. m /\ i # tail /\ (i - l) + 1 = i - l + 1
          BY <1>1, <3>1, <4>2
        <5>2. blocks[i] = fresh[i - l + 1]
          BY <3>2, <3>5, <5>1
        <5>3. ~kept(i) /\ f(i) = i - l + 1 /\ f(i) \in 1 .. d
          BY <1>1, <2>1, <3>1, <4>2, <5>1
        <5> QED BY <5>2, <5>3
      <4> QED BY <3>1, <4>1, <4>2
    <3> QED BY <3>1, <3>5, <3>6
  <2>2. CASE ~copy
    <3>1. d = m /\ l \in Nat
      BY <1>1, <1>2, <2>2
    <3>2. blocks = old \o fresh
      BY <2>2
    <3> HIDE DEF blocks
    <3>3. /\ blocks \in Seq(Blocks) /\ Len(blocks) = l + m
          /\ \A i \in 1 .. l : blocks[i] = old[i]
          /\ \A i \in l + 1 .. l + m : blocks[i] = fresh[i - l]
      <4>1. /\ old \in Seq(Blocks) /\ fresh \in Seq(Blocks) /\ blocks = old \o fresh
            /\ l = Len(old) /\ m = Len(fresh)
        BY <1>1, <1>2, <3>1, <3>2
      <4> HIDE DEF old, l
      <4> QED BY ONLY <4>1
    <3> HIDE DEF l
    <3>4. ASSUME NEW i \in 1 .. l + m
          PROVE  IF kept(i) THEN blocks[i] = old[i] ELSE f(i) \in 1 .. d /\ blocks[i] = fresh[f(i)]
      <4>1. i \in 1 .. l \/ i \in l + 1 .. l + m
        BY <1>1, <3>1
      <4> QED BY <1>1, <2>2, <3>1, <3>3, <4>1
    <3> QED BY <3>1, <3>3, <3>4
  <2> QED BY <2>1, <2>2
<1>6. copy => blocks[tail] = Head(fresh)
  <2> SUFFICES ASSUME copy PROVE blocks[tail] = Head(fresh)
    OBVIOUS
  <2>1. tail \in 1 .. l + m /\ ~kept(tail) /\ f(tail) = 1 /\ fresh # <<>>
    BY <1>1, <1>3, <1>5
  <2>2. Head(fresh) = fresh[1]
    BY <1>1, <2>1
  <2> HIDE DEF blocks
  <2> QED BY <1>5, <2>1, <2>2
<1> HIDE DEF blocks, l
<1>7. \A i \in 1 .. d : Listed(fresh, fresh[i]) /\ fresh[i] \in Taken(kv.pool, d)
  BY <1>1 DEF Listed
<1>8. \A i \in 1 .. l + m : ~kept(i) => blocks[i] \in Taken(kv.pool, d)
  BY <1>5, <1>7
<1>9. \A i \in 1 .. l + m : kept(i) => i \in 1 .. l /\ blocks[i] = old[i]
                                         /\ kv.pool.refCounts[blocks[i]] > 0
  <2>1. \A i \in 1 .. l : kv.pool.refCounts[old[i]] > 0
    BY <1>2 DEF l
  <2> HIDE DEF old
  <2>2. \A i \in 1 .. l + m : kept(i) => i \in 1 .. l /\ blocks[i] = old[i]
    BY <1>5
  <2> QED BY <2>1, <2>2
<1>10. DistinctList(blocks)
  <2> SUFFICES ASSUME NEW i \in 1 .. l + m, NEW j \in 1 .. l + m, blocks[i] = blocks[j] PROVE i = j
    BY <1>5 DEF DistinctList
  <2>1. CASE kept(i) /\ kept(j)
    BY <1>2, <1>9, <2>1 DEF DistinctList, l
  <2>2. CASE ~kept(i) /\ ~kept(j)
    <3>1. f(i) \in 1 .. d /\ f(j) \in 1 .. d /\ fresh[f(i)] = fresh[f(j)]
      BY <1>5, <2>2
    <3>2. f(i) = f(j)
      BY <1>1, <3>1 DEF DistinctList
    <3> QED BY <1>1, <1>3, <1>5, <2>2, <3>2
  <2>3. CASE ~(kept(i) <=> kept(j))
    <3>1. /\ kv.pool.refCounts[blocks[i]] > 0
          /\ kv.pool.refCounts[blocks[i]] = 0
      BY <1>1, <1>8, <1>9, <2>3
    <3> QED BY <3>1
  <2> QED BY <2>1, <2>2, <2>3
<1>11. ASSUME NEW b \in Taken(kv.pool, d) PROVE Listed(blocks, b)
  <2>1. PICK k \in 1 .. d : fresh[k] = b
    BY <1>1 DEF Listed
  <2> DEFINE i == IF copy THEN IF k = 1 THEN tail ELSE l + k - 1 ELSE l + k
  <2>2. i \in 1 .. l + m /\ ~kept(i) /\ f(i) = k
    BY <1>1, <1>3, <1>5
  <2> HIDE DEF i
  <2>3. blocks[i] = b
    BY <1>5, <2>1, <2>2
  <2> QED BY <1>5, <2>2, <2>3 DEF Listed
<1>12. blocks \in Seq(Blocks) /\ Len(blocks) = l + m
  BY <1>5
<1>13. GrownTable(kv, r, end, blocks)
  BY <1>4, <1>6, <1>8, <1>9, <1>10, <1>11, <1>12
  DEF GrownTable, copy, tail, fresh, m, l, d, p, state
<1> QED BY <1>12, <1>13

\* The next n positions of a request are in blocks that nobody else has.
Own(kv, r, n) ==
  LET state == kv.states[r]
      first == Len(state.tokens)
  IN  /\ first + n <= End(Len(state.blocks))
      /\ \A pos \in first .. first + n - 1, s \in Live(kv) \ {r} :
           ~Listed(kv.states[s].blocks, SlotBlock(state, pos))

\* A reservation leaves the tokens and every other table alone, unpublishes
\* unused blocks at most, keeps the blocks of committed tokens but for a copied
\* tail, and gives the request the positions up to its end for itself.
LEMMA ReservedOK ==
  ASSUME NEW T, NEW Z, NEW kv, TablesOK(kv, T, Z), NEW r \in Live(kv), NEW end \in Nat,
         CanReserve(kv, r, end),
         NEW q, q = Reserved(kv, r, end)
  PROVE  /\ TablesOK(q, T, Z)
         /\ Live(q) = Live(kv)
         /\ \A s \in Live(kv) \ {r} : q.states[s] = kv.states[s]
         /\ q.states[r].tokens = kv.states[r].tokens /\ q.states[r].salt = kv.states[r].salt
         /\ Len(kv.states[r].blocks) <= Len(q.states[r].blocks)
         /\ \A i \in 1 .. Len(q.states[r].blocks) :
              \/ i <= Len(kv.states[r].blocks) /\ q.states[r].blocks[i] = kv.states[r].blocks[i]
              \/ kv.pool.refCounts[q.states[r].blocks[i]] = 0
         /\ \A i \in 1 .. Len(kv.states[r].blocks) :
              IF CopyTail(kv, r, end) /\ i = TailIndex(kv, r)
              THEN q.states[r].blocks[i] = Head(Fresh(kv, r, end))
              ELSE q.states[r].blocks[i] = kv.states[r].blocks[i]
         /\ \A b \in Blocks : q.pool.keys[b] # NoKey => q.pool.keys[b] = kv.pool.keys[b]
         /\ CopyTail(kv, r, end) => q.pool.keys[Head(Fresh(kv, r, end))] = NoKey
         /\ \A n \in Nat : Len(kv.states[r].tokens) + n = end => Own(q, r, n)
         /\ \A s \in Live(kv) \ {r}, n \in Nat : Own(kv, s, n) => Own(q, s, n)
<1> DEFINE state == kv.states[r]
           old   == state.blocks
           l     == Len(old)
           m     == Needed(kv, r, end)
           copy  == CopyTail(kv, r, end)
           tail  == TailIndex(kv, r)
           d     == Demand(kv, r, end)
           taken == Taken(kv.pool, d)
           p     == Allocated(kv.pool, d)
           p1    == IF copy THEN Released(p, old[tail]) ELSE p
           K     == Z \X Seq(T)
<1>1. /\ m \in Nat /\ d \in Nat
      /\ taken \subseteq Blocks /\ \A b \in taken : kv.pool.refCounts[b] = 0
      /\ PoolOK(p, K)
      /\ end <= End(l + m)
  BY FreshFacts
<1>0. PICK blocks \in Seq(Blocks) : GrownTable(kv, r, end, blocks)
  BY ReservedShape
<1>2. /\ q = [pool |-> p1, states |-> WithState(kv, r, GivenBlocks(state, blocks))]
      /\ Len(blocks) = l + m
      /\ \A i \in 1 .. Len(blocks) : IF i <= l /\ ~(copy /\ i = tail)
                                     THEN blocks[i] = old[i] ELSE blocks[i] \in taken
      /\ copy => blocks[tail] = Head(Fresh(kv, r, end))
      /\ DistinctList(blocks)
      /\ \A b \in taken : Listed(blocks, b)
  BY <1>0 DEF GrownTable
<1> DEFINE new == GivenBlocks(state, blocks)
<1>3. /\ state \in StateType(T, Z) /\ TableOK(kv.pool.keys, state)
      /\ \A s \in Live(kv) \ {r} : /\ kv.states[s] \in StateType(T, Z)
                                   /\ TableOK(kv.pool.keys, kv.states[s])
                                   /\ Sharing(state, kv.states[s])
      /\ PoolOK(kv.pool, K) /\ NoKey \notin K
  BY DEF TablesOK, StatesOK, PoolOK
<1>4. /\ old \in Seq(Blocks) /\ DistinctList(old)
      /\ \A i \in 1 .. l : old[i] \in Blocks /\ kv.pool.refCounts[old[i]] > 0
  BY ListIsCounted
<1>5. copy => /\ tail \in 1 .. l /\ kv.pool.refCounts[old[tail]] > 1
              /\ end > Len(state.tokens) /\ Len(state.tokens) % BlockSize # 0
  BY TailFacts DEF CopyTail, Computed
<1>6. \A b : b \in taken => ~\E s \in Live(kv) : Listed(kv.states[s].blocks, b)
  BY <1>1, CountedIsUsed
<1> HIDE DEF copy, tail, m, d, taken
<1>7. /\ p.refCounts = [b \in Blocks |-> IF b \in taken THEN 1 ELSE kv.pool.refCounts[b]]
      /\ p.keys = [b \in Blocks |-> IF b \in taken THEN NoKey ELSE kv.pool.keys[b]]
  BY DEF Allocated, taken
<1> HIDE DEF p
<1>8. /\ PoolOK(p1, K) /\ p1.keys = p.keys
      /\ \A b \in Blocks : p1.refCounts[b] = IF copy /\ b = old[tail]
                                             THEN kv.pool.refCounts[b] - 1
                                             ELSE IF b \in taken THEN 1 ELSE kv.pool.refCounts[b]
  <2>1. CASE copy
    <3>1. old[tail] \in Blocks /\ old[tail] \notin taken /\ kv.pool.refCounts[old[tail]] > 1
      BY <1>1, <1>4, <1>5, <2>1
    <3> DEFINE b == old[tail]
    <3>2. p1 = Released(p, b)
      BY <2>1
    <3> HIDE DEF b, p1
    <3>3. p.refCounts[b] = kv.pool.refCounts[b] /\ p.refCounts[b] > 1 /\ p.refCounts[b] \in Nat
      BY <1>3, <1>7, <3>1 DEF b, PoolOK, PoolType
    <3>4. CanRelease(p, b)
      BY <3>3 DEF CanRelease
    <3>5. PoolOK(p1, K)
      BY <1>1, <3>1, <3>2, <3>4, ReleasedOK DEF b
    <3>6. /\ p1.keys = p.keys
          /\ p1.refCounts = [p.refCounts EXCEPT ![b] = @ - 1]
      BY <3>2 DEF Released
    <3>7. ASSUME NEW c \in Blocks
          PROVE  p1.refCounts[c] = IF c = b THEN kv.pool.refCounts[c] - 1
                                   ELSE IF c \in taken THEN 1 ELSE kv.pool.refCounts[c]
      BY <1>7, <3>1, <3>3, <3>6
    <3> QED BY <2>1, <3>5, <3>6, <3>7 DEF b
  <2>2. CASE ~copy
    BY <1>1, <1>7, <2>2
  <2> QED BY <2>1, <2>2
<1> HIDE DEF p1
<1>9. /\ new \in StateType(T, Z) /\ new.blocks = blocks
      /\ new.tokens = state.tokens /\ new.salt = state.salt
  BY <1>3 DEF GivenBlocks, StateType
<1> HIDE DEF new, state
<1>10. /\ l \in Nat /\ l <= l + m /\ End(l) <= End(l + m) /\ End(l) \in Nat /\ End(l + m) \in Nat
       /\ Len(state.tokens) \in Nat
  <2>1. l \in Nat /\ Len(state.tokens) \in Nat
    BY <1>3, <1>4 DEF StateType
  <2> HIDE DEF l
  <2>2. l + m \in Nat /\ l <= l + m
    BY <1>1, <2>1
  <2>3. End(l) <= End(l + m) /\ End(l) \in Nat /\ End(l + m) \in Nat
    BY <2>1, <2>2, EndFacts
  <2> QED BY <2>1, <2>2, <2>3
<1>11. \A b \in Blocks : p1.keys[b] = IF b \in taken THEN NoKey ELSE kv.pool.keys[b]
  BY <1>7, <1>8
<1>12. \A i \in 1 .. l + m : \/ blocks[i] \in taken
                             \/ i \in 1 .. l /\ blocks[i] = old[i] /\ ~(copy /\ i = tail)
  <2> HIDE DEF l
  <2> QED BY <1>2, <1>10
<1>13. TableOK(p1.keys, new)
  <2>1. ASSUME NEW i \in 1 .. l + m, p1.keys[blocks[i]] # NoKey
        PROVE  End(i) <= Len(state.tokens) /\ p1.keys[blocks[i]] = PrefixKey(state.salt, state.tokens, i)
    <3>1. blocks[i] \in Blocks /\ blocks[i] \notin taken
      BY <1>2, <1>11, <2>1
    <3>2. i \in 1 .. l /\ blocks[i] = old[i] /\ p1.keys[blocks[i]] = kv.pool.keys[old[i]]
      BY <1>11, <1>12, <3>1
    <3> QED BY <1>3, <2>1, <3>2 DEF TableOK
  <2>2. Len(state.tokens) <= End(l + m)
    BY <1>3, <1>10 DEF TableOK
  <2> QED BY <1>2, <1>9, <2>1, <2>2 DEF TableOK
<1>14. ASSUME NEW s \in Live(kv) \ {r} PROVE TableOK(p1.keys, kv.states[s])
  <2>1. \A i \in 1 .. Len(kv.states[s].blocks) :
          kv.states[s].blocks[i] \in Blocks /\ kv.states[s].blocks[i] \notin taken
    BY <1>3, <1>6 DEF StateType, Listed
  <2>2. TableOK(kv.pool.keys, kv.states[s])
    BY <1>3
  <2> QED BY <1>11, <2>1, <2>2 DEF TableOK
<1>15. ASSUME NEW s \in Live(kv) \ {r} PROVE Sharing(new, kv.states[s])
  <2> DEFINE t == kv.states[s]
  <2>1. Sharing(state, t) /\ \A b \in taken : ~Listed(t.blocks, b)
    BY <1>3, <1>6
  <2> HIDE DEF t
  <2>2. \A i \in 1 .. l + m, j \in 1 .. Len(t.blocks) :
          blocks[i] = t.blocks[j] => i \in 1 .. l /\ old[i] = t.blocks[j]
    BY <1>12, <2>1 DEF Listed
  <2>3. Sharing(new, t)
    BY <1>2, <1>9, <2>1, <2>2 DEF Sharing
  <2> QED BY <2>3 DEF t
<1>16. \A b \in Blocks :
         LET before == Listed(kv.states[r].blocks, b)
             after  == Listed(new.blocks, b)
         IN  p1.refCounts[b] = IF before /\ ~after THEN kv.pool.refCounts[b] - 1
                               ELSE IF after /\ ~before THEN kv.pool.refCounts[b] + 1
                               ELSE kv.pool.refCounts[b]
  <2> SUFFICES ASSUME NEW b \in Blocks
               PROVE  LET before == Listed(old, b)
                          after  == Listed(blocks, b)
                      IN  p1.refCounts[b] = IF before /\ ~after THEN kv.pool.refCounts[b] - 1
                                            ELSE IF after /\ ~before THEN kv.pool.refCounts[b] + 1
                                            ELSE kv.pool.refCounts[b]
    BY <1>9 DEF state
  <2>1. CASE b \in taken
    <3>1. Listed(blocks, b) /\ ~Listed(old, b) /\ kv.pool.refCounts[b] = 0
      BY <1>1, <1>2, <1>6, <2>1 DEF state
    <3>2. ~(copy /\ b = old[tail])
      BY <1>5, <3>1
    <3> QED BY <1>8, <2>1, <3>1, <3>2
  <2>2. CASE b \notin taken /\ copy /\ b = old[tail]
    <3>1. Listed(old, b)
      BY <1>5, <2>2 DEF Listed
    <3>2. ASSUME NEW i \in 1 .. l + m, blocks[i] = b PROVE FALSE
      <4>1. i \in 1 .. l /\ old[i] = old[tail] /\ i # tail
        BY <1>12, <2>2, <3>2
      <4> QED BY <1>4, <1>5, <2>2, <4>1 DEF DistinctList
    <3>3. ~Listed(blocks, b)
      BY <1>2, <3>2 DEF Listed
    <3> QED BY <1>8, <2>2, <3>1, <3>3
  <2>3. CASE b \notin taken /\ ~(copy /\ b = old[tail])
    <3>1. ASSUME Listed(old, b) PROVE Listed(blocks, b)
      <4>1. PICK i \in 1 .. l : old[i] = b
        BY <3>1 DEF Listed
      <4>2. i \in 1 .. l + m /\ i <= l
        BY <1>1, <1>10
      <4>3. blocks[i] = b
        BY <1>2, <2>3, <4>1, <4>2
      <4> QED BY <1>2, <4>2, <4>3 DEF Listed
    <3>2. ASSUME Listed(blocks, b) PROVE Listed(old, b)
      BY <1>2, <1>12, <2>3, <3>2 DEF Listed
    <3> QED BY <1>8, <2>3, <3>1, <3>2
  <2> QED BY <2>1, <2>2, <2>3
<1>17. TablesOK(q, T, Z)
  BY <1>2, <1>8, <1>9, <1>13, <1>14, <1>15, <1>16, TableReplaced DEF new
<1>18. kv.states \in [Live(kv) -> StateType(T, Z)]
  BY DEF TablesOK, StatesOK
<1>19. /\ Live(q) = Live(kv) /\ q.states[r] = new /\ q.pool = p1
       /\ \A s \in Live(kv) \ {r} : q.states[s] = kv.states[s]
  BY <1>2, <1>18 DEF WithState, Live, new
<1>20. ASSUME NEW n \in Nat, Len(state.tokens) + n = end PROVE Own(q, r, n)
  <2> SUFFICES ASSUME NEW pos \in Len(state.tokens) .. end - 1, NEW s \in Live(kv) \ {r},
                      Listed(kv.states[s].blocks, SlotBlock(new, pos))
               PROVE  FALSE
    <3>1. /\ q.states[r].tokens = state.tokens /\ Len(q.states[r].blocks) = l + m
          /\ q.states[r] = new
      BY <1>2, <1>9, <1>19
    <3> HIDE DEF l
    <3>2. Len(state.tokens) + n <= End(l + m)
      BY <1>1, <1>20
    <3>3. \A pos \in Len(state.tokens) .. end - 1, s \in Live(kv) \ {r} :
            ~Listed(q.states[s].blocks, SlotBlock(new, pos))
      BY <1>19
    <3> QED BY <1>19, <1>20, <3>1, <3>2, <3>3 DEF Own
  <2> DEFINE i == pos \div BlockSize + 1
             t == kv.states[s]
  <2>1. pos \in Nat /\ Len(state.tokens) <= pos /\ pos < end /\ pos < End(l + m) /\ l + m \in Nat
    BY <1>1, <1>10
  <2>2. /\ i \in 1 .. l + m /\ i - 1 \in Nat
        /\ End(i) \in Nat /\ End(i - 1) \in Nat /\ End(i - 1) <= pos /\ pos < End(i)
    BY <2>1, PositionFacts, PositionInTable
  <2>3. SlotBlock(new, pos) = blocks[i]
    BY <1>9 DEF SlotBlock
  <2> HIDE DEF i
  <2>4. blocks[i] \notin taken
    BY <1>6, <2>3
  <2>5. i \in 1 .. l /\ blocks[i] = old[i] /\ ~(copy /\ i = tail)
    BY <1>12, <2>2, <2>4
  <2>6. PICK j \in 1 .. Len(t.blocks) : old[i] = t.blocks[j]
    BY <2>3, <2>5 DEF Listed
  <2>7. Sharing(state, t)
    BY <1>3
  <2> HIDE DEF t
  <2>8. End(i - 1) < Len(state.tokens)
    BY <2>5, <2>6, <2>7 DEF Sharing
  <2>9. /\ Len(state.tokens) \div BlockSize = i - 1
        /\ Len(state.tokens) % BlockSize # 0
    <3>1. Len(state.tokens) < End(i)
      BY <1>10, <2>1, <2>2
    <3> DEFINE len == Len(state.tokens)
    <3>0. len \in Nat /\ len < End(i) /\ i \in Nat
      BY <1>10, <2>2, <3>1
    <3> HIDE DEF len
    <3>2. len \div BlockSize + 1 <= i
      BY <3>0, PositionFacts
    <3> USE DEF len
    <3> DEFINE c == Len(state.tokens) \div BlockSize
    <3>3. /\ c \in Nat /\ Len(state.tokens) = End(c) + (Len(state.tokens) % BlockSize)
          /\ \A k \in Nat : k <= c <=> End(k) <= Len(state.tokens)
      BY <1>10, SlotFacts
    <3>4. i - 1 <= c
      BY <1>10, <2>2, <2>8, <3>3
    <3> HIDE DEF c
    <3>5. c = i - 1
      BY <2>2, <3>2, <3>3, <3>4 DEF c
    <3>6. Len(state.tokens) % BlockSize # 0
      BY <1>10, <2>2, <2>8, <3>3, <3>5
    <3> QED BY <3>5, <3>6 DEF c
  <2>10. i = tail
    BY <2>2, <2>9 DEF tail, TailIndex, Computed, state
  <2>11. kv.pool.refCounts[old[i]] > 1
    <3>1. Listed(kv.states[r].blocks, old[i]) /\ Listed(kv.states[s].blocks, old[i])
      BY <2>5, <2>6 DEF Listed, state, t
    <3>2. old[i] \in Blocks
      BY <1>4, <2>5
    <3> QED BY <3>1, <3>2, CountedIsUsed
  <2>12. copy
    BY <1>10, <2>1, <2>9, <2>10, <2>11 DEF copy, CopyTail, Computed, tail, state
  <2> QED BY <2>5, <2>10, <2>12
<1>21. ASSUME NEW s \in Live(kv) \ {r}, NEW n \in Nat, Own(kv, s, n) PROVE Own(q, s, n)
  <2> DEFINE t == kv.states[s]
             f == Len(t.tokens)
  <2>1. /\ f + n <= End(Len(t.blocks)) /\ f \in Nat /\ Len(t.blocks) \in Nat
        /\ \A i \in 1 .. Len(t.blocks) : Listed(t.blocks, t.blocks[i])
    BY <1>3, <1>21 DEF Own, StateType, Listed
  <2>2. ASSUME NEW pos \in f .. f + n - 1 PROVE ~Listed(blocks, SlotBlock(t, pos))
    <3>1. Listed(t.blocks, SlotBlock(t, pos)) /\ ~Listed(old, SlotBlock(t, pos))
      <4>1. pos \in Nat /\ pos < End(Len(t.blocks))
        <5>1. End(Len(t.blocks)) \in Nat
          BY <2>1, EndFacts
        <5> HIDE DEF f
        <5> QED BY <2>1, <5>1
      <4>2. pos \div BlockSize + 1 \in 1 .. Len(t.blocks)
        BY <2>1, <4>1, PositionInTable
      <4> QED BY <1>21, <2>1, <4>2 DEF Own, SlotBlock, state
    <3>2. SlotBlock(t, pos) \notin taken
      BY <1>6, <3>1
    <3> QED BY <1>2, <1>12, <3>1, <3>2 DEF Listed
  <2>3. /\ Live(q) = Live(kv) /\ q.states[s] = t
        /\ \A x \in Live(kv) \ {s} : \/ q.states[x] = kv.states[x]
                                     \/ q.states[x].blocks = blocks
    BY <1>9, <1>19
  <2> QED BY <1>21, <2>1, <2>2, <2>3 DEF Own
<1>22. copy => p1.keys[Head(Fresh(kv, r, end))] = NoKey
  <2> SUFFICES ASSUME copy PROVE p1.keys[blocks[tail]] = NoKey
    BY <1>2
  <2>1. tail \in 1 .. l + m
    BY <1>1, <1>5, <1>10
  <2>2. blocks[tail] \in taken
    BY <1>12, <2>1
  <2> QED BY <1>1, <1>11, <2>2
<1>23. \A i \in 1 .. l : IF copy /\ i = tail THEN blocks[i] = Head(Fresh(kv, r, end))
                         ELSE blocks[i] = old[i]
  <2> SUFFICES ASSUME NEW i \in 1 .. l
               PROVE  IF copy /\ i = tail THEN blocks[i] = Head(Fresh(kv, r, end))
                      ELSE blocks[i] = old[i]
    OBVIOUS
  <2>1. i \in 1 .. l + m /\ i <= l
    BY <1>1, <1>10
  <2> QED BY <1>2, <2>1
<1>24. \A i \in 1 .. l + m : \/ i <= l /\ blocks[i] = old[i]
                             \/ kv.pool.refCounts[blocks[i]] = 0
  BY <1>1, <1>12
<1>25. \A b \in Blocks : p1.keys[b] # NoKey => p1.keys[b] = kv.pool.keys[b]
  BY <1>11
<1>26. l <= Len(blocks)
  BY <1>2, <1>10
<1> QED
  BY <1>2, <1>9, <1>17, <1>19, <1>20, <1>21, <1>22, <1>23, <1>24, <1>25, <1>26 DEF state, copy, tail

-----------------------------------------------------------------------------
(* A reservation that is undone, and clearing the index.                    *)

\* Tables that stay while some of their blocks are unpublished are tables.
LEMMA TablesKept ==
  ASSUME NEW T, NEW Z, NEW kv, TablesOK(kv, T, Z), NEW p, PoolOK(p, Z \X Seq(T)),
         \A b \in Blocks : p.refCounts[b] = kv.pool.refCounts[b],
         \A b \in Blocks : p.keys[b] # NoKey => p.keys[b] = kv.pool.keys[b]
  PROVE  TablesOK([kv EXCEPT !.pool = p], T, Z)
<1> DEFINE q == [kv EXCEPT !.pool = p]
<1>1. q.pool = p /\ q.states = kv.states /\ q = [pool |-> q.pool, states |-> q.states]
  BY DEF TablesOK, StatesOK
<1> HIDE DEF q
<1>2. Live(q) = Live(kv) /\ \A b : Using(q, b) = Using(kv, b)
  BY <1>1 DEF Live, Using
<1>3. StatesOK(q, T, Z) /\ CountsOK(q)
  BY <1>1, <1>2 DEF TablesOK, StatesOK, CountsOK
<1>4. ASSUME NEW r \in Live(kv) PROVE TableOK(p.keys, kv.states[r])
  <2>1. TableOK(kv.pool.keys, kv.states[r]) /\ kv.states[r].blocks \in Seq(Blocks)
    BY DEF TablesOK, StatesOK, StateType
  <2>2. \A i \in 1 .. Len(kv.states[r].blocks) : kv.states[r].blocks[i] \in Blocks
    BY <2>1
  <2> QED BY <2>1, <2>2 DEF TableOK
<1>5. TablesOK(q, T, Z)
  BY <1>1, <1>2, <1>3, <1>4 DEF TablesOK
<1> QED BY <1>5 DEF q

\* Clearing the prefix index leaves the tables consistent.
LEMMA ClearedTablesOK ==
  ASSUME NEW T, NEW Z, NEW kv, TablesOK(kv, T, Z)
  PROVE  TablesOK([kv EXCEPT !.pool = Cleared(kv.pool)], T, Z)
<1> DEFINE p == Cleared(kv.pool)
<1>1. PoolOK(p, Z \X Seq(T))
  BY ClearedOK DEF TablesOK
<1>2. \A b \in Blocks : p.keys[b] = NoKey /\ p.refCounts[b] = kv.pool.refCounts[b]
  BY DEF Cleared
<1> HIDE DEF p
<1>3. TablesOK([kv EXCEPT !.pool = p], T, Z)
  BY <1>1, <1>2, TablesKept
<1> QED BY <1>3 DEF p

\* A reservation that raises leaves the tables as they were; a block it had taken
\* is free again and out of the index.
LEMMA UndoneOK ==
  ASSUME NEW T, NEW Z, NEW kv, TablesOK(kv, T, Z), NEW r \in Live(kv), NEW end \in Nat,
         CanReserve(kv, r, end),
         NEW q, q = ReservationUndone(kv, r, end)
  PROVE  /\ TablesOK(q, T, Z)
         /\ q.states = kv.states
         /\ \A b \in Blocks : q.pool.keys[b] # NoKey => q.pool.keys[b] = kv.pool.keys[b]
         /\ CopyTail(kv, r, end) => /\ kv.pool.refCounts[Head(Fresh(kv, r, end))] = 0
                                    /\ Head(Fresh(kv, r, end)) \in Blocks
                                    /\ q.pool.keys[Head(Fresh(kv, r, end))] = NoKey
<1> DEFINE d     == Demand(kv, r, end)
           fresh == Fresh(kv, r, end)
           taken == Taken(kv.pool, d)
           p     == Allocated(kv.pool, d)
           p1    == ReleasedAll(p, fresh)
           K     == Z \X Seq(T)
<1>1. /\ Needed(kv, r, end) \in Nat /\ d \in Nat
      /\ d = Needed(kv, r, end) + (IF CopyTail(kv, r, end) THEN 1 ELSE 0)
      /\ fresh \in Seq(Blocks) /\ Len(fresh) = d /\ DistinctList(fresh)
      /\ \A b : Listed(fresh, b) <=> b \in taken
      /\ taken \subseteq Blocks
      /\ \A b \in taken : kv.pool.refCounts[b] = 0
      /\ PoolOK(p, K)
  BY FreshFacts
<1>2. /\ p.refCounts = [b \in Blocks |-> IF b \in taken THEN 1 ELSE kv.pool.refCounts[b]]
      /\ p.keys = [b \in Blocks |-> IF b \in taken THEN NoKey ELSE kv.pool.keys[b]]
  BY DEF Allocated
<1>3. q = [kv EXCEPT !.pool = p1]
  BY DEF ReservationUndone
<1> HIDE DEF d, fresh, taken, p
<1>4. \A i \in 1 .. Len(fresh) : fresh[i] \in taken /\ p.refCounts[fresh[i]] > 0
  <2>1. \A i \in 1 .. Len(fresh) : fresh[i] \in taken
    BY <1>1 DEF Listed
  <2> QED BY <1>1, <1>2, <2>1
<1>5. /\ PoolOK(p1, K) /\ p1.keys = p.keys
      /\ \A b \in Blocks : p1.refCounts[b] = IF Listed(fresh, b)
                                             THEN p.refCounts[b] - 1 ELSE p.refCounts[b]
  BY <1>1, <1>4, ReleasedAllOK
<1> HIDE DEF p1
<1>6. \A b \in Blocks : p1.refCounts[b] = kv.pool.refCounts[b]
  BY <1>1, <1>2, <1>5
<1>7. \A b \in Blocks : p1.keys[b] # NoKey => p1.keys[b] = kv.pool.keys[b]
  BY <1>2, <1>5
<1>8. TablesOK(q, T, Z)
  BY <1>3, <1>5, <1>6, <1>7, TablesKept
<1>9. q.states = kv.states /\ q.pool = p1
  BY <1>3 DEF TablesOK, StatesOK
<1>10. ASSUME CopyTail(kv, r, end)
       PROVE  Head(fresh) \in taken
  <2>1. 1 \in 1 .. Len(fresh)
    BY <1>1, <1>10
  <2>2. Head(fresh) = fresh[1]
    BY <1>1, <2>1
  <2> QED BY <1>4, <2>1, <2>2
<1> QED BY <1>1, <1>2, <1>5, <1>7, <1>8, <1>9, <1>10 DEF fresh

-----------------------------------------------------------------------------
(* commit.                                                                  *)

\* Committing tokens to positions a request has for itself keeps the tables
\* right, changes no other request and no block, and publishes only blocks of
\* its table.
LEMMA CommittedOK ==
  ASSUME NEW T, NEW Z, NEW kv, TablesOK(kv, T, Z), NEW r \in Live(kv),
         NEW new \in Seq(T), NEW n \in Nat, Len(new) <= n, Own(kv, r, n),
         NEW q, q = Committed(kv, r, new)
  PROVE  /\ TablesOK(q, T, Z)
         /\ Live(q) = Live(kv)
         /\ \A s \in Live(kv) \ {r} : q.states[s] = kv.states[s]
         /\ q.states[r].tokens = kv.states[r].tokens \o new
         /\ q.states[r].blocks = kv.states[r].blocks /\ q.states[r].salt = kv.states[r].salt
         /\ \A b \in Blocks : \/ q.pool.keys[b] = kv.pool.keys[b]
                              \/ Listed(kv.states[r].blocks, b)
         /\ \A s \in Live(kv) \ {r}, k \in Nat : Own(kv, s, k) => Own(q, s, k)
<1> DEFINE old   == kv.states[r]
           state == [old EXCEPT !.tokens = @ \o new]
           len   == Len(old.tokens)
           known == len \div BlockSize
           full  == IF EnablePrefixCache THEN Len(state.tokens) \div BlockSize ELSE known
           l     == Len(old.blocks)
           p     == PublishedUpTo(kv.pool, state, known, full)
           K     == Z \X Seq(T)
<1>1. /\ old \in StateType(T, Z) /\ TableOK(kv.pool.keys, old)
      /\ \A s \in Live(kv) \ {r} : /\ kv.states[s] \in StateType(T, Z)
                                   /\ TableOK(kv.pool.keys, kv.states[s])
                                   /\ Sharing(old, kv.states[s])
      /\ PoolOK(kv.pool, K) /\ NoKey \notin K
      /\ kv.states \in [Live(kv) -> StateType(T, Z)]
  BY DEF TablesOK, StatesOK, PoolOK
<1>2. /\ old.blocks \in Seq(Blocks) /\ DistinctList(old.blocks)
      /\ \A i \in 1 .. l : old.blocks[i] \in Blocks /\ kv.pool.refCounts[old.blocks[i]] > 0
  BY ListIsCounted
<1>3. q = [pool |-> p, states |-> WithState(kv, r, state)]
  BY DEF Committed, Computed
<1>4. /\ state \in StateType(T, Z) /\ state.blocks = old.blocks /\ state.salt = old.salt
      /\ state.tokens = old.tokens \o new
  <2>1. old.tokens \o new \in Seq(T)
    BY <1>1 DEF StateType
  <2> QED BY <1>1, <2>1 DEF StateType
<1>5. /\ old.tokens \in Seq(T) /\ old.salt \in Z /\ len \in Nat /\ l \in Nat /\ Len(new) \in Nat
      /\ state.tokens \in Seq(T) /\ Len(state.tokens) = len + Len(new)
      /\ \A m \in 0 .. len : SubSeq(state.tokens, 1, m) = SubSeq(old.tokens, 1, m)
  <2>1. old.tokens \in Seq(T) /\ old.salt \in Z /\ len \in Nat /\ l \in Nat /\ Len(new) \in Nat
    BY <1>1 DEF StateType
  <2>2. \A m \in 0 .. len :
          /\ old.tokens \o new \in Seq(T) /\ Len(old.tokens \o new) = len + Len(new)
          /\ SubSeq(old.tokens \o new, 1, m) = SubSeq(old.tokens, 1, m)
    BY <2>1, PrefixOfConcat
  <2>3. 0 \in 0 .. len
    BY <2>1
  <2> QED BY <1>4, <2>1, <2>2, <2>3
<1>6. /\ len + n <= End(l)
      /\ \A pos \in len .. len + n - 1, s \in Live(kv) \ {r} :
           ~Listed(kv.states[s].blocks, SlotBlock(old, pos))
  BY DEF Own
<1> HIDE DEF state, old, len
<1>7. Len(state.tokens) <= End(l) /\ Len(state.tokens) \in Nat /\ End(l) \in Nat
  <2>1. End(l) \in Nat
    BY <1>5, EndFacts
  <2> QED BY <1>5, <1>6, <2>1
<1>8. /\ known \in Nat /\ full \in Nat /\ known <= full /\ full <= l
      /\ \A i \in Nat : i <= known <=> End(i) <= len
      /\ \A i \in Nat : i <= full => End(i) <= Len(state.tokens)
  <2> DEFINE c == Len(state.tokens) \div BlockSize
  <2>1. known \in Nat /\ \A i \in Nat : i <= known <=> End(i) <= len
    BY <1>5, SlotFacts
  <2>2. c \in Nat /\ \A i \in Nat : i <= c <=> End(i) <= Len(state.tokens)
    BY <1>7, SlotFacts
  <2>3. full = c \/ full = known
    OBVIOUS
  <2> HIDE DEF c, known, full
  <2>4. \A i \in Nat : End(i) \in Nat
    BY EndFacts
  <2>5. End(known) <= Len(state.tokens)
    BY <1>5, <2>1, <2>4
  <2>6. known <= c
    BY <2>1, <2>2, <2>5
  <2>7. \A i \in Nat : i <= known => End(i) <= Len(state.tokens)
    BY <1>5, <2>1, <2>4
  <2>8. ASSUME c > l PROVE FALSE
    <3>1. End(c) <= Len(state.tokens) /\ End(l) < End(c)
      <4>1. l < c => End(l) + BlockSize <= End(c)
        BY <1>5, <2>2, EndFacts
      <4>2. End(l) + BlockSize <= End(c) /\ End(c) \in Nat /\ End(l) \in Nat
        BY <1>5, <2>2, <2>4, <2>8, <4>1
      <4>3. End(l) < End(c)
        BY <4>2, BlockSizeAssumption
      <4> QED BY <2>2, <4>3
    <3> QED BY <1>5, <1>7, <2>2, <2>4, <3>1
  <2>9. c <= l /\ known <= l
    BY <1>5, <2>1, <2>2, <2>6, <2>8
  <2> QED BY <2>1, <2>2, <2>3, <2>6, <2>7, <2>9
<1> HIDE DEF known, full, l
<1>9. \A i \in known + 1 .. full : i \in 1 .. l /\ i \in Nat /\ i > known /\ i <= full
  BY <1>5, <1>8
\* The blocks that become full are not published yet and in no other table.
<1>10. ASSUME NEW i \in known + 1 .. full
       PROVE  /\ kv.pool.keys[old.blocks[i]] = NoKey
              /\ kv.pool.refCounts[old.blocks[i]] > 0
              /\ PrefixKey(state.salt, state.tokens, i) \in K
              /\ \A s \in Live(kv) \ {r} : ~Listed(kv.states[s].blocks, old.blocks[i])
  <2>1. i \in 1 .. l /\ i \in Nat /\ ~(End(i) <= len) /\ End(i) <= Len(state.tokens) /\ End(i) \in Nat
    <3>1. i \in 1 .. l /\ i \in Nat /\ ~(i <= known) /\ i <= full
      BY <1>8, <1>9
    <3>2. End(i) \in Nat
      BY <3>1, EndFacts
    <3> QED BY <1>8, <3>1, <3>2
  <2>2. kv.pool.keys[old.blocks[i]] = NoKey
    BY <1>1, <2>1 DEF TableOK, l, len
  <2>3. PrefixKey(state.salt, state.tokens, i) \in K
    BY <1>4, <1>5, <2>1, PrefixKeyFacts
  <2>4. ASSUME NEW s \in Live(kv) \ {r} PROVE ~Listed(kv.states[s].blocks, old.blocks[i])
    <3> DEFINE pos == End(i) - 1
    <3>0. i - 1 \in Nat /\ (i - 1) + 1 = i
      BY <1>9
    <3>1. i - 1 \in Nat /\ (i - 1) + 1 = i /\ End(i - 1) \in Nat
      BY <3>0, EndFacts
    <3>2. BlockSize - 1 \in 0 .. BlockSize - 1 /\ End(i) = End(i - 1) + BlockSize
      BY <3>1, EndFacts, BlockSizeAssumption
    <3>3. (End(i - 1) + (BlockSize - 1)) \div BlockSize = i - 1
      BY <3>1, <3>2, SlotIsUnique
    <3>4. pos = End(i - 1) + (BlockSize - 1)
      BY <3>1, <3>2, BlockSizeAssumption
    <3>5. pos \div BlockSize + 1 = i
      BY <2>1, <3>3, <3>4
    <3>6. pos \in len .. len + n - 1
      BY <1>5, <2>1
    <3>7. SlotBlock(old, pos) = old.blocks[i]
      BY <3>5 DEF SlotBlock
    <3> QED BY <1>6, <3>6, <3>7
  <2> QED BY <1>2, <2>1, <2>2, <2>3, <2>4 DEF l
<1>11. /\ PoolOK(p, K) /\ p.refCounts = kv.pool.refCounts
       /\ \A b \in Blocks :
            \/ p.keys[b] = kv.pool.keys[b]
            \/ \E i \in known + 1 .. full :
                 b = state.blocks[i] /\ p.keys[b] = PrefixKey(state.salt, state.tokens, i)
  <2>1. /\ state.blocks \in Seq(Blocks) /\ DistinctList(state.blocks) /\ full <= Len(state.blocks)
        /\ PoolOK(kv.pool, K)
    BY <1>1, <1>2, <1>4, <1>8 DEF l
  <2>2. Publishable(kv.pool, K, state, known, full)
    BY <1>4, <1>10 DEF Publishable
  <2> HIDE DEF K
  <2>3. PoolOK(p, K) /\ p.refCounts = kv.pool.refCounts
        /\ PublishedFrom(kv.pool, p, state, known, full)
    BY <1>8, <2>1, <2>2, PublishedUpToOK
  <2> QED BY <2>3 DEF PublishedFrom
<1> HIDE DEF p
<1>12. TableOK(p.keys, state)
  <2> SUFFICES ASSUME NEW i \in 1 .. l, p.keys[old.blocks[i]] # NoKey
               PROVE  /\ End(i) <= Len(state.tokens)
                      /\ p.keys[old.blocks[i]] = PrefixKey(state.salt, state.tokens, i)
    BY <1>2, <1>4, <1>7 DEF TableOK, l
  <2>1. CASE p.keys[old.blocks[i]] = kv.pool.keys[old.blocks[i]]
    <3>1. End(i) <= len /\ kv.pool.keys[old.blocks[i]] = PrefixKey(old.salt, old.tokens, i)
      BY <1>1, <2>1 DEF TableOK, l, len
    <3>2. End(i) \in 0 .. len /\ End(i) <= Len(state.tokens)
      <4>1. End(i) \in Nat
        BY EndFacts
      <4> QED BY <1>5, <3>1, <4>1
    <3>3. SubSeq(state.tokens, 1, End(i)) = SubSeq(old.tokens, 1, End(i))
      BY <1>5, <3>2
    <3> QED BY <1>4, <2>1, <3>1, <3>2, <3>3 DEF PrefixKey, End
  <2>2. CASE p.keys[old.blocks[i]] # kv.pool.keys[old.blocks[i]]
    <3>1. old.blocks[i] \in Blocks
      BY <1>2 DEF l
    <3>2. PICK j \in known + 1 .. full :
            /\ old.blocks[i] = old.blocks[j]
            /\ p.keys[old.blocks[i]] = PrefixKey(state.salt, state.tokens, j)
      BY <1>4, <1>11, <2>2, <3>1
    <3>3. i = j
      BY <1>2, <1>9, <3>2 DEF DistinctList, l
    <3>4. End(i) <= Len(state.tokens)
      BY <1>8, <1>9, <3>3
    <3> QED BY <3>2, <3>3, <3>4
  <2> QED BY <2>1, <2>2
<1>13. ASSUME NEW s \in Live(kv) \ {r} PROVE TableOK(p.keys, kv.states[s])
  <2>1. TableOK(kv.pool.keys, kv.states[s]) /\ kv.states[s].blocks \in Seq(Blocks)
    BY <1>1 DEF StateType
  <2>2. \A i \in 1 .. Len(kv.states[s].blocks) :
          /\ kv.states[s].blocks[i] \in Blocks
          /\ Listed(kv.states[s].blocks, kv.states[s].blocks[i])
    BY <2>1 DEF Listed
  <2>3. \A i \in 1 .. Len(kv.states[s].blocks) :
          p.keys[kv.states[s].blocks[i]] = kv.pool.keys[kv.states[s].blocks[i]]
    BY <1>4, <1>10, <1>11, <2>2
  <2> QED BY <2>1, <2>3 DEF TableOK
<1>14. ASSUME NEW s \in Live(kv) \ {r} PROVE Sharing(state, kv.states[s])
  <2> DEFINE t == kv.states[s]
  <2>1. Sharing(old, t)
    BY <1>1
  <2>2. Len(t.tokens) \in Nat
    BY <1>1 DEF StateType
  <2>3. \A b : Listed(t.blocks, b) => \A pos \in len .. len + n - 1 : SlotBlock(old, pos) # b
    BY <1>6
  <2> HIDE DEF t
  <2> SUFFICES ASSUME NEW i \in 1 .. l, NEW j \in 1 .. Len(t.blocks), old.blocks[i] = t.blocks[j]
               PROVE  /\ i = j /\ old.salt = t.salt
                      /\ End(i - 1) < len + Len(new) /\ End(i - 1) < Len(t.tokens)
                      /\ \/ len + Len(new) = Len(t.tokens)
                         \/ End(i) <= len + Len(new) /\ End(i) <= Len(t.tokens)
    BY <1>4, <1>5 DEF Sharing, t, l
  <2>4. /\ i = j /\ old.salt = t.salt
        /\ End(i - 1) < len /\ End(i - 1) < Len(t.tokens)
        /\ len = Len(t.tokens) \/ (End(i) <= len /\ End(i) <= Len(t.tokens))
    BY <2>1 DEF Sharing, l, len
  <2>5. i \in Nat /\ i - 1 \in Nat /\ (i - 1) + 1 = i
    OBVIOUS
  <2>6. End(i) \in Nat /\ End(i - 1) \in Nat /\ End(i) = End(i - 1) + BlockSize
    BY <2>5, EndFacts
  <2>7. CASE End(i) <= len /\ End(i) <= Len(t.tokens)
    BY <1>5, <2>2, <2>4, <2>6, <2>7
  <2>8. CASE Len(new) = 0
    BY <1>5, <2>2, <2>4, <2>6, <2>8
  <2>9. CASE len < End(i) /\ Len(new) > 0
    <3>1. len - End(i - 1) \in 0 .. BlockSize - 1 /\ len = End(i - 1) + (len - End(i - 1))
      BY <1>5, <2>4, <2>6, <2>9, BlockSizeAssumption
    <3>2. len \div BlockSize = i - 1
      BY <2>5, <3>1, SlotIsUnique
    <3>3. SlotBlock(old, len) = old.blocks[i]
      BY <2>5, <3>2 DEF SlotBlock
    <3>4. len \in len .. len + n - 1
      BY <1>5, <2>9
    <3>5. Listed(t.blocks, old.blocks[i])
      BY DEF Listed
    <3> QED BY <2>3, <3>3, <3>4, <3>5
  <2> QED BY <1>5, <2>2, <2>4, <2>6, <2>7, <2>8, <2>9
<1>15. \A b \in Blocks :
         LET before == Listed(kv.states[r].blocks, b)
             after  == Listed(state.blocks, b)
         IN  p.refCounts[b] = IF before /\ ~after THEN kv.pool.refCounts[b] - 1
                              ELSE IF after /\ ~before THEN kv.pool.refCounts[b] + 1
                              ELSE kv.pool.refCounts[b]
  BY <1>4, <1>11 DEF old
<1>16. TablesOK(q, T, Z)
  BY <1>3, <1>4, <1>11, <1>12, <1>13, <1>14, <1>15, TableReplaced
<1>17. /\ Live(q) = Live(kv) /\ q.states[r] = state /\ q.pool = p
       /\ \A s \in Live(kv) \ {r} : q.states[s] = kv.states[s]
  BY <1>1, <1>3 DEF WithState, Live
<1>18. \A b \in Blocks : p.keys[b] = kv.pool.keys[b] \/ Listed(old.blocks, b)
  BY <1>4, <1>9, <1>11 DEF Listed, l
<1>19. ASSUME NEW s \in Live(kv) \ {r}, NEW k \in Nat, Own(kv, s, k) PROVE Own(q, s, k)
  <2>1. q.states[s] = kv.states[s] /\ \A x \in Live(kv) : q.states[x].blocks = kv.states[x].blocks
    BY <1>4, <1>17 DEF old
  <2> QED BY <1>17, <1>19, <2>1 DEF Own
<1> QED BY <1>4, <1>16, <1>17, <1>18, <1>19 DEF old

-----------------------------------------------------------------------------

\* A new cache is consistent.
LEMMA EmptyTablesOK ==
  ASSUME NEW T, NEW Z, NoKey \notin Z \X Seq(T)
  PROVE  TablesOK(EmptyKV, T, Z) /\ Live(EmptyKV) = {} /\ EmptyKV.pool.prefixes = EmptyIndex
<1>1. PoolOK(EmptyPool, Z \X Seq(T))
  BY EmptyPoolOK
<1>2. /\ EmptyKV.pool = EmptyPool /\ Live(EmptyKV) = {}
      /\ EmptyKV = [pool |-> EmptyKV.pool, states |-> EmptyKV.states]
      /\ EmptyKV.states \in [{} -> StateType(T, Z)]
  BY DEF EmptyKV, Live
<1>3. IsFiniteSet({}) /\ Cardinality({}) = 0
  BY FS_EmptySet
<1>4. \A b \in Blocks : Using(EmptyKV, b) = {} /\ EmptyPool.refCounts[b] = 0
  BY <1>2 DEF Using, EmptyPool
<1>5. EmptyPool.prefixes = EmptyIndex
  BY DEF EmptyPool
<1> QED BY <1>1, <1>2, <1>3, <1>4, <1>5 DEF TablesOK, StatesOK, CountsOK

-----------------------------------------------------------------------------
(* Pages of one table, and what happens to the others.                      *)

\* Taking one table away leaves the others their pages.
LEMMA OwnAfterRelease ==
  ASSUME NEW kv, NEW r, NEW x \in Live(kv), x # r, NEW n \in Nat, Own(kv, x, n)
  PROVE  Own(ReleasedRequest(kv, r), x, n)
<1>1. CASE r \notin Live(kv)
  BY <1>1 DEF ReleasedRequest
<1>2. CASE r \in Live(kv)
  <2> DEFINE q == ReleasedRequest(kv, r)
  <2>1. q.states = WithoutState(kv, r)
    BY <1>2 DEF ReleasedRequest
  <2>2. Live(q) = Live(kv) \ {r} /\ \A s \in Live(q) : q.states[s] = kv.states[s]
    BY <2>1 DEF WithoutState, Live
  <2> HIDE DEF q
  <2> QED BY <2>2 DEF Own, q
<1> QED BY <1>1, <1>2

\* So does trimming it.
LEMMA OwnAfterTrim ==
  ASSUME NEW T, NEW Z, NEW kv, TablesOK(kv, T, Z), NEW r \in Live(kv),
         NEW x \in Live(kv), x # r, NEW n \in Nat, Own(kv, x, n)
  PROVE  Own(Trimmed(kv, r), x, n)
<1> DEFINE q == Trimmed(kv, r)
           head == HeadOf(kv.states[r])
<1>1. /\ Live(q) = Live(kv) /\ \A s \in Live(kv) \ {r} : q.states[s] = kv.states[s]
  BY TrimmedOK
<1>2. q.states[r] = head
  BY DEF Trimmed, HeadOf, WithState, Live
<1>3. /\ Len(head.blocks) = CeilDiv(Len(kv.states[r].tokens))
      /\ CeilDiv(Len(kv.states[r].tokens)) \in 0 .. Len(kv.states[r].blocks)
      /\ \A i \in 1 .. Len(head.blocks) : head.blocks[i] = kv.states[r].blocks[i] /\ i \in 1 .. Len(kv.states[r].blocks)
  <2> HIDE DEF q, head
  <2> QED BY HeadOfTable DEF head
<1> HIDE DEF q, head
<1>4. \A b : Listed(q.states[r].blocks, b) => Listed(kv.states[r].blocks, b)
  BY <1>2, <1>3 DEF Listed
<1>5. \A s \in Live(q) \ {x} : \A b : Listed(q.states[s].blocks, b) => Listed(kv.states[s].blocks, b)
  BY <1>1, <1>4
<1>6. q.states[x] = kv.states[x]
  BY <1>1
<1> QED BY <1>1, <1>5, <1>6 DEF Own, q

\* A lookup shares full blocks only: no page somebody is about to fill.
LEMMA OwnAfterAttach ==
  ASSUME NEW T, NEW Z, NEW kv, TablesOK(kv, T, Z), NEW r, r \notin Live(kv),
         NEW tokens \in Seq(T), tokens # <<>>, NEW salt \in Z,
         NEW x \in Live(kv), NEW n \in Nat, Own(kv, x, n)
  PROVE  Own(Attached(kv, r, tokens, salt), x, n)
<1> DEFINE q == Attached(kv, r, tokens, salt)
           m == HitBlocks(kv, tokens, salt)
<1>1. /\ TablesOK(q, T, Z) /\ m \in Nat /\ End(m) < Len(tokens)
      /\ Live(q) = Live(kv) \cup {r} /\ \A s \in Live(kv) : q.states[s] = kv.states[s]
      /\ q.states[r].tokens = SubSeq(tokens, 1, End(m))
  BY AttachedOK
<1> HIDE DEF q, m
<1>2. Len(q.states[r].tokens) = End(m)
  <2>1. End(m) \in Nat
    BY <1>1, EndFacts
  <2>2. End(m) \in 0 .. Len(tokens)
    BY <1>1, <2>1
  <2> QED BY <1>1, <2>2, PrefixFacts
<1>3. x # r /\ q.states[x] = kv.states[x]
  BY <1>1
<1>4. q.states[x] \in StateType(T, Z) /\ q.states[r] \in StateType(T, Z)
  BY <1>1 DEF TablesOK, StatesOK
<1>5. Sharing(q.states[r], q.states[x])
  BY <1>1, <1>3 DEF TablesOK
<1> DEFINE first == Len(q.states[x].tokens)
<1>6. first \in Nat /\ Len(q.states[x].blocks) \in Nat
  BY <1>4 DEF StateType
<1>7. first + n <= End(Len(q.states[x].blocks))
  BY <1>3 DEF Own
<1>8. ASSUME NEW pos \in first .. first + n - 1
      PROVE  ~Listed(q.states[r].blocks, SlotBlock(q.states[x], pos))
  <2> DEFINE j == pos \div BlockSize + 1
  <2>1. pos \in Nat /\ pos < End(Len(q.states[x].blocks))
    <3>1. End(Len(q.states[x].blocks)) \in Nat
      BY <1>6, EndFacts
    <3> HIDE DEF first
    <3> QED BY <1>6, <1>7, <3>1
  <2>2. j \in 1 .. Len(q.states[x].blocks)
    <3> HIDE DEF first
    <3> QED BY <1>6, <2>1, PositionInTable
  <2>3. j \in Nat \ {0} /\ pos < End(j) /\ End(j) \in Nat
    BY <2>1, PositionFacts
  <2> SUFFICES ASSUME NEW i \in 1 .. Len(q.states[r].blocks), q.states[r].blocks[i] = q.states[x].blocks[j]
               PROVE  FALSE
    BY DEF Listed, SlotBlock
  <2> HIDE DEF j
  <2>4. /\ i = j /\ End(i - 1) < End(m)
        /\ End(m) = first \/ End(j) <= first
    BY <1>2, <1>5, <2>2 DEF Sharing
  <2> HIDE DEF first
  <2>5. End(m) = first
    BY <1>6, <2>3, <2>4
  <2>6. i - 1 \in Nat /\ i \in Nat
    BY <2>3, <2>4
  <2>7. i - 1 < m
    <3>1. End(i - 1) \in Nat /\ End(m) \in Nat /\ (m <= i - 1 <=> End(m) <= End(i - 1))
      BY <1>1, <2>6, EndFacts
    <3>2. ~(End(m) <= End(i - 1))
      BY <2>4, <3>1
    <3> QED BY <1>1, <2>6, <3>1, <3>2
  <2>8. End(i) <= End(m)
    <3>1. i <= m
      BY <1>1, <2>6, <2>7
    <3> QED BY <1>1, <2>6, <3>1, EndFacts
  <2> QED BY <1>6, <2>3, <2>4, <2>5, <2>8
<1>9. \A s \in Live(q) \ {x, r} : s \in Live(kv) /\ q.states[s] = kv.states[s]
  BY <1>1
<1>10. \A pos \in first .. first + n - 1, s \in Live(q) \ {x} :
         ~Listed(q.states[s].blocks, SlotBlock(q.states[x], pos))
  <2> TAKE pos \in first .. first + n - 1, s \in Live(q) \ {x}
  <2>1. CASE s = r
    BY <1>8, <2>1
  <2>2. CASE s # r
    BY <1>3, <1>9, <2>2 DEF Own
  <2> QED BY <2>1, <2>2
<1> QED BY <1>7, <1>10 DEF Own, q

\* A request that owns the pages of its next n positions needs no block for them.
LEMMA OwnIsEnough ==
  ASSUME NEW T, NEW Z, NEW kv, TablesOK(kv, T, Z), NEW r \in Live(kv), NEW n \in Nat, Own(kv, r, n)
  PROVE  Demand(kv, r, Computed(kv, r) + n) = 0
<1> DEFINE first == Computed(kv, r)
<1>1. kv.states[r] \in StateType(T, Z)
  BY DEF TablesOK, StatesOK
<1>2. first \in Nat /\ Len(kv.states[r].blocks) \in Nat /\ kv.states[r].blocks \in Seq(Blocks)
  BY <1>1 DEF StateType, Computed
<1>3. first + n <= End(Len(kv.states[r].blocks))
  BY DEF Own, Computed
<1>4. Needed(kv, r, first + n) = 0
  <2> HIDE DEF first
  <2>1. first + n \in Nat
    BY <1>2
  <2>2. CeilDiv(first + n) \in 0 .. Len(kv.states[r].blocks)
    BY <1>2, <1>3, <2>1, TokensFit
  <2> QED BY <1>2, <2>2 DEF Needed
<1>5. ~CopyTail(kv, r, first + n)
  <2> SUFFICES ASSUME CopyTail(kv, r, first + n) PROVE FALSE
    OBVIOUS
  <2> DEFINE i == TailIndex(kv, r)
             b == kv.states[r].blocks[i]
  <2>1. i \in 1 .. Len(kv.states[r].blocks)
    BY TailFacts DEF CopyTail
  <2>2. b \in Blocks /\ kv.pool.refCounts[b] > 1
    BY <1>2, <2>1 DEF CopyTail
  <2>3. PICK s \in Live(kv) : s # r /\ Listed(kv.states[s].blocks, b)
    <3> HIDE DEF b
    <3> QED BY <2>2, CountedIsUsed
  <2>4. first \in first .. first + n - 1
    <3>1. first + n > first
      BY DEF CopyTail
    <3> HIDE DEF first
    <3> QED BY <1>2, <3>1
  <2>5. b = SlotBlock(kv.states[r], first)
    BY DEF SlotBlock, TailIndex
  <2> QED BY <2>3, <2>4, <2>5 DEF Own, Computed
<1> QED BY <1>4, <1>5 DEF Demand

=============================================================================
