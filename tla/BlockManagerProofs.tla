------------------------- MODULE BlockManagerProofs -------------------------
(***************************************************************************)
(* The safety of the block pool, for every number of blocks, every finite  *)
(* set of users and every set of prefixes.  What the methods do to a pool  *)
(* is proved in KVTablesProofs, where the block tables need it too.        *)
(***************************************************************************)
EXTENDS BlockManager, KVTablesProofs

-----------------------------------------------------------------------------
(* The pool and its users.  The strengthening of the safety invariants: the *)
(* free list and the index alone do not say that a block that is about to   *)
(* be published is in use, which is what RefCountsHolders adds.             *)

IInv == PoolOK(pool, Keys) /\ holds \in [Owners -> SUBSET Blocks] /\ RefCountsHolders

LEMMA HoldersFinite == \A b : IsFiniteSet(Holders(b)) /\ Cardinality(Holders(b)) \in Nat
<1> SUFFICES ASSUME NEW b PROVE IsFiniteSet(Holders(b)) /\ Cardinality(Holders(b)) \in Nat
  OBVIOUS
<1>1. Holders(b) \subseteq Owners
  BY DEF Holders
<1> QED BY <1>1, OwnersAssumption, FS_Subset, FS_CardinalityType

\* A user that gets (or returns) a block is added to (or removed from) its holders.
LEMMA HoldersAfter ==
  ASSUME holds \in [Owners -> SUBSET Blocks], NEW o \in Owners, NEW S \in SUBSET Blocks,
         holds' = [holds EXCEPT ![o] = S]
  PROVE  /\ holds' \in [Owners -> SUBSET Blocks]
         /\ \A b \in Blocks : Holders(b)' = IF b \in S THEN Holders(b) \cup {o} ELSE Holders(b) \ {o}
  BY DEF Holders

LEMMA InitIInv == Init => IInv
<1> SUFFICES ASSUME Init PROVE IInv
  OBVIOUS
<1>1. PoolOK(pool, Keys) /\ holds \in [Owners -> SUBSET Blocks]
  BY EmptyPoolOK, KeysAssumption DEF Init
<1>2. RefCountsHolders
  <2>1. \A b \in Blocks : Holders(b) = {} /\ pool.refCounts[b] = 0
    BY DEF Init, Holders, EmptyPool
  <2> QED BY <2>1, FS_EmptySet DEF RefCountsHolders
<1> QED BY <1>1, <1>2 DEF IInv

\* A sequence takes count free blocks.
LEMMA AllocateStep ==
  ASSUME IInv, NEW o \in Owners, NEW count \in 1 .. NumBlocks, Allocate(o, count)
  PROVE  IInv'
<1> DEFINE T == Taken(pool, count)
<1>1. /\ PoolOK(pool, Keys) /\ holds \in [Owners -> SUBSET Blocks] /\ RefCountsHolders
      /\ count \in Nat /\ CanAllocate(pool, count)
      /\ pool' = Allocated(pool, count) /\ holds' = [holds EXCEPT ![o] = @ \cup T]
  BY NumBlocksAssumption DEF IInv, Allocate
<1>2. PoolOK(pool, Keys)' /\ T \subseteq Blocks /\ \A b \in T : pool.refCounts[b] = 0
  BY <1>1, AllocatedOK
<1>3. /\ pool.refCounts \in [Blocks -> Nat]
      /\ pool'.refCounts = [b \in Blocks |-> IF b \in T THEN 1 ELSE pool.refCounts[b]]
  BY <1>1 DEF PoolOK, PoolType, Allocated
<1>4. /\ holds' \in [Owners -> SUBSET Blocks]
      /\ \A b \in Blocks : Holders(b)' = IF b \in T THEN Holders(b) \cup {o} ELSE Holders(b)
  <2>1. holds[o] \cup T \in SUBSET Blocks /\ holds' = [holds EXCEPT ![o] = holds[o] \cup T]
    BY <1>1, <1>2
  <2> QED BY <1>1, <2>1 DEF Holders
<1>5. RefCountsHolders'
  <2> SUFFICES ASSUME NEW b \in Blocks PROVE pool'.refCounts[b] = Cardinality(Holders(b)')
    BY DEF RefCountsHolders
  <2>1. CASE b \in T
    <3>1. Holders(b) = {}
      BY <1>1, <1>2, <2>1, HoldersFinite, FS_EmptySet DEF RefCountsHolders
    <3>2. Holders(b)' = {o}
      BY <1>4, <2>1, <3>1
    <3> QED BY <1>3, <2>1, <3>2, FS_Singleton
  <2>2. CASE b \notin T
    BY <1>1, <1>3, <1>4, <2>2 DEF RefCountsHolders
  <2> QED BY <2>1, <2>2
<1> QED BY <1>2, <1>4, <1>5 DEF IInv

\* A sequence shares a block.
LEMMA RetainStep ==
  ASSUME IInv, NEW o \in Owners, NEW b \in Blocks, Retain(o, b)
  PROVE  IInv'
<1>1. /\ PoolOK(pool, Keys) /\ holds \in [Owners -> SUBSET Blocks] /\ RefCountsHolders
      /\ b \notin holds[o]
      /\ pool' = Retained(pool, b) /\ holds' = [holds EXCEPT ![o] = @ \cup {b}]
  BY DEF IInv, Retain
<1>2. PoolOK(pool, Keys)'
  BY <1>1, RetainedOK
<1>3. /\ pool.refCounts \in [Blocks -> Nat]
      /\ pool'.refCounts = [pool.refCounts EXCEPT ![b] = @ + 1]
  BY <1>1 DEF PoolOK, PoolType, Retained
<1>4. /\ holds' \in [Owners -> SUBSET Blocks]
      /\ o \notin Holders(b) /\ Holders(b)' = Holders(b) \cup {o}
      /\ \A c \in Blocks \ {b} : Holders(c)' = Holders(c)
  BY <1>1 DEF Holders
<1>5. RefCountsHolders'
  <2> SUFFICES ASSUME NEW c \in Blocks PROVE pool'.refCounts[c] = Cardinality(Holders(c)')
    BY DEF RefCountsHolders
  <2>1. CASE c = b
    <3>1. Cardinality(Holders(b) \cup {o}) = Cardinality(Holders(b)) + 1
      BY <1>4, HoldersFinite, FS_AddElement
    <3> QED BY <1>1, <1>3, <1>4, <2>1, <3>1 DEF RefCountsHolders
  <2>2. CASE c # b
    BY <1>1, <1>3, <1>4, <2>2 DEF RefCountsHolders
  <2> QED BY <2>1, <2>2
<1> QED BY <1>2, <1>4, <1>5 DEF IInv

\* A sequence returns a block it holds.
LEMMA ReleaseStep ==
  ASSUME IInv, NEW o \in Owners, NEW b \in Blocks, Release(o, b)
  PROVE  IInv'
<1>1. /\ PoolOK(pool, Keys) /\ holds \in [Owners -> SUBSET Blocks] /\ RefCountsHolders
      /\ b \in holds[o] /\ CanRelease(pool, b)
      /\ pool' = Released(pool, b) /\ holds' = [holds EXCEPT ![o] = @ \ {b}]
  BY DEF IInv, Release
<1>2. /\ pool.refCounts \in [Blocks -> Nat] /\ pool.refCounts[b] > 0
      /\ pool'.refCounts = [pool.refCounts EXCEPT ![b] = @ - 1]
  BY <1>1 DEF PoolOK, PoolType, Released, CanRelease
<1>5. PoolOK(pool, Keys)'
  BY <1>1, ReleasedOK
<1>6. /\ holds' \in [Owners -> SUBSET Blocks]
      /\ o \in Holders(b) /\ Holders(b)' = Holders(b) \ {o}
      /\ \A c \in Blocks \ {b} : Holders(c)' = Holders(c)
  BY <1>1 DEF Holders
<1>7. RefCountsHolders'
  <2> SUFFICES ASSUME NEW c \in Blocks PROVE pool'.refCounts[c] = Cardinality(Holders(c)')
    BY DEF RefCountsHolders
  <2>1. CASE c = b
    <3>1. Cardinality(Holders(b) \ {o}) = Cardinality(Holders(b)) - 1
      BY <1>6, HoldersFinite, FS_RemoveElement
    <3> QED BY <1>1, <1>2, <1>6, <2>1, <3>1 DEF RefCountsHolders
  <2>2. CASE c # b
    BY <1>1, <1>2, <1>6, <2>2 DEF RefCountsHolders
  <2> QED BY <2>1, <2>2
<1> QED BY <1>5, <1>6, <1>7 DEF IInv

LEMMA PublishStep ==
  ASSUME IInv, NEW o \in Owners, NEW b \in Blocks, NEW key \in Keys, Publish(o, b, key)
  PROVE  IInv'
<1>1. /\ PoolOK(pool, Keys) /\ holds \in [Owners -> SUBSET Blocks] /\ RefCountsHolders
      /\ b \in holds[o] /\ pool.keys[b] = NoKey
      /\ pool' = Published(pool, b, key) /\ holds' = holds
  BY DEF IInv, Publish
<1>2. pool.refCounts[b] > 0
  <2>1. o \in Holders(b) /\ pool.refCounts[b] = Cardinality(Holders(b))
    BY <1>1 DEF Holders, RefCountsHolders
  <2> QED BY <2>1, HoldersFinite, FS_EmptySet
<1>3. PoolOK(pool, Keys)'
  BY <1>1, <1>2, PublishedOK
<1>4. pool'.refCounts = pool.refCounts
  BY <1>1 DEF Published
<1>5. RefCountsHolders'
  BY <1>1, <1>4 DEF RefCountsHolders, Holders
<1> QED BY <1>1, <1>3, <1>5 DEF IInv

LEMMA ClearStep ==
  ASSUME IInv, ClearPrefixes
  PROVE  IInv'
<1>1. /\ PoolOK(pool, Keys) /\ holds \in [Owners -> SUBSET Blocks] /\ RefCountsHolders
      /\ pool' = Cleared(pool) /\ holds' = holds
  BY DEF IInv, ClearPrefixes
<1>2. PoolOK(pool, Keys)'
  BY <1>1, ClearedOK
<1>3. pool'.refCounts = pool.refCounts
  BY <1>1 DEF Cleared
<1>4. RefCountsHolders'
  BY <1>1, <1>3 DEF RefCountsHolders, Holders
<1> QED BY <1>1, <1>2, <1>4 DEF IInv

LEMMA NextIInv == IInv /\ [Next]_vars => IInv'
<1> SUFFICES ASSUME IInv, [Next]_vars PROVE IInv'
  OBVIOUS
<1>1. CASE \E o \in Owners, count \in 1 .. NumBlocks : Allocate(o, count)
  BY <1>1, AllocateStep
<1>2. CASE UNCHANGED vars
  BY <1>2 DEF vars, IInv, RefCountsHolders, Holders
<1>3. CASE \E count \in 1 .. NumBlocks : AllocateFails(count)
  BY <1>2, <1>3 DEF AllocateFails
<1>4. CASE \E o \in Owners, b \in Blocks : Retain(o, b)
  BY <1>4, RetainStep
<1>5. CASE \E o \in Owners, b \in Blocks : Release(o, b)
  BY <1>5, ReleaseStep
<1>6. CASE \E o \in Owners, b \in Blocks, key \in Keys : Publish(o, b, key)
  BY <1>6, PublishStep
<1>7. CASE ClearPrefixes
  BY <1>7, ClearStep
<1> QED BY <1>1, <1>2, <1>3, <1>4, <1>5, <1>6, <1>7 DEF Next

LEMMA Invariance == Spec => []IInv
  BY InitIInv, NextIInv, PTL DEF Spec

-----------------------------------------------------------------------------
(* The results.                                                            *)

\* Type correctness, and with it the partial operations: a count never goes
\* below zero and the list only ever holds blocks of the pool.
THEOREM TypeCorrect == Spec => []TypeOK
<1>1. IInv => TypeOK
  BY DEF IInv, PoolOK, TypeOK
<1> QED BY <1>1, Invariance, PTL

\* allocate, retain and release never leak a block and never hand out a block
\* in use: the free list is exactly the set of blocks without a user.
THEOREM FreeListExact == Spec => []FreeIsUnused
<1>1. IInv => FreeIsUnused
  BY DEF IInv, PoolOK, FreeOK, FreeIsUnused
<1> QED BY <1>1, Invariance, PTL

\* The count of a block is the number of sequences that hold it, and the
\* exported counter of shared blocks agrees with the counts.
THEOREM ReferencesExact == Spec => [](RefCountsHolders /\ SharedIsExact)
<1>1. IInv => RefCountsHolders /\ SharedIsExact
  BY DEF IInv, PoolOK, SharedOK, Multiply, SharedIsExact
<1> QED BY <1>1, Invariance, PTL

\* A lookup never finds a block that was reused for something else.
THEOREM IndexExact == Spec => []IndexMatchesKeys
<1>1. IInv => IndexMatchesKeys
  BY DEF IInv, PoolOK, IndexOK, IndexMatchesKeys
<1> QED BY <1>1, Invariance, PTL

\* Unpublished blocks stay in front of published ones in the free list.
THEOREM RecycleOrder == Spec => []UncachedFirst
<1>1. IInv => UncachedFirst
  BY DEF IInv, PoolOK, OrderOK, UncachedFirst
<1> QED BY <1>1, Invariance, PTL

\* A published prefix is evicted only when every block that stays free is
\* published too, so never while an unpublished block could have been reused.
THEOREM EvictionUnderPressure == Spec => EvictOnlyUnderPressure
<1> DEFINE Step == \A k \in DOMAIN pool.prefixes \ DOMAIN pool'.prefixes :
                     ClearPrefixes \/ \A b \in FreeSet(pool') : pool.keys[b] # NoKey
<1>1. IInv /\ [Next]_vars => [Step]_vars
  <2> SUFFICES ASSUME IInv, Next,
                      NEW k \in DOMAIN pool.prefixes \ DOMAIN pool'.prefixes,
                      ~ClearPrefixes
               PROVE  \A b \in FreeSet(pool') : pool.keys[b] # NoKey
    BY DEF vars
  <2>1. PoolOK(pool, Keys) /\ OrderOK(pool) /\ pool \in PoolType(Keys)
    BY DEF IInv, PoolOK
  <2>2. k \in Keys
    BY <2>1 DEF PoolType
  <2>3. ASSUME NEW o \in Owners, NEW count \in 1 .. NumBlocks, Allocate(o, count)
        PROVE  \A b \in FreeSet(pool') : pool.keys[b] # NoKey
    <3>1. /\ CanAllocate(pool, count) /\ pool' = Allocated(pool, count)
          /\ count \in Nat /\ pool.free \in Seq(Blocks)
      BY <2>1, <2>3, NumBlocksAssumption DEF Allocate, PoolType
    <3>2. /\ pool'.free = SubSeq(pool.free, count + 1, Len(pool.free))
          /\ DOMAIN pool'.prefixes = DOMAIN pool.prefixes \ {pool.keys[b] : b \in Taken(pool, count)}
      BY <3>1 DEF Allocated
    <3>3. PICK i \in 1 .. count : pool.keys[pool.free[i]] = k
      BY <3>2 DEF Taken
    <3>4. pool.keys[pool.free[i]] # NoKey /\ i \in 1 .. Len(pool.free)
      BY <2>2, <3>1, <3>3, KeysAssumption DEF CanAllocate
    <3> SUFFICES ASSUME NEW b \in FreeSet(pool') PROVE pool.keys[b] # NoKey
      OBVIOUS
    <3>5. PICK j \in 1 .. Len(pool'.free) : pool'.free[j] = b
      BY DEF FreeSet
    <3>6. count + j \in 1 .. Len(pool.free) /\ pool'.free[j] = pool.free[count + j] /\ i < count + j
      BY <3>1, <3>2, <3>3, <3>5 DEF CanAllocate
    <3> QED BY <2>1, <3>4, <3>5, <3>6 DEF OrderOK
  <2>4. ASSUME NEW o \in Owners, NEW b \in Blocks, Retain(o, b) \/ Release(o, b)
        PROVE  FALSE
    BY <2>4 DEF Retain, Release, Retained, Released
  <2>5. ASSUME NEW o \in Owners, NEW b \in Blocks, NEW key \in Keys, Publish(o, b, key)
        PROVE  FALSE
    BY <2>5 DEF Publish, Published
  <2>6. ASSUME NEW count \in 1 .. NumBlocks, AllocateFails(count)
        PROVE  FALSE
    BY <2>6 DEF AllocateFails, vars
  <2> QED BY <2>3, <2>4, <2>5, <2>6 DEF Next
<1> QED BY <1>1, Invariance, PTL DEF Spec, EvictOnlyUnderPressure

=============================================================================
