---------------------------- MODULE BlockManager ----------------------------
(***************************************************************************)
(* The block pool together with the sequences that use it.  The pool does  *)
(* not know its users, so holds records which blocks each user has been    *)
(* given and not yet returned; the users follow the protocol of            *)
(* KVCacheManager, the only caller of memory/blocks.py: one reference per  *)
(* user and block, release only what is held, publish a held block once.   *)
(***************************************************************************)
EXTENDS BlockPool

CONSTANTS Owners,   (* the sequences that may hold blocks              *)
          Keys      (* the prefixes a block may be published under     *)

ASSUME OwnersAssumption == IsFiniteSet(Owners)
ASSUME KeysAssumption == NoKey \notin Keys

VARIABLES pool,     (* the BlockManager object                         *)
          holds     (* holds[o]: the blocks user o has a reference on  *)

vars == <<pool, holds>>

Init ==
  /\ pool = EmptyPool
  /\ holds = [o \in Owners |-> {}]

-----------------------------------------------------------------------------
(* A reservation takes a whole number of blocks or changes nothing.        *)
Allocate(o, count) ==
  /\ CanAllocate(pool, count)
  /\ pool' = Allocated(pool, count)
  /\ holds' = [holds EXCEPT ![o] = @ \cup Taken(pool, count)]

\* allocate returns None.
AllocateFails(count) ==
  /\ ~CanAllocate(pool, count)
  /\ UNCHANGED vars

\* A prefix hit retains a published block, a fork a block in use.
Retain(o, b) ==
  /\ b \notin holds[o]
  /\ pool.keys[b] # NoKey \/ pool.refCounts[b] > 0
  /\ pool' = Retained(pool, b)
  /\ holds' = [holds EXCEPT ![o] = @ \cup {b}]

Release(o, b) ==
  /\ b \in holds[o]
  /\ CanRelease(pool, b)
  /\ pool' = Released(pool, b)
  /\ holds' = [holds EXCEPT ![o] = @ \ {b}]

\* A sequence publishes a block it has just filled, so one without a key.
Publish(o, b, key) ==
  /\ b \in holds[o]
  /\ pool.keys[b] = NoKey
  /\ pool' = Published(pool, b, key)
  /\ UNCHANGED holds

ClearPrefixes ==
  /\ pool' = Cleared(pool)
  /\ UNCHANGED holds

Next ==
  \/ \E o \in Owners, count \in 1 .. NumBlocks : Allocate(o, count)
  \/ \E count \in 1 .. NumBlocks : AllocateFails(count)
  \/ \E o \in Owners, b \in Blocks : Retain(o, b)
  \/ \E o \in Owners, b \in Blocks : Release(o, b)
  \/ \E o \in Owners, b \in Blocks, key \in Keys : Publish(o, b, key)
  \/ ClearPrefixes

Spec == Init /\ [][Next]_vars

-----------------------------------------------------------------------------
Holders(b) == {o \in Owners : b \in holds[o]}

TypeOK ==
  /\ pool \in PoolType(Keys)
  /\ holds \in [Owners -> SUBSET Blocks]

\* No leak and no premature reuse: the list holds exactly the blocks without
\* a user, each once (allocate, retain and release agree on who is free).
FreeIsUnused ==
  /\ FreeSet(pool) = {b \in Blocks : pool.refCounts[b] = 0}
  /\ \A i, j \in 1 .. Len(pool.free) : pool.free[i] = pool.free[j] => i = j

\* A reference count is the number of sequences that hold the block, over
\* any sequence of allocate, retain and release calls.
RefCountsHolders ==
  \A b \in Blocks : pool.refCounts[b] = Cardinality(Holders(b))

\* The index and the per-block keys are inverse to each other: a lookup never
\* returns a block that was reused for something else, and an eviction never
\* removes another block's entry.
IndexMatchesKeys ==
  /\ \A k \in DOMAIN pool.prefixes : pool.keys[pool.prefixes[k]] = k
  /\ \A b \in Blocks : pool.keys[b] # NoKey =>
       /\ pool.keys[b] \in DOMAIN pool.prefixes
       /\ pool.prefixes[pool.keys[b]] = b

\* The exported counter of shared blocks is exact.
SharedIsExact ==
  pool.shared = Cardinality({b \in Blocks : pool.refCounts[b] > 1})

\* "Uncached private tails are reused before cached prefix blocks": no
\* published block stands before an unpublished one in the free list.
UncachedFirst ==
  \A i, j \in 1 .. Len(pool.free) :
    i < j /\ pool.keys[pool.free[i]] # NoKey => pool.keys[pool.free[j]] # NoKey

\* A prefix is forgotten only by clear_prefixes or because no unpublished
\* block was left to satisfy the reservation that took its block.
EvictOnlyUnderPressure ==
  [][\A k \in DOMAIN pool.prefixes \ DOMAIN pool'.prefixes :
       ClearPrefixes \/ \A b \in FreeSet(pool') : pool.keys[b] # NoKey]_vars

=============================================================================
