------------------------------ MODULE BlockPool ------------------------------
(***************************************************************************)
(* The physical block pool of the KV cache (memory/blocks.py): reference   *)
(* counts, the LRU list of free blocks and the index of published prefix   *)
(* blocks.  Each method of BlockManager is a function from a pool to the   *)
(* pool it leaves behind, so that every component that owns blocks uses    *)
(* the same definitions.                                                   *)
(***************************************************************************)
EXTENDS Naturals, Sequences, FiniteSets

CONSTANTS NumBlocks,   (* number of physical blocks                       *)
          NoKey        (* keys[b] of a block that is not published (None) *)

ASSUME NumBlocksAssumption == NumBlocks \in Nat \ {0}

Blocks == 0 .. NumBlocks - 1

(***************************************************************************)
(* refCounts[b]: how many sequences use b.  free: unused blocks, the next  *)
(* one to reuse first.  keys[b]: the prefix b is published under.          *)
(* prefixes: the index from a prefix to its block.  shared: the counter    *)
(* the metrics export for blocks with more than one user.                  *)
(***************************************************************************)
PoolType(Keys) ==
  [refCounts : [Blocks -> Nat],
   free      : Seq(Blocks),
   keys      : [Blocks -> Keys \cup {NoKey}],
   prefixes  : UNION {[S -> Blocks] : S \in SUBSET Keys},
   shared    : Nat]

EmptyIndex == [k \in {} |-> 0]

\* Mutation: blocks are numbered from one.
EmptyPoolFromOne ==
  [refCounts |-> [b \in Blocks |-> 0],
   free      |-> [i \in 1 .. NumBlocks |-> i],
   keys      |-> [b \in Blocks |-> NoKey],
   prefixes  |-> EmptyIndex,
   shared    |-> 0]

EmptyPool ==
  [refCounts |-> [b \in Blocks |-> 0],
   free      |-> [i \in 1 .. NumBlocks |-> i - 1],
   keys      |-> [b \in Blocks |-> NoKey],
   prefixes  |-> EmptyIndex,
   shared    |-> 0]

FreeSet(p) == {p.free[i] : i \in 1 .. Len(p.free)}

-----------------------------------------------------------------------------
(* allocate(count): all or nothing; the first count blocks of the list.    *)

CanAllocate(p, count) == count <= Len(p.free)

Taken(p, count) == {p.free[i] : i \in 1 .. count}

\* Mutation: a reused block keeps its entry in the index.
AllocatedKeepingIndex(p, count) ==
  [p EXCEPT !.refCounts = [b \in Blocks |-> IF b \in Taken(p, count) THEN 1 ELSE @[b]],
            !.free      = SubSeq(@, count + 1, Len(@)),
            !.keys      = [b \in Blocks |-> IF b \in Taken(p, count) THEN NoKey ELSE @[b]]]

\* Mutation: blocks are taken from the recently used end of the list.
AllocatedFromBack(p, count) ==
  LET rest  == SubSeq(p.free, 1, Len(p.free) - count)
      taken == FreeSet(p) \ {rest[i] : i \in 1 .. Len(rest)}
      gone  == {p.keys[b] : b \in taken}
  IN  [p EXCEPT !.refCounts = [b \in Blocks |-> IF b \in taken THEN 1 ELSE @[b]],
                !.free      = rest,
                !.keys      = [b \in Blocks |-> IF b \in taken THEN NoKey ELSE @[b]],
                !.prefixes  = [k \in DOMAIN @ \ gone |-> @[k]]]

Allocated(p, count) ==
  LET gone == {p.keys[b] : b \in Taken(p, count)}
  IN  [refCounts |-> [b \in Blocks |-> IF b \in Taken(p, count) THEN 1 ELSE p.refCounts[b]],
       free      |-> SubSeq(p.free, count + 1, Len(p.free)),
       keys      |-> [b \in Blocks |-> IF b \in Taken(p, count) THEN NoKey ELSE p.keys[b]],
       prefixes  |-> [k \in DOMAIN p.prefixes \ gone |-> p.prefixes[k]],
       shared    |-> p.shared]

-----------------------------------------------------------------------------
(* retain(block): one more user; a free block leaves the list.             *)

\* The list without b, which occurs in it at most once.
Without(free, b) ==
  IF \E i \in 1 .. Len(free) : free[i] = b
  THEN LET i == CHOOSE i \in 1 .. Len(free) : free[i] = b
       IN  SubSeq(free, 1, i - 1) \o SubSeq(free, i + 1, Len(free))
  ELSE free

\* Mutation: a cached block that gets a user stays in the free list.
RetainedStillFree(p, b) ==
  [p EXCEPT !.refCounts[b] = @ + 1,
            !.shared = IF p.refCounts[b] = 1 THEN @ + 1 ELSE @]

\* Mutation: a retained block counts as one use, however many it has.
RetainedOnce(p, b) ==
  [p EXCEPT !.refCounts[b] = 1,
            !.free   = IF p.refCounts[b] = 0 THEN Without(@, b) ELSE @,
            !.shared = IF p.refCounts[b] = 1 THEN @ + 1 ELSE @]

Retained(p, b) ==
  [refCounts |-> [p.refCounts EXCEPT ![b] = @ + 1],
   free      |-> IF p.refCounts[b] = 0 THEN Without(p.free, b) ELSE p.free,
   keys      |-> p.keys,
   prefixes  |-> p.prefixes,
   shared    |-> IF p.refCounts[b] = 1 THEN p.shared + 1 ELSE p.shared]

-----------------------------------------------------------------------------
(* release(block): raises without a user; the last user returns the block, *)
(* an unpublished one to the front so that it is reused first.             *)

CanRelease(p, b) == p.refCounts[b] > 0

\* Mutation: move_to_end is forgotten, every block goes to the back.
ReleasedToBack(p, b) ==
  [p EXCEPT !.refCounts[b] = @ - 1,
            !.free   = IF p.refCounts[b] = 1 THEN Append(@, b) ELSE @,
            !.shared = IF p.refCounts[b] = 2 THEN @ - 1 ELSE @]

Released(p, b) ==
  [refCounts |-> [p.refCounts EXCEPT ![b] = @ - 1],
   free      |-> IF p.refCounts[b] # 1 THEN p.free
                 ELSE IF p.keys[b] = NoKey THEN <<b>> \o p.free ELSE Append(p.free, b),
   keys      |-> p.keys,
   prefixes  |-> p.prefixes,
   shared    |-> IF p.refCounts[b] = 2 THEN p.shared - 1 ELSE p.shared]

-----------------------------------------------------------------------------
(* publish(block, key): the first block of a prefix is the one indexed.    *)

Published(p, b, key) ==
  IF key \in DOMAIN p.prefixes THEN p
  ELSE [refCounts |-> p.refCounts,
        free      |-> p.free,
        keys      |-> [p.keys EXCEPT ![b] = key],
        prefixes  |-> [k \in DOMAIN p.prefixes \cup {key} |->
                         IF k = key THEN b ELSE p.prefixes[k]],
        shared    |-> p.shared]

\* clear_prefixes(): nothing is published any more; ownership is unchanged.
Cleared(p) ==
  [refCounts |-> p.refCounts,
   free      |-> p.free,
   keys      |-> [b \in Blocks |-> NoKey],
   prefixes  |-> EmptyIndex,
   shared    |-> p.shared]

=============================================================================
