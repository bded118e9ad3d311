------------------------------ MODULE KVTables ------------------------------
(***************************************************************************)
(* The block tables of KVCacheManager (memory/manager.py) over the block   *)
(* pool.  kv is a record [pool, states]; states maps a live request to its *)
(* SequenceState.  Each method of the manager is a function from kv to kv, *)
(* used by the cache's own specification and by the scheduler's.           *)
(*                                                                         *)
(* A prefix key is the hash chain over namespace, salt and full blocks; it *)
(* is modelled as the pair of the salt and all tokens up to the block's    *)
(* end, so distinct prefixes have distinct keys.  SequenceState.hashes     *)
(* always holds the keys of the full committed blocks and is not kept.     *)
(***************************************************************************)
EXTENDS BlockPool, Lists

CONSTANTS BlockSize,            (* tokens per block                        *)
          EnablePrefixCache     (* MemoryConfig.enable_prefix_cache        *)

ASSUME BlockSizeAssumption == BlockSize \in Nat \ {0}
ASSUME PrefixCacheAssumption == EnablePrefixCache \in BOOLEAN

CeilDiv(n) == (n + BlockSize - 1) \div BlockSize

\* retain or release called for the blocks of a list, one after the other.
RetainedAll(p, blocks) == Loop(LAMBDA q, i : Retained(q, blocks[i]), p, Len(blocks))
ReleasedAll(p, blocks) == Loop(LAMBDA q, i : Released(q, blocks[i]), p, Len(blocks))

EmptyKV == [pool |-> EmptyPool, states |-> [r \in {} |-> 0]]

Live(kv) == DOMAIN kv.states
Computed(kv, r) == Len(kv.states[r].tokens)

\* The block of position pos; its slot in the block is pos % BlockSize.
SlotBlock(state, pos) == state.blocks[pos \div BlockSize + 1]

WithState(kv, r, state) ==
  [kv.states EXCEPT ![r] = state]

AddState(kv, r, state) ==
  [x \in Live(kv) \cup {r} |-> IF x = r THEN state ELSE kv.states[x]]

WithoutState(kv, r) ==
  [x \in Live(kv) \ {r} |-> kv.states[x]]

-----------------------------------------------------------------------------
(* Prefix keys.                                                            *)

\* Mutation: requests with different salts share the hash root.
PrefixKeyUnsalted(salt, tokens, i) == <<"", SubSeq(tokens, 1, i * BlockSize)>>

\* Mutation: the hash covers the block's own tokens but not its parent.
PrefixKeyUnchained(salt, tokens, i) ==
  <<salt, SubSeq(tokens, (i - 1) * BlockSize + 1, i * BlockSize)>>

\* The key of the i-th full block of a sequence.
PrefixKey(salt, tokens, i) == <<salt, SubSeq(tokens, 1, i * BlockSize)>>

-----------------------------------------------------------------------------
(* attach: the longest published chain of full blocks, at least one token  *)
(* short of the request, becomes the head of the request's table.          *)

MaxHitBlocks(tokens) == IF tokens = <<>> THEN 0 ELSE (Len(tokens) - 1) \div BlockSize

HitBlocks(kv, tokens, salt) ==
  IF ~EnablePrefixCache THEN 0
  ELSE CHOOSE n \in 0 .. MaxHitBlocks(tokens) :
         /\ \A i \in 1 .. n : PrefixKey(salt, tokens, i) \in DOMAIN kv.pool.prefixes
         /\ n = MaxHitBlocks(tokens)
              \/ PrefixKey(salt, tokens, n + 1) \notin DOMAIN kv.pool.prefixes

Attached(kv, r, tokens, salt) ==
  IF r \in Live(kv) THEN kv ELSE
  LET n    == HitBlocks(kv, tokens, salt)
      hits == [i \in 1 .. n |-> kv.pool.prefixes[PrefixKey(salt, tokens, i)]]
  IN  [pool   |-> RetainedAll(kv.pool, hits),
       states |-> AddState(kv, r,
         [blocks |-> hits, tokens |-> SubSeq(tokens, 1, n * BlockSize), salt |-> salt])]

-----------------------------------------------------------------------------
(* reserve(r, end): blocks for positions below end.  A shared, partly      *)
(* filled tail that is about to be extended is copied first.               *)

Needed(kv, r, end) ==
  LET missing == CeilDiv(end) - Len(kv.states[r].blocks)
  IN  IF missing > 0 THEN missing ELSE 0

\* The position of the tail block in the table.
TailIndex(kv, r) == Computed(kv, r) \div BlockSize + 1

\* Mutation: a shared tail is extended in place.
CopyTailNever(kv, r, end) == FALSE

CopyTail(kv, r, end) ==
  /\ Computed(kv, r) % BlockSize # 0
  /\ kv.pool.refCounts[kv.states[r].blocks[TailIndex(kv, r)]] > 1
  /\ end > Computed(kv, r)

Demand(kv, r, end) == Needed(kv, r, end) + (IF CopyTail(kv, r, end) THEN 1 ELSE 0)

CanReserve(kv, r, end) == CanAllocate(kv.pool, Demand(kv, r, end))

\* The blocks a reservation takes, in the order allocate returns them.
Fresh(kv, r, end) == SubSeq(kv.pool.free, 1, Demand(kv, r, end))

Reserved(kv, r, end) ==
  LET state == kv.states[r]
      fresh == Fresh(kv, r, end)
      p     == Allocated(kv.pool, Demand(kv, r, end))
  IN  IF CopyTail(kv, r, end)
      THEN [pool   |-> Released(p, state.blocks[TailIndex(kv, r)]),
            states |-> WithState(kv, r,
               [state EXCEPT !.blocks = [@ EXCEPT ![TailIndex(kv, r)] = Head(fresh)] \o Tail(fresh)])]
      ELSE [pool   |-> p,
            states |-> WithState(kv, r, [state EXCEPT !.blocks = @ \o fresh])]

\* copy_block raised: every block just taken is released again.
ReservationUndone(kv, r, end) ==
  [kv EXCEPT !.pool = ReleasedAll(Allocated(@, Demand(kv, r, end)), Fresh(kv, r, end))]

-----------------------------------------------------------------------------
(* fork(source, target): share the blocks that hold committed tokens.      *)

Forked(kv, source, target) ==
  LET state  == kv.states[source]
      blocks == SubSeq(state.blocks, 1, CeilDiv(Len(state.tokens)))
  IN  [pool   |-> RetainedAll(kv.pool, blocks),
       states |-> AddState(kv, target, [state EXCEPT !.blocks = blocks])]

-----------------------------------------------------------------------------
(* commit(r, tokens): the blocks the new tokens complete are published.    *)

\* The full blocks of a sequence that follow the known ones, in order.
PublishedUpTo(p, state, known, full) ==
  Loop(LAMBDA q, i : Published(q, state.blocks[known + i],
                               PrefixKey(state.salt, state.tokens, known + i)),
       p, full - known)

Committed(kv, r, new) ==
  LET state == [kv.states[r] EXCEPT !.tokens = @ \o new]
      known == Computed(kv, r) \div BlockSize
      full  == IF EnablePrefixCache THEN Len(state.tokens) \div BlockSize ELSE known
  IN  [pool   |-> PublishedUpTo(kv.pool, state, known, full),
       states |-> WithState(kv, r, state)]

-----------------------------------------------------------------------------
(* trim(r): give back the blocks behind the committed tokens.              *)

Trimmed(kv, r) ==
  LET state == kv.states[r]
      keep  == CeilDiv(Len(state.tokens))
  IN  [pool   |-> ReleasedAll(kv.pool, Reverse(SubSeq(state.blocks, keep + 1, Len(state.blocks)))),
       states |-> WithState(kv, r, [state EXCEPT !.blocks = SubSeq(@, 1, keep)])]

\* Mutation: only the blocks that hold committed tokens are returned.
ReleasedCommittedOnly(kv, r) ==
  IF r \notin Live(kv) THEN kv
  ELSE [pool   |-> ReleasedAll(kv.pool,
                     Reverse(SubSeq(kv.states[r].blocks, 1, CeilDiv(Computed(kv, r))))),
        states |-> WithoutState(kv, r)]

\* release(r): the whole table, last block first; an unknown request is ignored.
ReleasedRequest(kv, r) ==
  IF r \notin Live(kv) THEN kv
  ELSE [pool   |-> ReleasedAll(kv.pool, Reverse(kv.states[r].blocks)),
        states |-> WithoutState(kv, r)]

=============================================================================
