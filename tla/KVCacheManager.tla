--------------------------- MODULE KVCacheManager ---------------------------
(***************************************************************************)
(* The paged KV cache with what it stores.  KVTables says which blocks a   *)
(* request uses; this module adds the tensors behind them and the runner   *)
(* that fills them (execution/qwen2.py): reserve, one forward that writes  *)
(* the keys and values of a batch, then commit.                            *)
(*                                                                         *)
(* The keys and values at a position depend on every token up to it, so a  *)
(* slot holds the token prefix it was computed from, or Unwritten.  What   *)
(* is left in slots nobody may read (free unpublished blocks, the part of  *)
(* a table behind the committed tokens) is represented by Unwritten too:   *)
(* a read that relied on it would get Unwritten and be noticed.            *)
(***************************************************************************)
EXTENDS KVTables

CONSTANTS Requests, Tokens, Salts,
          Prompts,         (* the token sequences requests arrive with      *)
          Storages,        (* one tensor per model sharing the tables       *)
          MaxModelLen,     (* EngineConfig.max_model_len                    *)
          MaxBatch,        (* requests in one forward                       *)
          MaxSlice         (* tokens of a request in one forward            *)

ASSUME PoolFitsContext == MaxModelLen \in Nat \ {0} /\ NumBlocks >= CeilDiv(MaxModelLen)
ASSUME RequestsAssumption == IsFiniteSet(Requests) /\ MaxBatch \in Nat /\ MaxSlice \in Nat

\* Engine.add_request refuses an empty prompt.
ASSUME PromptsAssumption == \A p \in Prompts : p \in Seq(Tokens) /\ p # <<>>

\* None is not a hash.
ASSUME NoKeyAssumption == NoKey \notin Salts \X Seq(Tokens)

VARIABLES kv,        (* [pool, states]: BlockManager and the block tables     *)
          content,   (* content[m][b][o]: what storage m holds in slot o of b *)
          batch      (* the forward in flight: a sequence of [rid, tokens]    *)

vars == <<kv, content, batch>>

Unwritten == <<>>

Init ==
  /\ kv = EmptyKV
  /\ content = [m \in Storages |-> [b \in Blocks |-> [o \in 0 .. BlockSize - 1 |-> Unwritten]]]
  /\ batch = <<>>

-----------------------------------------------------------------------------
(* The tensors (memory/storage.py).                                        *)

\* Mutation: the page is copied in the first model's tensor only.
CopyBlockInOne(store, models, old, new) ==
  LET one == CHOOSE m \in Storages : TRUE
  IN  [m \in Storages |-> IF m = one THEN [store[m] EXCEPT ![new] = store[m][old]] ELSE store[m]]

\* copy_block in each of the given storages.
CopyBlock(store, models, old, new) ==
  [m \in Storages |-> IF m \in models THEN [store[m] EXCEPT ![new] = store[m][old]] ELSE store[m]]

\* The forward writes positions Len(state.tokens) .. Len(state.tokens) + Len(new) - 1.
WriteTokens(store, state, new) ==
  LET all     == state.tokens \o new
      written == Len(state.tokens) .. Len(all) - 1
      \* The position that lands in slot o of block b, if any.
      at(b, o) == {pos \in written : SlotBlock(state, pos) = b /\ pos % BlockSize = o}
  IN  [m \in Storages |-> [b \in Blocks |-> [o \in 0 .. BlockSize - 1 |->
         IF at(b, o) = {} THEN store[m][b][o]
         ELSE SubSeq(all, 1, (CHOOSE pos \in at(b, o) : TRUE) + 1)]]]

InBatch(b, r) == \E i \in 1 .. Len(b) : b[i].rid = r

\* The tokens of r with those that the forward in flight adds.
Batched(tokens, b, r) ==
  IF InBatch(b, r)
  THEN tokens \o b[CHOOSE i \in 1 .. Len(b) : b[i].rid = r].tokens
  ELSE tokens

\* The slots that may be read: those of committed tokens and of the forward
\* in flight, and the published blocks.
Readable(k, b) ==
  (UNION {{<<SlotBlock(k.states[r], pos), pos % BlockSize>> :
              pos \in 0 .. Len(Batched(k.states[r].tokens, b, r)) - 1} : r \in Live(k)})
    \cup {<<k.pool.prefixes[key], o>> : key \in DOMAIN k.pool.prefixes, o \in 0 .. BlockSize - 1}

\* The next contents are store, of which only readable slots matter.
StoreBecomes(store) ==
  LET readable == Readable(kv', batch')
  IN  content' = [m \in Storages |-> [b \in Blocks |-> [o \in 0 .. BlockSize - 1 |->
                    IF <<b, o>> \in readable THEN store[m][b][o] ELSE Unwritten]]]

-----------------------------------------------------------------------------
(* Calls made between forwards: by the scheduler, the engine and tests.    *)

Idle == batch = <<>>

Attach(r, tokens, salt) ==
  /\ Idle /\ r \notin Live(kv)
  /\ kv' = Attached(kv, r, tokens, salt)
  /\ UNCHANGED batch
  /\ StoreBecomes(content)

\* The contents once a reservation has copied the tail it had to copy.
AfterReserve(r, end) ==
  IF CopyTail(kv, r, end)
  THEN CopyBlock(content, Storages, kv.states[r].blocks[TailIndex(kv, r)], Head(Fresh(kv, r, end)))
  ELSE content

\* reserve succeeded; the page copy of a shared tail reaches every storage.
Reserve(r, end) ==
  /\ Idle /\ r \in Live(kv)
  /\ CanReserve(kv, r, end)
  /\ kv' = Reserved(kv, r, end)
  /\ UNCHANGED batch
  /\ StoreBecomes(AfterReserve(r, end))

\* reserve raised while copying: some storages may have been copied already.
ReserveRaises(r, end, done) ==
  /\ Idle /\ r \in Live(kv)
  /\ CanReserve(kv, r, end) /\ CopyTail(kv, r, end)
  /\ done # Storages
  /\ kv' = ReservationUndone(kv, r, end)
  /\ UNCHANGED batch
  /\ StoreBecomes(CopyBlock(content, done, kv.states[r].blocks[TailIndex(kv, r)],
                            Head(Fresh(kv, r, end))))

Fork(source, target) ==
  /\ Idle /\ source \in Live(kv) /\ target \notin Live(kv)
  /\ kv' = Forked(kv, source, target)
  /\ UNCHANGED batch
  /\ StoreBecomes(content)

Trim(r) ==
  /\ Idle /\ r \in Live(kv)
  /\ kv' = Trimmed(kv, r)
  /\ UNCHANGED batch
  /\ StoreBecomes(content)

Release(r) ==
  /\ Idle /\ r \in Live(kv)
  /\ kv' = ReleasedRequest(kv, r)
  /\ UNCHANGED batch
  /\ StoreBecomes(content)

ClearPrefixCache ==
  /\ Idle
  /\ kv' = [kv EXCEPT !.pool = Cleared(@)]
  /\ UNCHANGED batch
  /\ StoreBecomes(content)

-----------------------------------------------------------------------------
(* Qwen2Runner.execute, one item at a time: reserve up to the item's end   *)
(* and write.  The forward's writes are complete before any commit.        *)

Forward(r, new) ==
  LET end == Computed(kv, r) + Len(new) IN
  /\ r \in Live(kv) /\ ~InBatch(batch, r) /\ Len(batch) < MaxBatch
  /\ end <= MaxModelLen
  /\ CanReserve(kv, r, end)
  /\ kv' = Reserved(kv, r, end)
  /\ batch' = Append(batch, [rid |-> r, tokens |-> new])
  /\ StoreBecomes(WriteTokens(AfterReserve(r, end), kv'.states[r], new))

\* commit for every item in batch order.  A decoder that verified proposals
\* commits only the accepted[i] first tokens it wrote.
CommitBatch(accepted) ==
  /\ batch # <<>>
  /\ \A i \in 1 .. Len(batch) : accepted[i] <= Len(batch[i].tokens)
  /\ LET commit(k, i) == Committed(k, batch[i].rid, SubSeq(batch[i].tokens, 1, accepted[i]))
     IN  kv' = Loop(commit, kv, Len(batch))
  /\ batch' = <<>>
  /\ StoreBecomes(content)

\* The forward raised: nothing is committed, the reserved blocks stay.
ForwardRaises ==
  /\ batch # <<>>
  /\ batch' = <<>>
  /\ UNCHANGED kv
  /\ StoreBecomes(content)

Next ==
  \/ \E r \in Requests, tokens \in Prompts, salt \in Salts : Attach(r, tokens, salt)
  \/ \E r \in Requests, end \in 1 .. MaxModelLen : Reserve(r, end)
  \/ \E r \in Requests, end \in 1 .. MaxModelLen, done \in SUBSET Storages : ReserveRaises(r, end, done)
  \/ \E source, target \in Requests : Fork(source, target)
  \/ \E r \in Requests : Trim(r)
  \/ \E r \in Requests : Release(r)
  \/ ClearPrefixCache
  \/ \E r \in Requests, n \in 1 .. MaxSlice : \E new \in [1 .. n -> Tokens] : Forward(r, new)
  \/ \E accepted \in [1 .. Len(batch) -> 1 .. MaxSlice] : CommitBatch(accepted)
  \/ ForwardRaises

Spec == Init /\ [][Next]_vars

-----------------------------------------------------------------------------
Users(b) == {r \in Live(kv) : b \in ToSet(kv.states[r].blocks)}

\* No leak, no double free, no block in two tables without a count: over any
\* sequence of attach, reserve (also one whose copy raised), fork, commit,
\* trim and release, a count is the number of tables the block is in, no table
\* has a block twice, and the free blocks are those in no table.
OwnershipExact ==
  /\ \A b \in Blocks : kv.pool.refCounts[b] = Cardinality(Users(b))
  /\ \A r \in Live(kv) : IsInjective(kv.states[r].blocks)
  /\ FreeSet(kv.pool) = {b \in Blocks : Users(b) = {}}
  /\ IsInjective(kv.pool.free)

\* A published block holds, in every storage, the keys and values of the
\* prefix it is published under: "Only complete blocks are published".
PublishedExact ==
  \A key \in DOMAIN kv.pool.prefixes, m \in Storages :
    LET prefix == key[2]
        last   == Len(prefix) - BlockSize
    IN  \A o \in 0 .. BlockSize - 1 :
          content[m][kv.pool.prefixes[key]][o] = SubSeq(prefix, 1, last + o + 1)

\* Requests share pages only within one cache salt.
SaltIsolation ==
  \A r, s \in Live(kv) :
    ToSet(kv.states[r].blocks) \cap ToSet(kv.states[s].blocks) # {}
      => kv.states[r].salt = kv.states[s].salt

\* What a forward writes is in a block of its request alone.
WritesPrivately ==
  \A m \in Storages, b \in Blocks :
    Len(batch') > Len(batch) /\ content'[m][b] # content[m][b] =>
      kv'.pool.keys[b] = NoKey /\ kv'.pool.refCounts[b] <= 1

\* A forward never changes a slot that another request reads or that a lookup
\* could return.
WritesArePrivate == [][WritesPrivately]_vars

-----------------------------------------------------------------------------
(* Refinement: gathering the slots of the block tables gives KVStore.      *)

Gathered ==
  [r \in Live(kv) |->
     [tokens |-> kv.states[r].tokens, salt |-> kv.states[r].salt,
      values |-> [m \in Storages |-> [i \in 1 .. Computed(kv, r) |->
                    content[m][SlotBlock(kv.states[r], i - 1)][(i - 1) % BlockSize]]]]]

Abstract == INSTANCE KVStore WITH store <- Gathered

\* Paging, prefix sharing, copy-on-write and eviction are invisible: the cache
\* behaves as if every request had its keys and values for itself.
ImplementsKVStore == Abstract!Spec

=============================================================================
