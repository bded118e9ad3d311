-------------------------- MODULE MCKVCacheManager --------------------------
(* Two settings of one cache of three blocks. Sharing, the constants of the *)
(* configuration: blocks of two tokens, a target and a draft model behind   *)
(* the same tables, batches of two; tails, forks and copy-on-write. Chain:  *)
(* blocks of one token and two salts; chains of up to three blocks in which *)
(* hits, duplicates, evictions and clearing meet.  A behaviour runs one of  *)
(* them; the other stays as it was made.                                    *)
EXTENDS KVCacheManager, TLC

CONSTANTS a, b, r1, r2, target, draft

VARIABLES chain, chainKV, chainContent, chainBatch

chainVars == <<chainKV, chainContent, chainBatch>>

Chain == INSTANCE KVCacheManager WITH
  BlockSize <- 1, Salts <- {"s", "t"}, Storages <- {target}, MaxBatch <- 1, MaxSlice <- 2,
  kv <- chainKV, content <- chainContent, batch <- chainBatch

MCPrompts == {<<a, a>>, <<a, a, a>>, <<a, b, a>>}
MCSymmetry == Permutations(Requests)

MCInit == chain \in BOOLEAN /\ Init /\ Chain!Init

MCNext ==
  /\ UNCHANGED chain
  /\ \/ chain /\ Chain!Next /\ UNCHANGED vars
     \/ ~chain /\ Next /\ UNCHANGED chainVars

MCSpec == MCInit /\ [][MCNext]_<<vars, chainVars, chain>>

-----------------------------------------------------------------------------
\* Where prefixes are chains of blocks and salts differ, a published block
\* still holds the prefix it is published under, requests share pages within a
\* salt only, and the counts are exact.
MCChainsExact ==
  Chain!PublishedExact /\ Chain!SaltIsolation /\ Chain!OwnershipExact
=============================================================================
