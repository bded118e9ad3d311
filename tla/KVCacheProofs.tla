--------------------------- MODULE KVCacheProofs ----------------------------
(***************************************************************************)
(* The paged KV cache keeps its promises for every number and size of      *)
(* blocks, any requests, tokens, salts and models, and any batch size.     *)
(* KVTablesProofs says what each call does to the block tables; here are   *)
(* the tensors behind the tables and the forward in flight.                *)
(***************************************************************************)
EXTENDS KVCacheManager, KVTablesProofs

-----------------------------------------------------------------------------
(* The inductive invariant.  Its parts are stated of any tables k, tensors *)
(* c and batch b, so that they can be stated of the next state too.        *)

\* The tokens of r with those of the forward in flight.
Current(k, b, r) == Batched(k.states[r].tokens, b, r)

Items == [rid : Requests, tokens : Seq(Tokens)]

\* A batch has live requests, each once, and the positions it writes are each
\* in a block of its request alone.
BatchOK(k, b) ==
  /\ Len(b) \in Nat
  /\ \A i \in 1 .. Len(b) : /\ b[i].rid \in Live(k)
                            /\ b[i].tokens \in Seq(Tokens)
                            /\ Own(k, b[i].rid, Len(b[i].tokens))
  /\ \A i, j \in 1 .. Len(b) : b[i].rid = b[j].rid => i = j

\* Gathering the slots of a table gives what a cache for these tokens alone
\* would hold.
ReadsBack(state, tokens, c) ==
  \A m \in Storages : \A pos \in 0 .. Len(tokens) - 1 :
    c[m][SlotBlock(state, pos)][pos % BlockSize] = SubSeq(tokens, 1, pos + 1)

SlotsOK(k, c, b) == \A r \in Live(k) : ReadsBack(k.states[r], Current(k, b, r), c)

\* What slot o of the block published under key holds.
Held(key, o) == SubSeq(key[2], 1, Len(key[2]) - BlockSize + o + 1)

\* PublishedExact of any tables and tensors.
PrefixesOK(k, c) ==
  \A key \in DOMAIN k.pool.prefixes, m \in Storages : \A o \in 0 .. BlockSize - 1 :
    c[m][k.pool.prefixes[key]][o] = Held(key, o)

\* What nobody may read is Unwritten.
RestUnwritten(k, c, b) ==
  \A m \in Storages, x \in Blocks, o \in 0 .. BlockSize - 1 :
    <<x, o>> \notin Readable(k, b) => c[m][x][o] = Unwritten

Tensors(c) == c = [m \in Storages |-> [x \in Blocks |-> [o \in 0 .. BlockSize - 1 |-> c[m][x][o]]]]

IInv ==
  /\ TablesOK(kv, Tokens, Salts)
  /\ Live(kv) \subseteq Requests
  /\ batch \in Seq(Items) /\ BatchOK(kv, batch)
  /\ Tensors(content)
  /\ SlotsOK(kv, content, batch)
  /\ PrefixesOK(kv, content)
  /\ RestUnwritten(kv, content, batch)

-----------------------------------------------------------------------------
(* What is read, and what is kept of the tensors.                           *)

Extended(tokens, new) == tokens \o new

\* fewer is the beginning of tokens.
Begins(fewer, tokens) ==
  /\ Len(fewer) <= Len(tokens)
  /\ \A m \in 0 .. Len(fewer) : SubSeq(tokens, 1, m) = SubSeq(fewer, 1, m)

\* A request of the batch has its committed tokens followed by the new ones.
LEMMA CurrentInBatch ==
  ASSUME NEW k, NEW b, BatchOK(k, b), NEW i \in 1 .. Len(b), NEW r, b[i].rid = r
  PROVE  Current(k, b, r) = Extended(k.states[r].tokens, b[i].tokens)
<1> DEFINE j == CHOOSE j \in 1 .. Len(b) : b[j].rid = r
<1>1. InBatch(b, r)
  BY DEF InBatch
<1>2. j \in 1 .. Len(b) /\ b[j].rid = r
  OBVIOUS
<1>3. j = i
  BY <1>2 DEF BatchOK
<1>4. Current(k, b, r) = Extended(k.states[r].tokens, b[j].tokens)
  BY <1>1 DEF Current, Batched, Extended
<1> QED BY <1>3, <1>4

\* A request outside the batch has its committed tokens.
LEMMA CurrentOutside ==
  ASSUME NEW k, NEW b, NEW r, ~InBatch(b, r)
  PROVE  Current(k, b, r) = k.states[r].tokens
  BY DEF Current, Batched

\* Every current token has a slot in the request's table.
LEMMA CurrentFacts ==
  ASSUME NEW k, TablesOK(k, Tokens, Salts), NEW b, BatchOK(k, b), NEW r \in Live(k),
         NEW state, state = k.states[r], NEW tokens, tokens = Current(k, b, r)
  PROVE  /\ state \in StateType(Tokens, Salts) /\ TableOK(k.pool.keys, state)
         /\ tokens \in Seq(Tokens) /\ Begins(state.tokens, tokens)
         /\ \A pos \in 0 .. Len(tokens) - 1 :
              /\ pos \div BlockSize + 1 \in 1 .. Len(state.blocks)
              /\ SlotBlock(state, pos) \in Blocks /\ Listed(state.blocks, SlotBlock(state, pos))
              /\ pos % BlockSize \in 0 .. BlockSize - 1
         /\ \A i \in 1 .. Len(b) : b[i].rid = r => tokens = state.tokens \o b[i].tokens
         /\ ~InBatch(b, r) => tokens = state.tokens
<1>1. state \in StateType(Tokens, Salts) /\ TableOK(k.pool.keys, state)
  BY DEF TablesOK, StatesOK
<1>2. /\ state.tokens \in Seq(Tokens) /\ state.blocks \in Seq(Blocks)
      /\ Len(state.tokens) \in Nat /\ Len(state.blocks) \in Nat
      /\ Len(state.tokens) <= End(Len(state.blocks)) /\ End(Len(state.blocks)) \in Nat
  <2>1. /\ state.tokens \in Seq(Tokens) /\ state.blocks \in Seq(Blocks)
        /\ Len(state.tokens) \in Nat /\ Len(state.blocks) \in Nat
        /\ Len(state.tokens) <= End(Len(state.blocks))
    BY <1>1 DEF StateType, TableOK
  <2>2. End(Len(state.blocks)) \in Nat
    BY <2>1, EndFacts
  <2> QED BY <2>1, <2>2
<1>3. /\ \A i \in 1 .. Len(b) : b[i].rid = r => tokens = state.tokens \o b[i].tokens
      /\ ~InBatch(b, r) => tokens = state.tokens
  <2>1. \A i \in 1 .. Len(b) : b[i].rid = r => tokens = Extended(state.tokens, b[i].tokens)
    BY CurrentInBatch
  <2>2. ~InBatch(b, r) => tokens = state.tokens
    BY CurrentOutside
  <2> QED BY <2>1, <2>2 DEF Extended
<1>4. /\ tokens \in Seq(Tokens) /\ Len(state.tokens) \in 0 .. Len(tokens)
      /\ Len(tokens) <= End(Len(state.blocks))
      /\ \A m \in 0 .. Len(state.tokens) : SubSeq(tokens, 1, m) = SubSeq(state.tokens, 1, m)
  <2>1. CASE InBatch(b, r)
    <3>1. PICK i \in 1 .. Len(b) : b[i].rid = r
      BY <2>1 DEF InBatch
    <3>2. /\ b[i].tokens \in Seq(Tokens) /\ Own(k, r, Len(b[i].tokens))
          /\ tokens = state.tokens \o b[i].tokens
      BY <1>3, <3>1 DEF BatchOK
    <3> DEFINE new == b[i].tokens
    <3>3. Len(new) \in Nat /\ Len(state.tokens) + Len(new) <= End(Len(state.blocks))
      <4>1. Len(new) \in Nat
        BY <3>2
      <4>2. Len(k.states[r].tokens) + Len(new) <= End(Len(k.states[r].blocks))
        BY <3>2 DEF Own
      <4> QED BY <4>1, <4>2
    <3>4. \A m \in 0 .. Len(state.tokens) :
            /\ state.tokens \o new \in Seq(Tokens)
            /\ Len(state.tokens \o new) = Len(state.tokens) + Len(new)
            /\ SubSeq(state.tokens \o new, 1, m) = SubSeq(state.tokens, 1, m)
      BY <1>2, <3>2, PrefixOfConcat
    <3>5. 0 \in 0 .. Len(state.tokens)
      BY <1>2
    <3>6. tokens = state.tokens \o new
      BY <3>2
    <3> HIDE DEF new
    <3>7. /\ tokens \in Seq(Tokens) /\ Len(tokens) = Len(state.tokens) + Len(new)
          /\ \A m \in 0 .. Len(state.tokens) : SubSeq(tokens, 1, m) = SubSeq(state.tokens, 1, m)
      BY <3>4, <3>5, <3>6
    <3> QED BY <1>2, <3>3, <3>7
  <2>2. CASE ~InBatch(b, r)
    BY <1>2, <1>3, <2>2
  <2> QED BY <2>1, <2>2
<1>5. ASSUME NEW pos \in 0 .. Len(tokens) - 1
      PROVE  /\ pos \div BlockSize + 1 \in 1 .. Len(state.blocks)
             /\ SlotBlock(state, pos) \in Blocks /\ Listed(state.blocks, SlotBlock(state, pos))
             /\ pos % BlockSize \in 0 .. BlockSize - 1
  <2>1. pos \in Nat /\ pos < End(Len(state.blocks))
    BY <1>2, <1>4
  <2>2. pos \div BlockSize + 1 \in 1 .. Len(state.blocks)
    BY <1>2, <2>1, PositionInTable
  <2>3. pos % BlockSize \in 0 .. BlockSize - 1
    BY <2>1, SlotFacts
  <2> QED BY <1>2, <2>2, <2>3 DEF SlotBlock, Listed
<1>6. Begins(state.tokens, tokens)
  BY <1>4 DEF Begins
<1> QED BY <1>1, <1>3, <1>4, <1>5, <1>6

\* Slot o of block x holds a token of r.
ReadBy(k, b, r, x, o) ==
  \E pos \in 0 .. Len(Current(k, b, r)) - 1 : x = SlotBlock(k.states[r], pos) /\ o = pos % BlockSize

\* A slot is readable when a request reads it or the index holds its block.
LEMMA ReadableIff ==
  ASSUME NEW k, NEW b, NEW x, NEW o
  PROVE  <<x, o>> \in Readable(k, b) <=>
           \/ \E r \in Live(k) : ReadBy(k, b, r, x, o)
           \/ \E key \in DOMAIN k.pool.prefixes :
                x = k.pool.prefixes[key] /\ o \in 0 .. BlockSize - 1
  BY DEF Readable, Current, ReadBy

\* A store of which only what may be read is kept.
Cleaned(k, b, store) ==
  [m \in Storages |-> [x \in Blocks |-> [o \in 0 .. BlockSize - 1 |->
     IF <<x, o>> \in Readable(k, b) THEN store[m][x][o] ELSE Unwritten]]]

\* Forgetting what nothing reads disturbs neither the requests nor the index.
LEMMA CleanedOK ==
  ASSUME NEW k, TablesOK(k, Tokens, Salts), NEW b, BatchOK(k, b),
         NEW store, SlotsOK(k, store, b), PrefixesOK(k, store),
         NEW c, c = Cleaned(k, b, store)
  PROVE  Tensors(c) /\ SlotsOK(k, c, b) /\ PrefixesOK(k, c) /\ RestUnwritten(k, c, b)
<1>1. \A m \in Storages, x \in Blocks, o \in 0 .. BlockSize - 1 :
        c[m][x][o] = IF <<x, o>> \in Readable(k, b) THEN store[m][x][o] ELSE Unwritten
  BY DEF Cleaned
<1>2. Tensors(c)
  BY DEF Cleaned, Tensors
<1>3. ASSUME NEW r \in Live(k) PROVE ReadsBack(k.states[r], Current(k, b, r), c)
  <2> DEFINE state == k.states[r]
             tokens == Current(k, b, r)
  <2> SUFFICES ASSUME NEW m \in Storages, NEW pos \in 0 .. Len(tokens) - 1
               PROVE  c[m][SlotBlock(state, pos)][pos % BlockSize] = SubSeq(tokens, 1, pos + 1)
    BY DEF ReadsBack
  <2>1. SlotBlock(state, pos) \in Blocks /\ pos % BlockSize \in 0 .. BlockSize - 1
    BY CurrentFacts
  <2>2. <<SlotBlock(state, pos), pos % BlockSize>> \in Readable(k, b)
    <3>1. ReadBy(k, b, r, SlotBlock(state, pos), pos % BlockSize)
      BY DEF ReadBy
    <3> QED BY <3>1, ReadableIff
  <2>3. store[m][SlotBlock(state, pos)][pos % BlockSize] = SubSeq(tokens, 1, pos + 1)
    BY DEF SlotsOK, ReadsBack
  <2> HIDE DEF state, tokens
  <2> QED BY <1>1, <2>1, <2>2, <2>3
<1>4. PrefixesOK(k, c)
  <2>1. k.pool.prefixes \in [DOMAIN k.pool.prefixes -> Blocks]
    BY DEF TablesOK, PoolOK, PoolType
  <2> SUFFICES ASSUME NEW key \in DOMAIN k.pool.prefixes, NEW m \in Storages,
                      NEW o \in 0 .. BlockSize - 1
               PROVE  c[m][k.pool.prefixes[key]][o] = store[m][k.pool.prefixes[key]][o]
    BY DEF PrefixesOK
  <2>2. <<k.pool.prefixes[key], o>> \in Readable(k, b)
    BY ReadableIff
  <2> QED BY <1>1, <2>1, <2>2
<1>5. RestUnwritten(k, c, b)
  BY <1>1 DEF RestUnwritten
<1> QED BY <1>2, <1>3, <1>4, <1>5 DEF SlotsOK

\* Between forwards every request has just its committed tokens.
LEMMA EmptyBatch ==
  ASSUME NEW k
  PROVE  BatchOK(k, <<>>) /\ \A r : Current(k, <<>>, r) = k.states[r].tokens
<1>1. Len(<<>>) = 0 /\ \A i \in 1 .. Len(<<>>) : FALSE
  OBVIOUS
<1> QED BY <1>1 DEF BatchOK, Current, Batched, InBatch

\* The parts of the invariant that a step must establish; the rest is what
\* StoreBecomes does.
LEMMA NextState ==
  ASSUME TablesOK(kv', Tokens, Salts), Live(kv') \subseteq Requests,
         batch' \in Seq(Items), BatchOK(kv', batch'),
         NEW store, StoreBecomes(store),
         SlotsOK(kv', store, batch'), PrefixesOK(kv', store)
  PROVE  IInv'
<1>1. content' = Cleaned(kv', batch', store)
  BY DEF StoreBecomes, Cleaned
<1>2. /\ Tensors(content') /\ SlotsOK(kv', content', batch') /\ PrefixesOK(kv', content')
      /\ RestUnwritten(kv', content', batch')
  BY <1>1, CleanedOK
<1> QED BY <1>2 DEF IInv

\* A table that has the same blocks where the tokens are reads the same.
LEMMA ReadsMoved ==
  ASSUME NEW s, NEW t, NEW tokens \in Seq(Tokens), NEW c, ReadsBack(s, tokens, c),
         \A i \in 1 .. CeilDiv(Len(tokens)) : t.blocks[i] = s.blocks[i]
  PROVE  ReadsBack(t, tokens, c)
<1> SUFFICES ASSUME NEW m \in Storages, NEW pos \in 0 .. Len(tokens) - 1
             PROVE  SlotBlock(t, pos) = SlotBlock(s, pos)
  BY DEF ReadsBack
<1> DEFINE i == pos \div BlockSize + 1
<1>1. pos \in Nat /\ Len(tokens) \in Nat /\ pos < Len(tokens)
  OBVIOUS
<1>2. i \in Nat \ {0} /\ End(i - 1) <= pos /\ End(i - 1) \in Nat
  BY <1>1, PositionFacts
<1>3. CeilDiv(Len(tokens)) \in Nat /\ \A j \in Nat \ {0} : End(j - 1) < Len(tokens) => j <= CeilDiv(Len(tokens))
  BY <1>1, CeilDivFacts
<1>4. t.blocks[i] = s.blocks[i]
  <2>1. End(i - 1) < Len(tokens)
    BY <1>1, <1>2
  <2> HIDE DEF i
  <2> QED BY <1>2, <1>3, <2>1
<1> QED BY <1>4 DEF SlotBlock

\* The committed tokens begin the current ones.
LEMMA CurrentBegins ==
  ASSUME NEW k, TablesOK(k, Tokens, Salts), NEW b, BatchOK(k, b), NEW r \in Live(k)
  PROVE  /\ Current(k, b, r) \in Seq(Tokens) /\ k.states[r].tokens \in Seq(Tokens)
         /\ Begins(k.states[r].tokens, Current(k, b, r))
<1> DEFINE state == k.states[r]
           tokens == Current(k, b, r)
<1>1. state = k.states[r] /\ tokens = Current(k, b, r) /\ state.tokens \in Seq(Tokens)
  BY DEF TablesOK, StatesOK, StateType
<1> HIDE DEF state, tokens
<1>2. tokens \in Seq(Tokens) /\ Begins(state.tokens, tokens)
  BY <1>1, CurrentFacts
<1> QED BY <1>1, <1>2

\* The beginning of what is read back is read back.
LEMMA ReadsFewer ==
  ASSUME NEW s, NEW tokens \in Seq(Tokens), NEW c, ReadsBack(s, tokens, c),
         NEW fewer \in Seq(Tokens), Begins(fewer, tokens)
  PROVE  ReadsBack(s, fewer, c)
<1> SUFFICES ASSUME NEW m \in Storages, NEW pos \in 0 .. Len(fewer) - 1
             PROVE  c[m][SlotBlock(s, pos)][pos % BlockSize] = SubSeq(fewer, 1, pos + 1)
  BY DEF ReadsBack
<1>1. pos \in 0 .. Len(tokens) - 1 /\ pos + 1 \in 0 .. Len(fewer)
  BY DEF Begins
<1> QED BY <1>1 DEF ReadsBack, Begins

\* The slots of block x hold the same in every storage.
SameSlots(store, c, x) ==
  \A m \in Storages, o \in 0 .. BlockSize - 1 : store[m][x][o] = c[m][x][o]

\* What is published stays right while nothing is written to published blocks.
LEMMA PrefixesStay ==
  ASSUME NEW k, TablesOK(k, Tokens, Salts), NEW q, TablesOK(q, Tokens, Salts),
         NEW c, PrefixesOK(k, c), NEW store,
         \A x \in Blocks : q.pool.keys[x] # NoKey =>
           q.pool.keys[x] = k.pool.keys[x] /\ SameSlots(store, c, x)
  PROVE  PrefixesOK(q, store)
<1>1. /\ NoKey \notin Salts \X Seq(Tokens) /\ IndexOK(k.pool) /\ IndexOK(q.pool)
      /\ DOMAIN q.pool.prefixes \subseteq Salts \X Seq(Tokens)
      /\ q.pool.prefixes \in [DOMAIN q.pool.prefixes -> Blocks]
  BY DEF TablesOK, PoolOK, PoolType
<1> SUFFICES ASSUME NEW key \in DOMAIN q.pool.prefixes, NEW m \in Storages,
                    NEW o \in 0 .. BlockSize - 1
             PROVE  store[m][q.pool.prefixes[key]][o] = Held(key, o)
  BY DEF PrefixesOK
<1> DEFINE x == q.pool.prefixes[key]
<1>2. x \in Blocks /\ q.pool.keys[x] = key /\ key # NoKey
  BY <1>1 DEF IndexOK
<1> HIDE DEF x
<1>3. k.pool.keys[x] = key /\ store[m][x][o] = c[m][x][o]
  BY <1>2 DEF SameSlots
<1>4. key \in DOMAIN k.pool.prefixes /\ k.pool.prefixes[key] = x
  BY <1>1, <1>2, <1>3 DEF IndexOK
<1>5. c[m][x][o] = Held(key, o)
  BY <1>4 DEF PrefixesOK
<1> QED BY <1>3, <1>5 DEF x

\* What a published block holds, said of positions.
LEMMA KeyAtPosition ==
  ASSUME NEW tokens \in Seq(Tokens), NEW salt \in Salts, NEW i \in Nat \ {0}, End(i) <= Len(tokens),
         NEW key, key = PrefixKey(salt, tokens, i), NEW o \in 0 .. BlockSize - 1
  PROVE  /\ End(i - 1) + o \in 0 .. Len(tokens) - 1
         /\ (End(i - 1) + o) \div BlockSize + 1 = i
         /\ (End(i - 1) + o) % BlockSize = o
         /\ Held(key, o) = SubSeq(tokens, 1, End(i - 1) + o + 1)
<1>1. i \in Nat /\ i - 1 \in Nat /\ (i - 1) + 1 = i
  OBVIOUS
<1>2. /\ End(i) \in Nat /\ End(i - 1) \in Nat /\ End(i) = End(i - 1) + BlockSize
      /\ BlockSize \in Nat \ {0}
  BY <1>1, EndFacts
<1>3. (End(i - 1) + o) \div BlockSize = i - 1 /\ (End(i - 1) + o) % BlockSize = o
  BY <1>1, SlotIsUnique
<1>4. End(i) \in 0 .. Len(tokens)
  BY <1>2
<1>5. key[2] = SubSeq(tokens, 1, End(i)) /\ Len(key[2]) = End(i)
  <2>1. key[2] = SubSeq(tokens, 1, End(i))
    BY DEF PrefixKey, End
  <2>2. Len(SubSeq(tokens, 1, End(i))) = End(i)
    BY <1>4, PrefixFacts
  <2> QED BY <2>1, <2>2
<1>6. Len(key[2]) - BlockSize + o + 1 = End(i - 1) + o + 1 /\ End(i - 1) + o + 1 \in 0 .. End(i)
  <2> DEFINE n == Len(key[2])
             e == End(i)
             f == End(i - 1)
  <2>1. n = e /\ e \in Nat /\ f \in Nat /\ e = f + BlockSize /\ BlockSize \in Nat \ {0}
    BY <1>2, <1>5
  <2> HIDE DEF n, e, f
  <2>2. n - BlockSize + o + 1 = f + o + 1 /\ f + o + 1 \in 0 .. e
    BY <2>1
  <2> QED BY <2>2 DEF n, e, f
<1>7. SubSeq(SubSeq(tokens, 1, End(i)), 1, End(i - 1) + o + 1) = SubSeq(tokens, 1, End(i - 1) + o + 1)
  BY <1>4, <1>6, PrefixOfPrefix
<1>8. End(i - 1) + o \in 0 .. Len(tokens) - 1
  BY <1>2
<1>9. Held(key, o) = SubSeq(tokens, 1, End(i - 1) + o + 1)
  BY ONLY <1>5, <1>6, <1>7 DEF Held
<1> QED BY <1>1, <1>3, <1>8, <1>9

\* Copying a block changes that block of the copied models only.
LEMMA CopyFacts ==
  ASSUME NEW c, Tensors(c), NEW models, NEW old \in Blocks, NEW new \in Blocks,
         NEW m \in Storages, NEW x \in Blocks
  PROVE  CopyBlock(c, models, old, new)[m][x] = IF m \in models /\ x = new THEN c[m][old] ELSE c[m][x]
<1>1. c[m] = [y \in Blocks |-> [o \in 0 .. BlockSize - 1 |-> c[m][y][o]]]
  BY DEF Tensors
<1>2. DOMAIN c[m] = Blocks
  BY <1>1
<1> QED BY <1>2 DEF CopyBlock

-----------------------------------------------------------------------------
(* Steps between forwards.                                                  *)

\* Between forwards the slots of the committed tokens read back.
LEMMA IdleReads ==
  ASSUME IInv, Idle
  PROVE  \A r \in Live(kv) : ReadsBack(kv.states[r], kv.states[r].tokens, content)
  BY EmptyBatch DEF IInv, SlotsOK, Idle

\* The invariant after a step between forwards.
LEMMA IdleState ==
  ASSUME Idle, UNCHANGED batch, TablesOK(kv', Tokens, Salts), Live(kv') \subseteq Requests,
         NEW store, StoreBecomes(store),
         \A r \in Live(kv') : ReadsBack(kv'.states[r], kv'.states[r].tokens, store),
         PrefixesOK(kv', store)
  PROVE  IInv'
<1>1. batch' = <<>> /\ batch' \in Seq(Items)
  BY DEF Idle
<1>2. BatchOK(kv', batch') /\ \A r : Current(kv', batch', r) = kv'.states[r].tokens
  BY <1>1, EmptyBatch
<1>3. SlotsOK(kv', store, batch')
  BY <1>2 DEF SlotsOK
<1> QED BY <1>1, <1>2, <1>3, NextState

\* A hit reads the keys and values of the request's own tokens.
LEMMA HitsRead ==
  ASSUME IInv, NEW tokens \in Seq(Tokens), NEW salt \in Salts, NEW n \in Nat, End(n) < Len(tokens),
         NEW t, t.tokens = SubSeq(tokens, 1, End(n)),
         \A i \in 1 .. n : /\ PrefixKey(salt, tokens, i) \in DOMAIN kv.pool.prefixes
                           /\ t.blocks[i] = kv.pool.prefixes[PrefixKey(salt, tokens, i)]
  PROVE  ReadsBack(t, t.tokens, content)
<1>1. End(n) \in Nat /\ End(n) \in 0 .. Len(tokens)
  BY EndFacts
<1>2. Len(t.tokens) = End(n)
  BY <1>1, PrefixFacts
<1> SUFFICES ASSUME NEW m \in Storages, NEW pos \in 0 .. End(n) - 1
             PROVE  content[m][SlotBlock(t, pos)][pos % BlockSize] = SubSeq(t.tokens, 1, pos + 1)
  BY <1>2 DEF ReadsBack
<1> DEFINE i == pos \div BlockSize + 1
           o == pos % BlockSize
           key == PrefixKey(salt, tokens, i)
<1>3. pos \in Nat /\ pos < End(n)
  BY <1>1
<1>4. /\ i \in Nat \ {0} /\ o \in 0 .. BlockSize - 1 /\ pos = End(i - 1) + o
      /\ End(i) \in Nat /\ End(i - 1) \in Nat /\ End(i) = End(i - 1) + BlockSize
  BY <1>3, PositionFacts
<1>5. i \in 1 .. n
  BY <1>3, PositionInTable
<1>6. key \in DOMAIN kv.pool.prefixes /\ SlotBlock(t, pos) = kv.pool.prefixes[key]
  BY <1>5 DEF SlotBlock
<1>7. content[m][kv.pool.prefixes[key]][o] = Held(key, o)
  <2> HIDE DEF o, key
  <2> QED BY <1>4, <1>6 DEF IInv, PrefixesOK
<1>8. End(i) <= Len(tokens)
  <2>1. i <= n
    BY <1>5
  <2>2. End(i) <= End(n)
    <3> HIDE DEF i
    <3> QED BY <1>4, <2>1, EndFacts
  <2> QED BY <1>1, <1>4, <2>2
<1>9. Held(key, o) = SubSeq(tokens, 1, pos + 1)
  <2>1. key = PrefixKey(salt, tokens, i)
    OBVIOUS
  <2> HIDE DEF i, o, key
  <2>2. Held(key, o) = SubSeq(tokens, 1, End(i - 1) + o + 1)
    BY <1>4, <1>8, <2>1, KeyAtPosition
  <2> QED BY <1>4, <2>2
<1>10. SubSeq(t.tokens, 1, pos + 1) = SubSeq(tokens, 1, pos + 1)
  <2>1. pos + 1 \in 0 .. End(n)
    BY <1>1, <1>3
  <2> QED BY <1>1, <2>1, PrefixOfPrefix
<1> QED BY <1>6, <1>7, <1>9, <1>10

\* Attach preserves the invariant: a hit is a block that holds the prompt's prefix.
LEMMA AttachStep ==
  ASSUME IInv, NEW r \in Requests, NEW tokens \in Prompts, NEW salt \in Salts, Attach(r, tokens, salt)
  PROVE  IInv'
<1>1. TablesOK(kv, Tokens, Salts) /\ Live(kv) \subseteq Requests /\ PrefixesOK(kv, content)
  BY DEF IInv
<1>2. r \notin Live(kv) /\ kv' = Attached(kv, r, tokens, salt) /\ tokens \in Seq(Tokens) /\ tokens # <<>>
  BY PromptsAssumption DEF Attach
<1> DEFINE n == HitBlocks(kv, tokens, salt)
<1>3. /\ TablesOK(kv', Tokens, Salts)
      /\ n \in Nat /\ End(n) < Len(tokens)
      /\ Live(kv') = Live(kv) \cup {r}
      /\ \A s \in Live(kv) : kv'.states[s] = kv.states[s]
      /\ kv'.states[r].tokens = SubSeq(tokens, 1, End(n))
      /\ \A i \in 1 .. n :
           /\ PrefixKey(salt, tokens, i) \in DOMAIN kv.pool.prefixes
           /\ kv'.states[r].blocks[i] = kv.pool.prefixes[PrefixKey(salt, tokens, i)]
      /\ kv'.pool.keys = kv.pool.keys /\ kv'.pool.prefixes = kv.pool.prefixes
  BY <1>1, <1>2, AttachedOK
<1> HIDE DEF n
<1>4. ReadsBack(kv'.states[r], kv'.states[r].tokens, content)
  BY <1>2, <1>3, HitsRead
<1>5. \A s \in Live(kv') : ReadsBack(kv'.states[s], kv'.states[s].tokens, content)
  BY <1>3, <1>4, IdleReads DEF Attach
<1>6. PrefixesOK(kv', content)
  BY <1>1, <1>3 DEF PrefixesOK
<1> QED BY <1>1, <1>3, <1>5, <1>6, IdleState DEF Attach

\* Steps that leave the index and the blocks that hold tokens as they are.
LEMMA SameReads ==
  ASSUME IInv, Idle, UNCHANGED batch, TablesOK(kv', Tokens, Salts), Live(kv') \subseteq Requests,
         StoreBecomes(content), kv'.pool.prefixes = kv.pool.prefixes,
         \A t \in Live(kv') : \E s \in Live(kv) :
           kv'.states[t] = kv.states[s] \/ SameTokens(kv'.states[t], kv.states[s])
  PROVE  IInv'
<1>1. \A t \in Live(kv') : ReadsBack(kv'.states[t], kv'.states[t].tokens, content)
  <2> SUFFICES ASSUME NEW t \in Live(kv')
               PROVE  ReadsBack(kv'.states[t], kv'.states[t].tokens, content)
    OBVIOUS
  <2>1. PICK s \in Live(kv) : kv'.states[t] = kv.states[s] \/ SameTokens(kv'.states[t], kv.states[s])
    OBVIOUS
  <2>2. ReadsBack(kv.states[s], kv.states[s].tokens, content) /\ kv.states[s].tokens \in Seq(Tokens)
    BY IdleReads DEF IInv, TablesOK, StatesOK, StateType
  <2> QED BY <2>1, <2>2, ReadsMoved DEF SameTokens
<1>2. PrefixesOK(kv', content)
  BY DEF IInv, PrefixesOK
<1> QED BY <1>1, <1>2, IdleState

\* Fork preserves the invariant: source and target have the same tokens.
LEMMA ForkStep ==
  ASSUME IInv, NEW source \in Requests, NEW target \in Requests, Fork(source, target)
  PROVE  IInv'
<1>1. TablesOK(kv, Tokens, Salts) /\ Live(kv) \subseteq Requests
  BY DEF IInv
<1>2. source \in Live(kv) /\ target \notin Live(kv) /\ kv' = Forked(kv, source, target)
  BY DEF Fork
<1>3. /\ TablesOK(kv', Tokens, Salts)
      /\ Live(kv') = Live(kv) \cup {target}
      /\ \A s \in Live(kv) : kv'.states[s] = kv.states[s]
      /\ SameTokens(kv'.states[target], kv.states[source])
      /\ kv'.pool.prefixes = kv.pool.prefixes
  BY <1>1, <1>2, ForkedOK
<1> QED BY <1>1, <1>2, <1>3, SameReads DEF Fork

\* Trim preserves the invariant.
LEMMA TrimStep ==
  ASSUME IInv, NEW r \in Requests, Trim(r)
  PROVE  IInv'
<1>1. TablesOK(kv, Tokens, Salts) /\ Live(kv) \subseteq Requests
  BY DEF IInv
<1>2. r \in Live(kv) /\ kv' = Trimmed(kv, r)
  BY DEF Trim
<1>3. /\ TablesOK(kv', Tokens, Salts)
      /\ Live(kv') = Live(kv)
      /\ \A s \in Live(kv) \ {r} : kv'.states[s] = kv.states[s]
      /\ SameTokens(kv'.states[r], kv.states[r])
      /\ kv'.pool.prefixes = kv.pool.prefixes
  BY <1>1, <1>2, TrimmedOK
<1> QED BY <1>1, <1>2, <1>3, SameReads DEF Trim

\* Release preserves the invariant.
LEMMA ReleaseStep ==
  ASSUME IInv, NEW r \in Requests, Release(r)
  PROVE  IInv'
<1>1. TablesOK(kv, Tokens, Salts) /\ Live(kv) \subseteq Requests
  BY DEF IInv
<1>2. r \in Live(kv) /\ kv' = ReleasedRequest(kv, r)
  BY DEF Release
<1>3. /\ TablesOK(kv', Tokens, Salts)
      /\ kv'.states = WithoutState(kv, r)
      /\ kv'.pool.prefixes = kv.pool.prefixes
  BY <1>1, <1>2, ReleasedRequestOK
<1>4. Live(kv') \subseteq Live(kv) /\ \A s \in Live(kv') : kv'.states[s] = kv.states[s]
  BY <1>3 DEF WithoutState, Live
<1> QED BY <1>1, <1>3, <1>4, SameReads DEF Release

\* Clearing the prefix index preserves the invariant.
LEMMA ClearStep ==
  ASSUME IInv, ClearPrefixCache
  PROVE  IInv'
<1>1. TablesOK(kv, Tokens, Salts) /\ Live(kv) \subseteq Requests
  BY DEF IInv
<1>2. kv' = [kv EXCEPT !.pool = Cleared(kv.pool)]
  BY DEF ClearPrefixCache
<1>3. TablesOK(kv', Tokens, Salts)
  BY <1>1, <1>2, ClearedTablesOK
<1>4. kv'.states = kv.states /\ kv'.pool = Cleared(kv.pool)
  <2>1. kv = [pool |-> kv.pool, states |-> kv.states]
    BY <1>1 DEF TablesOK, StatesOK
  <2> QED BY <1>2, <2>1
<1>5. PrefixesOK(kv', content)
  BY <1>4 DEF PrefixesOK, Cleared, EmptyIndex
<1> QED BY <1>1, <1>3, <1>4, <1>5, IdleReads, IdleState DEF ClearPrefixCache, Live

-----------------------------------------------------------------------------
(* Reservations.                                                            *)

\* The copy of a shared tail goes to a block nobody uses.
LEMMA CopiedTail ==
  ASSUME NEW k, TablesOK(k, Tokens, Salts), NEW r \in Live(k), NEW end \in Nat,
         CanReserve(k, r, end), CopyTail(k, r, end)
  PROVE  /\ TailIndex(k, r) \in 1 .. Len(k.states[r].blocks)
         /\ k.states[r].blocks[TailIndex(k, r)] \in Blocks
         /\ Head(Fresh(k, r, end)) \in Blocks
         /\ k.pool.refCounts[Head(Fresh(k, r, end))] = 0
<1>1. TailIndex(k, r) \in 1 .. Len(k.states[r].blocks)
  BY TailFacts DEF CopyTail
<1>2. k.states[r].blocks \in Seq(Blocks)
  BY DEF TablesOK, StatesOK, StateType
<1>3. Head(Fresh(k, r, end)) \in Blocks /\ k.pool.refCounts[Head(Fresh(k, r, end))] = 0
  BY UndoneOK
<1> QED BY <1>1, <1>2, <1>3

\* A table reads the same from tensors that differ in blocks it does not list.
LEMMA ReadsKept ==
  ASSUME NEW k, TablesOK(k, Tokens, Salts), NEW b, BatchOK(k, b), NEW s \in Live(k),
         NEW c, ReadsBack(k.states[s], Current(k, b, s), c), NEW store,
         \A x \in Blocks : Listed(k.states[s].blocks, x) => SameSlots(store, c, x)
  PROVE  ReadsBack(k.states[s], Current(k, b, s), store)
<1> DEFINE state == k.states[s]
           tokens == Current(k, b, s)
<1> SUFFICES ASSUME NEW m \in Storages, NEW pos \in 0 .. Len(tokens) - 1
             PROVE  store[m][SlotBlock(state, pos)][pos % BlockSize]
                      = c[m][SlotBlock(state, pos)][pos % BlockSize]
  BY DEF ReadsBack
<1>1. /\ SlotBlock(state, pos) \in Blocks /\ Listed(state.blocks, SlotBlock(state, pos))
      /\ pos % BlockSize \in 0 .. BlockSize - 1
  BY CurrentFacts
<1> QED BY <1>1 DEF SameSlots

\* After a reservation, with its copy made, every request reads back its tokens
\* and only blocks that were free have changed.
LEMMA AfterReserveOK ==
  ASSUME IInv, NEW r \in Live(kv), ~InBatch(batch, r), NEW end \in Nat, CanReserve(kv, r, end),
         NEW q, q = Reserved(kv, r, end), NEW store, store = AfterReserve(r, end)
  PROVE  /\ TablesOK(q, Tokens, Salts) /\ Live(q) = Live(kv)
         /\ BatchOK(q, batch) /\ PrefixesOK(q, store)
         /\ \A s \in Live(kv) : /\ Current(q, batch, s) = Current(kv, batch, s)
                                /\ ReadsBack(q.states[s], Current(q, batch, s), store)
         /\ \A x \in Blocks : q.pool.keys[x] # NoKey => SameSlots(store, content, x)
         /\ \A s \in Live(kv) \ {r}, x \in Blocks :
              Listed(kv.states[s].blocks, x) => SameSlots(store, content, x)
<1>1. /\ TablesOK(kv, Tokens, Salts) /\ BatchOK(kv, batch) /\ Tensors(content)
      /\ SlotsOK(kv, content, batch) /\ PrefixesOK(kv, content)
  BY DEF IInv
<1> DEFINE old == kv.states[r].blocks[TailIndex(kv, r)]
           new == Head(Fresh(kv, r, end))
           copied == CopyTail(kv, r, end)
<1>2. /\ TablesOK(q, Tokens, Salts) /\ Live(q) = Live(kv)
      /\ \A s \in Live(kv) \ {r} : q.states[s] = kv.states[s]
      /\ q.states[r].tokens = kv.states[r].tokens
      /\ Len(kv.states[r].blocks) <= Len(q.states[r].blocks)
      /\ \A i \in 1 .. Len(kv.states[r].blocks) :
           IF copied /\ i = TailIndex(kv, r)
           THEN q.states[r].blocks[i] = new ELSE q.states[r].blocks[i] = kv.states[r].blocks[i]
      /\ \A b \in Blocks : q.pool.keys[b] # NoKey => q.pool.keys[b] = kv.pool.keys[b]
      /\ copied => q.pool.keys[new] = NoKey
      /\ \A s \in Live(kv) \ {r}, n \in Nat : Own(kv, s, n) => Own(q, s, n)
  BY <1>1, ReservedOK
<1>3. copied => old \in Blocks /\ new \in Blocks /\ kv.pool.refCounts[new] = 0
  BY <1>1, CopiedTail
<1>4. \A m \in Storages, x \in Blocks :
        store[m][x] = IF copied /\ x = new THEN content[m][old] ELSE content[m][x]
  BY <1>1, <1>3, CopyFacts DEF AfterReserve
<1>5. copied => \A s \in Live(kv) : ~Listed(kv.states[s].blocks, new)
  BY <1>1, <1>3, CountedIsUsed
<1> HIDE DEF old, new, copied
<1>6. BatchOK(q, batch)
  <2>1. ASSUME NEW i \in 1 .. Len(batch)
        PROVE  /\ batch[i].rid \in Live(q) /\ batch[i].tokens \in Seq(Tokens)
               /\ Own(q, batch[i].rid, Len(batch[i].tokens))
    <3>1. /\ batch[i].rid \in Live(kv) /\ batch[i].tokens \in Seq(Tokens)
          /\ Own(kv, batch[i].rid, Len(batch[i].tokens))
      BY <1>1 DEF BatchOK
    <3>2. batch[i].rid # r /\ Len(batch[i].tokens) \in Nat
      BY <3>1 DEF InBatch
    <3> QED BY <1>2, <3>1, <3>2
  <2> QED BY <1>1, <2>1 DEF BatchOK
<1>7. \A s \in Live(kv) : Current(q, batch, s) = Current(kv, batch, s)
  <2>1. \A s \in Live(kv) : q.states[s].tokens = kv.states[s].tokens
    BY <1>2
  <2> QED BY <2>1 DEF Current
<1>8. ASSUME NEW s \in Live(kv) PROVE ReadsBack(q.states[s], Current(kv, batch, s), store)
  <2>1. ReadsBack(kv.states[s], Current(kv, batch, s), content)
    BY <1>1 DEF SlotsOK
  <2>2. CASE s # r
    <3>1. \A x \in Blocks : Listed(kv.states[s].blocks, x) => SameSlots(store, content, x)
      BY <1>4, <1>5 DEF SameSlots
    <3>2. ReadsBack(kv.states[s], Current(kv, batch, s), store)
      BY <1>1, <2>1, <3>1, ReadsKept
    <3> QED BY <1>2, <2>2, <3>2
  <2>3. CASE s = r
    <3> DEFINE state == kv.states[r]
               tokens == Current(kv, batch, r)
    <3> SUFFICES ASSUME NEW m \in Storages, NEW pos \in 0 .. Len(tokens) - 1
                 PROVE  store[m][SlotBlock(q.states[r], pos)] = content[m][SlotBlock(state, pos)]
      BY <2>1, <2>3 DEF ReadsBack
    <3> DEFINE i == pos \div BlockSize + 1
    <3>1. /\ i \in 1 .. Len(state.blocks) /\ SlotBlock(state, pos) \in Blocks
          /\ Listed(state.blocks, SlotBlock(state, pos))
      BY <1>1, CurrentFacts
    <3>2. SlotBlock(q.states[r], pos) = q.states[r].blocks[i] /\ SlotBlock(state, pos) = state.blocks[i]
      BY DEF SlotBlock
    <3> HIDE DEF i, tokens
    <3>3. CASE copied /\ i = TailIndex(kv, r)
      <4>1. SlotBlock(q.states[r], pos) = new /\ SlotBlock(state, pos) = old
        BY <1>2, <3>1, <3>2, <3>3 DEF old
      <4> QED BY <1>3, <1>4, <3>3, <4>1
    <3>4. CASE ~(copied /\ i = TailIndex(kv, r))
      <4>1. SlotBlock(q.states[r], pos) = SlotBlock(state, pos)
        BY <1>2, <3>1, <3>2, <3>4
      <4>2. copied => SlotBlock(state, pos) # new
        BY <1>5, <3>1
      <4> QED BY <1>4, <3>1, <4>1, <4>2
    <3> QED BY <3>3, <3>4
  <2> QED BY <2>2, <2>3
<1>9. \A x \in Blocks : q.pool.keys[x] # NoKey =>
        q.pool.keys[x] = kv.pool.keys[x] /\ SameSlots(store, content, x)
  BY <1>2, <1>4 DEF SameSlots
<1>10. PrefixesOK(q, store)
  BY <1>1, <1>2, <1>9, PrefixesStay
<1>11. \A s \in Live(kv) \ {r}, x \in Blocks :
         Listed(kv.states[s].blocks, x) => SameSlots(store, content, x)
  BY <1>4, <1>5 DEF SameSlots
<1> QED BY <1>2, <1>6, <1>7, <1>8, <1>9, <1>10, <1>11

\* Reserve preserves the invariant.
LEMMA ReserveStep ==
  ASSUME IInv, NEW r \in Requests, NEW end \in 1 .. MaxModelLen, Reserve(r, end)
  PROVE  IInv'
<1>1. /\ Idle /\ UNCHANGED batch /\ r \in Live(kv) /\ CanReserve(kv, r, end)
      /\ kv' = Reserved(kv, r, end) /\ StoreBecomes(AfterReserve(r, end))
  BY DEF Reserve
<1>2. end \in Nat /\ ~InBatch(batch, r) /\ Live(kv) \subseteq Requests
  BY <1>1, PoolFitsContext DEF Idle, InBatch, IInv
<1>3. /\ TablesOK(kv', Tokens, Salts) /\ Live(kv') = Live(kv)
      /\ PrefixesOK(kv', AfterReserve(r, end))
      /\ \A s \in Live(kv) : ReadsBack(kv'.states[s], Current(kv', batch, s), AfterReserve(r, end))
  BY <1>1, <1>2, AfterReserveOK
<1>4. \A s : Current(kv', batch, s) = kv'.states[s].tokens
  BY <1>1, EmptyBatch DEF Idle
<1> QED BY <1>1, <1>2, <1>3, <1>4, IdleState

\* A reservation whose copy raised, having copied some models, preserves the invariant.
LEMMA ReserveRaisesStep ==
  ASSUME IInv, NEW r \in Requests, NEW end \in 1 .. MaxModelLen, NEW done \in SUBSET Storages,
         ReserveRaises(r, end, done)
  PROVE  IInv'
<1> DEFINE old == kv.states[r].blocks[TailIndex(kv, r)]
           new == Head(Fresh(kv, r, end))
           store == CopyBlock(content, done, old, new)
<1>1. /\ Idle /\ UNCHANGED batch /\ r \in Live(kv) /\ CanReserve(kv, r, end) /\ CopyTail(kv, r, end)
      /\ kv' = ReservationUndone(kv, r, end) /\ StoreBecomes(store)
  BY DEF ReserveRaises
<1>2. /\ end \in Nat /\ Live(kv) \subseteq Requests /\ TablesOK(kv, Tokens, Salts)
      /\ Tensors(content) /\ BatchOK(kv, <<>>) /\ PrefixesOK(kv, content)
  BY <1>1, PoolFitsContext DEF IInv, Idle
<1>3. /\ TablesOK(kv', Tokens, Salts) /\ kv'.states = kv.states
      /\ \A b \in Blocks : kv'.pool.keys[b] # NoKey => kv'.pool.keys[b] = kv.pool.keys[b]
      /\ kv'.pool.keys[new] = NoKey
  BY <1>1, <1>2, UndoneOK
<1>4. old \in Blocks /\ new \in Blocks /\ kv.pool.refCounts[new] = 0
  BY <1>1, <1>2, CopiedTail
<1> HIDE DEF old, new
<1>5. /\ \A s \in Live(kv) : ~Listed(kv.states[s].blocks, new)
      /\ \A m \in Storages, x \in Blocks : x # new => store[m][x] = content[m][x]
  BY <1>2, <1>4, CountedIsUsed, CopyFacts
<1> HIDE DEF store
<1>6. ASSUME NEW s \in Live(kv) PROVE ReadsBack(kv.states[s], kv.states[s].tokens, store)
  <2>1. ReadsBack(kv.states[s], kv.states[s].tokens, content)
    BY <1>1, IdleReads
  <2>2. Current(kv, <<>>, s) = kv.states[s].tokens
    BY EmptyBatch
  <2>3. \A x \in Blocks : Listed(kv.states[s].blocks, x) => SameSlots(store, content, x)
    BY <1>5 DEF SameSlots
  <2> QED BY <1>2, <2>1, <2>2, <2>3, ReadsKept
<1>7. PrefixesOK(kv', store)
  <2>1. \A x \in Blocks : kv'.pool.keys[x] # NoKey =>
          kv'.pool.keys[x] = kv.pool.keys[x] /\ SameSlots(store, content, x)
    BY <1>3, <1>5 DEF SameSlots
  <2> QED BY <1>2, <1>3, <2>1, PrefixesStay
<1> QED BY <1>1, <1>2, <1>3, <1>6, <1>7, IdleState DEF Live

-----------------------------------------------------------------------------
(* The forward.                                                             *)

\* Two positions of a table have different slots.
LEMMA SlotsDistinct ==
  ASSUME NEW state, DistinctList(state.blocks), Len(state.blocks) \in Nat,
         NEW p \in Nat, p < End(Len(state.blocks)), NEW q \in Nat, q < End(Len(state.blocks)),
         SlotBlock(state, p) = SlotBlock(state, q), p % BlockSize = q % BlockSize
  PROVE  p = q
<1> DEFINE i == p \div BlockSize + 1
           j == q \div BlockSize + 1
<1>1. i \in 1 .. Len(state.blocks) /\ j \in 1 .. Len(state.blocks)
  BY PositionInTable
<1>2. i = j
  BY <1>1 DEF SlotBlock, DistinctList
<1>3. p = End(i - 1) + (p % BlockSize) /\ q = End(j - 1) + (q % BlockSize)
  BY PositionFacts
<1> QED BY ONLY <1>2, <1>3, p % BlockSize = q % BlockSize

\* store is c after a forward of the tokens new for the table state: the slots
\* of their positions hold their prefixes, the others what they held.
Wrote(store, c, state, new) ==
  \A m \in Storages :
    /\ \A x \in Blocks, o \in 0 .. BlockSize - 1 :
         \/ store[m][x][o] = c[m][x][o]
         \/ \E pos \in Len(state.tokens) .. Len(state.tokens) + Len(new) - 1 :
              x = SlotBlock(state, pos) /\ o = pos % BlockSize
    /\ \A pos \in 0 .. Len(state.tokens) + Len(new) - 1 :
         store[m][SlotBlock(state, pos)][pos % BlockSize]
           = IF pos < Len(state.tokens) THEN c[m][SlotBlock(state, pos)][pos % BlockSize]
             ELSE SubSeq(state.tokens \o new, 1, pos + 1)

\* What a forward writes: the new tokens, each in the slot of its position, and
\* nothing else.
LEMMA WrittenFacts ==
  ASSUME NEW state, DistinctList(state.blocks), Len(state.blocks) \in Nat,
         state.tokens \in Seq(Tokens), NEW new \in Seq(Tokens),
         Len(state.tokens) + Len(new) <= End(Len(state.blocks)),
         \A pos \in 0 .. Len(state.tokens) + Len(new) - 1 : SlotBlock(state, pos) \in Blocks,
         NEW c, NEW store, store = WriteTokens(c, state, new)
  PROVE  Wrote(store, c, state, new)
<1> SUFFICES ASSUME NEW m \in Storages
             PROVE
    /\ \A x \in Blocks, o \in 0 .. BlockSize - 1 :
         \/ store[m][x][o] = c[m][x][o]
         \/ \E pos \in Len(state.tokens) .. Len(state.tokens) + Len(new) - 1 :
              x = SlotBlock(state, pos) /\ o = pos % BlockSize
    /\ \A pos \in 0 .. Len(state.tokens) + Len(new) - 1 :
         store[m][SlotBlock(state, pos)][pos % BlockSize]
           = IF pos < Len(state.tokens) THEN c[m][SlotBlock(state, pos)][pos % BlockSize]
             ELSE SubSeq(state.tokens \o new, 1, pos + 1)
  BY DEF Wrote
<1> DEFINE all == state.tokens \o new
           written == Len(state.tokens) .. Len(all) - 1
           at(b, o) == {pos \in written : SlotBlock(state, pos) = b /\ pos % BlockSize = o}
<1>1. Len(state.tokens) \in Nat /\ Len(new) \in Nat /\ Len(all) = Len(state.tokens) + Len(new)
  OBVIOUS
<1>2. \A x \in Blocks, o \in 0 .. BlockSize - 1 :
        store[m][x][o] = IF at(x, o) = {} THEN c[m][x][o]
                         ELSE SubSeq(all, 1, (CHOOSE pos \in at(x, o) : TRUE) + 1)
  BY DEF WriteTokens
<1>3. ASSUME NEW x \in Blocks, NEW o \in 0 .. BlockSize - 1, store[m][x][o] # c[m][x][o]
      PROVE  \E pos \in Len(state.tokens) .. Len(state.tokens) + Len(new) - 1 :
               x = SlotBlock(state, pos) /\ o = pos % BlockSize
  <2>1. at(x, o) # {}
    BY <1>2, <1>3
  <2> QED BY <1>1, <2>1
<1>4. ASSUME NEW pos \in 0 .. Len(state.tokens) + Len(new) - 1
      PROVE  store[m][SlotBlock(state, pos)][pos % BlockSize]
                = IF pos < Len(state.tokens) THEN c[m][SlotBlock(state, pos)][pos % BlockSize]
                  ELSE SubSeq(all, 1, pos + 1)
  <2> DEFINE x == SlotBlock(state, pos)
             o == pos % BlockSize
  <2>1. x \in Blocks /\ o \in 0 .. BlockSize - 1 /\ pos \in Nat
    <3>1. pos \in Nat
      BY <1>1
    <3> QED BY <3>1, SlotFacts
  <2>2. \A p \in at(x, o) : p = pos
    <3> SUFFICES ASSUME NEW p \in written, SlotBlock(state, p) = x, p % BlockSize = o PROVE p = pos
      OBVIOUS
    <3>1. End(Len(state.blocks)) \in Nat
      BY EndFacts
    <3>2. /\ p \in Nat /\ p < End(Len(state.blocks))
          /\ pos < End(Len(state.blocks))
      BY <1>1, <2>1, <3>1
    <3> QED BY <2>1, <3>2, SlotsDistinct
  <2>3. CASE pos < Len(state.tokens)
    <3>1. at(x, o) = {}
      BY <1>1, <2>2, <2>3
    <3> HIDE DEF x, o, at
    <3>2. store[m][x][o] = c[m][x][o]
      BY <1>2, <2>1, <3>1
    <3> QED BY <2>3, <3>2 DEF x, o
  <2>4. CASE ~(pos < Len(state.tokens))
    <3>1. pos \in at(x, o)
      BY <1>1, <2>1, <2>4
    <3>2. (CHOOSE p \in at(x, o) : TRUE) = pos
      BY <2>2, <3>1
    <3> HIDE DEF x, o, at, all
    <3>3. store[m][x][o] = SubSeq(all, 1, pos + 1)
      BY <1>2, <2>1, <3>1, <3>2
    <3> QED BY <2>4, <3>3 DEF x, o
  <2> QED BY <2>3, <2>4
<1> QED BY <1>3, <1>4

Joined(b, r, new) == Append(b, [rid |-> r, tokens |-> new])

\* One more item in the batch: its request has more tokens, the others have not.
LEMMA CurrentGrows ==
  ASSUME NEW k, TablesOK(k, Tokens, Salts), NEW b, BatchOK(k, b), b \in Seq(Items),
         NEW r \in Live(k), ~InBatch(b, r), NEW new \in Seq(Tokens), Own(k, r, Len(new)),
         NEW c, c = Joined(b, r, new)
  PROVE  /\ BatchOK(k, c)
         /\ Current(k, c, r) = k.states[r].tokens \o new
         /\ \A s \in Live(k) \ {r} : Current(k, c, s) = Current(k, b, s)
<1> DEFINE n == Len(b)
<1>1. /\ n \in Nat /\ Len(c) = n + 1
      /\ \A i \in 1 .. n : c[i] = b[i]
      /\ c[n + 1].rid = r /\ c[n + 1].tokens = new
  BY DEF Joined
<1>2. \A i \in 1 .. n + 1 : i \in 1 .. n \/ i = n + 1
  BY <1>1
<1>3. \A i \in 1 .. n : b[i].rid # r
  BY DEF InBatch
<1> HIDE DEF n
<1>4. BatchOK(k, c)
  <2>1. \A i \in 1 .. n : /\ b[i].rid \in Live(k) /\ b[i].tokens \in Seq(Tokens)
                          /\ Own(k, b[i].rid, Len(b[i].tokens))
    BY DEF BatchOK, n
  <2>2. \A i, j \in 1 .. n : b[i].rid = b[j].rid => i = j
    BY DEF BatchOK, n
  <2>3. \A i \in 1 .. n + 1 : /\ c[i].rid \in Live(k) /\ c[i].tokens \in Seq(Tokens)
                              /\ Own(k, c[i].rid, Len(c[i].tokens))
    BY <1>1, <1>2, <2>1
  <2>4. \A i, j \in 1 .. n + 1 : c[i].rid = c[j].rid => i = j
    BY <1>1, <1>2, <1>3, <2>2
  <2>5. Len(c) \in Nat
    BY <1>1
  <2> QED BY <1>1, <2>3, <2>4, <2>5 DEF BatchOK
<1>5. Current(k, c, r) = Extended(k.states[r].tokens, new)
  <2>1. n + 1 \in 1 .. Len(c) /\ c[n + 1].rid = r
    BY <1>1
  <2> QED BY <1>1, <1>4, <2>1, CurrentInBatch, CurrentOutside
<1>6. ASSUME NEW s \in Live(k) \ {r} PROVE Current(k, c, s) = Current(k, b, s)
  <2>1. CASE InBatch(b, s)
    <3>1. PICK i \in 1 .. n : b[i].rid = s
      BY <2>1 DEF InBatch, n
    <3>2. i \in 1 .. Len(c) /\ c[i].rid = s /\ c[i].tokens = b[i].tokens
      BY <1>1, <3>1
    <3>3. Current(k, c, s) = Extended(k.states[s].tokens, c[i].tokens)
      BY <1>4, <3>2, CurrentInBatch, CurrentOutside
    <3>4. Current(k, b, s) = Extended(k.states[s].tokens, b[i].tokens)
      BY <3>1, CurrentInBatch, CurrentOutside DEF n
    <3> QED BY <3>2, <3>3, <3>4
  <2>2. CASE ~InBatch(b, s)
    <3>1. \A i \in 1 .. n : b[i].rid # s
      BY <2>2 DEF InBatch, n
    <3>2. ~InBatch(c, s)
      BY <1>1, <1>2, <3>1 DEF InBatch
    <3>3. Current(k, c, s) = k.states[s].tokens
      BY <1>4, <3>2, CurrentInBatch, CurrentOutside
    <3>4. Current(k, b, s) = k.states[s].tokens
      BY <2>2, CurrentInBatch, CurrentOutside
    <3> QED BY <3>3, <3>4
  <2> QED BY <2>1, <2>2
<1> QED BY <1>4, <1>5, <1>6 DEF Extended

\* Writing the tokens of r keeps what the others read and what is published.
LEMMA WriteOK ==
  ASSUME NEW k, TablesOK(k, Tokens, Salts), NEW b, BatchOK(k, b),
         NEW r \in Live(k), ~InBatch(b, r), NEW new \in Seq(Tokens), Own(k, r, Len(new)),
         NEW c, SlotsOK(k, c, b), PrefixesOK(k, c),
         NEW store, store = WriteTokens(c, k.states[r], new)
  PROVE  /\ \A s \in Live(k) \ {r} : ReadsBack(k.states[s], Current(k, b, s), store)
         /\ ReadsBack(k.states[r], k.states[r].tokens \o new, store)
         /\ PrefixesOK(k, store)
         /\ \A x \in Blocks : k.pool.keys[x] # NoKey => SameSlots(store, c, x)
         /\ \A x \in Blocks, s \in Live(k) \ {r} :
              Listed(k.states[s].blocks, x) => SameSlots(store, c, x)
<1> DEFINE state == k.states[r]
           known == Len(state.tokens)
           all == state.tokens \o new
<1>1. /\ state.blocks \in Seq(Blocks) /\ state.tokens \in Seq(Tokens)
      /\ TableOK(k.pool.keys, state) /\ DistinctList(state.blocks)
      /\ Len(state.blocks) \in Nat /\ known \in Nat /\ Len(new) \in Nat
  BY DEF TablesOK, StatesOK, StateType, TableOK
<1>2. /\ known + Len(new) <= End(Len(state.blocks)) /\ End(Len(state.blocks)) \in Nat
      /\ \A pos \in known .. known + Len(new) - 1, s \in Live(k) \ {r} :
           ~Listed(k.states[s].blocks, SlotBlock(state, pos))
  BY <1>1, EndFacts DEF Own
<1>3. ASSUME NEW pos \in 0 .. known + Len(new) - 1
      PROVE  /\ pos \in Nat /\ pos \div BlockSize + 1 \in 1 .. Len(state.blocks)
             /\ SlotBlock(state, pos) \in Blocks
             /\ pos % BlockSize \in 0 .. BlockSize - 1
  <2>1. pos \in Nat /\ pos < End(Len(state.blocks))
    BY <1>1, <1>2
  <2>2. pos \div BlockSize + 1 \in 1 .. Len(state.blocks)
    BY <1>1, <2>1, PositionInTable
  <2>3. pos % BlockSize \in 0 .. BlockSize - 1
    BY <2>1, SlotFacts
  <2> QED BY <1>1, <2>1, <2>2, <2>3 DEF SlotBlock
<1>4. ASSUME NEW m \in Storages
      PROVE  /\ \A x \in Blocks, o \in 0 .. BlockSize - 1 :
                  \/ store[m][x][o] = c[m][x][o]
                  \/ \E pos \in known .. known + Len(new) - 1 :
                       x = SlotBlock(state, pos) /\ o = pos % BlockSize
             /\ \A pos \in 0 .. known + Len(new) - 1 :
                  store[m][SlotBlock(state, pos)][pos % BlockSize]
                    = IF pos < known THEN c[m][SlotBlock(state, pos)][pos % BlockSize]
                      ELSE SubSeq(all, 1, pos + 1)
  <2>1. \A pos \in 0 .. known + Len(new) - 1 : SlotBlock(state, pos) \in Blocks
    BY <1>3
  <2> HIDE DEF state
  <2>2. store = WriteTokens(c, state, new)
    BY DEF state
  <2>3. Wrote(store, c, state, new)
    BY <1>1, <1>2, <2>1, <2>2, WrittenFacts
  <2> QED BY <2>3 DEF Wrote
<1>5. ASSUME NEW x \in Blocks, NEW s \in Live(k) \ {r}, Listed(k.states[s].blocks, x)
      PROVE  SameSlots(store, c, x)
  BY <1>2, <1>4, <1>5 DEF SameSlots
<1>6. ASSUME NEW x \in Blocks, k.pool.keys[x] # NoKey PROVE SameSlots(store, c, x)
  <2> SUFFICES ASSUME NEW pos \in known .. known + Len(new) - 1, x = SlotBlock(state, pos) PROVE FALSE
    BY <1>4 DEF SameSlots
  <2> DEFINE i == pos \div BlockSize + 1
  <2>1. i \in 1 .. Len(state.blocks) /\ pos \in Nat /\ state.blocks[i] = x
    <3>1. pos \in 0 .. known + Len(new) - 1
      BY <1>1
    <3> QED BY <1>3, <3>1 DEF SlotBlock
  <2>2. pos < End(i) /\ End(i) \in Nat
    BY <2>1, PositionFacts
  <2> HIDE DEF i, known
  <2>3. End(i) <= Len(state.tokens)
    BY <1>1, <1>6, <2>1 DEF TableOK
  <2> QED BY <1>1, <2>1, <2>2, <2>3 DEF known
<1>7. ASSUME NEW s \in Live(k) \ {r} PROVE ReadsBack(k.states[s], Current(k, b, s), store)
  <2>1. ReadsBack(k.states[s], Current(k, b, s), c)
    BY DEF SlotsOK
  <2>2. \A x \in Blocks : Listed(k.states[s].blocks, x) => SameSlots(store, c, x)
    BY <1>5
  <2> QED BY <2>1, <2>2, ReadsKept
<1>8. ReadsBack(state, all, store)
  <2>1. ReadsBack(state, state.tokens, c)
    <3>1. Current(k, b, r) = state.tokens
      BY CurrentInBatch, CurrentOutside
    <3>2. ReadsBack(k.states[r], Current(k, b, r), c)
      BY DEF SlotsOK
    <3> QED BY <3>1, <3>2
  <2>2. Len(all) = known + Len(new) /\ \A n \in 0 .. known : SubSeq(all, 1, n) = SubSeq(state.tokens, 1, n)
    <3>1. \A n \in 0 .. known : /\ Len(all) = known + Len(new)
                                /\ SubSeq(all, 1, n) = SubSeq(state.tokens, 1, n)
      BY <1>1, PrefixOfConcat
    <3>2. 0 \in 0 .. known
      BY <1>1
    <3> QED BY <3>1, <3>2
  <2> HIDE DEF all, state, known
  <2> SUFFICES ASSUME NEW m \in Storages, NEW pos \in 0 .. Len(all) - 1
               PROVE  store[m][SlotBlock(state, pos)][pos % BlockSize] = SubSeq(all, 1, pos + 1)
    BY DEF ReadsBack
  <2>5. pos \in 0 .. known + Len(new) - 1
    BY <1>1, <2>2
  <2>3. CASE pos < known
    <3>1. pos \in 0 .. known - 1 /\ pos + 1 \in 0 .. known
      BY <1>1, <2>3
    <3>2. c[m][SlotBlock(state, pos)][pos % BlockSize] = SubSeq(state.tokens, 1, pos + 1)
      BY <2>1, <3>1 DEF ReadsBack, known
    <3> QED BY <1>4, <2>2, <2>3, <2>5, <3>1, <3>2
  <2>4. CASE ~(pos < known)
    BY <1>4, <2>4, <2>5
  <2> QED BY <2>3, <2>4
<1>9. PrefixesOK(k, store)
  BY <1>6, PrefixesStay
<1> QED BY <1>5, <1>6, <1>7, <1>8, <1>9

\* A forward's reservation.
LEMMA ForwardFacts ==
  ASSUME IInv, NEW r \in Requests, NEW n \in 1 .. MaxSlice, NEW new \in [1 .. n -> Tokens],
         Forward(r, new)
  PROVE  LET copied == AfterReserve(r, Computed(kv, r) + Len(new))
         IN  /\ r \in Live(kv) /\ ~InBatch(batch, r)
             /\ new \in Seq(Tokens) /\ Len(new) = n
             /\ kv' = Reserved(kv, r, Computed(kv, r) + Len(new))
             /\ Computed(kv, r) + Len(new) \in Nat /\ CanReserve(kv, r, Computed(kv, r) + Len(new))
             /\ TablesOK(kv', Tokens, Salts) /\ Live(kv') = Live(kv)
             /\ BatchOK(kv', batch) /\ PrefixesOK(kv', copied) /\ SlotsOK(kv', copied, batch)
             /\ kv'.states[r].tokens = kv.states[r].tokens
             /\ kv'.states[r].salt = kv.states[r].salt
             /\ \A s \in Live(kv) \ {r} : kv'.states[s] = kv.states[s]
             /\ \A s \in Live(kv) : Current(kv', batch, s) = Current(kv, batch, s)
             /\ \A x \in Blocks : kv'.pool.keys[x] # NoKey => SameSlots(copied, content, x)
             /\ \A s \in Live(kv) \ {r}, x \in Blocks :
                  Listed(kv.states[s].blocks, x) => SameSlots(copied, content, x)
             /\ Own(kv', r, Len(new))
             /\ StoreBecomes(WriteTokens(copied, kv'.states[r], new))
<1> DEFINE end == Computed(kv, r) + Len(new)
<1>1. /\ r \in Live(kv) /\ ~InBatch(batch, r) /\ CanReserve(kv, r, end)
      /\ kv' = Reserved(kv, r, end)
      /\ StoreBecomes(WriteTokens(AfterReserve(r, end), kv'.states[r], new))
  BY DEF Forward
<1>2. TablesOK(kv, Tokens, Salts)
  BY DEF IInv
<1>3. new \in Seq(Tokens) /\ Len(new) = n /\ n \in Nat
  BY RequestsAssumption
<1>4. kv.states[r].tokens \in Seq(Tokens) /\ Computed(kv, r) \in Nat /\ end \in Nat
  BY <1>1, <1>2, <1>3 DEF TablesOK, StatesOK, StateType, Computed
<1>5. end = Len(kv.states[r].tokens) + Len(new)
  BY DEF Computed
<1> HIDE DEF end
<1>6. /\ TablesOK(kv', Tokens, Salts) /\ Live(kv') = Live(kv)
      /\ BatchOK(kv', batch) /\ PrefixesOK(kv', AfterReserve(r, end))
      /\ \A s \in Live(kv) : /\ Current(kv', batch, s) = Current(kv, batch, s)
                             /\ ReadsBack(kv'.states[s], Current(kv', batch, s), AfterReserve(r, end))
      /\ \A x \in Blocks : kv'.pool.keys[x] # NoKey => SameSlots(AfterReserve(r, end), content, x)
      /\ \A s \in Live(kv) \ {r}, x \in Blocks :
           Listed(kv.states[s].blocks, x) => SameSlots(AfterReserve(r, end), content, x)
  BY <1>1, <1>4, AfterReserveOK
<1>7. /\ kv'.states[r].tokens = kv.states[r].tokens /\ kv'.states[r].salt = kv.states[r].salt
      /\ \A s \in Live(kv) \ {r} : kv'.states[s] = kv.states[s]
      /\ \A k \in Nat : Len(kv.states[r].tokens) + k = end => Own(kv', r, k)
  BY <1>1, <1>2, <1>4, ReservedOK
<1>8. Own(kv', r, Len(new))
  BY <1>3, <1>5, <1>7
<1>9. SlotsOK(kv', AfterReserve(r, end), batch)
  BY <1>6 DEF SlotsOK
<1> QED BY <1>1, <1>3, <1>4, <1>6, <1>7, <1>8, <1>9 DEF end

\* Forward preserves the invariant: it writes where no other request reads.
LEMMA ForwardStep ==
  ASSUME IInv, NEW r \in Requests, NEW n \in 1 .. MaxSlice, NEW new \in [1 .. n -> Tokens],
         Forward(r, new)
  PROVE  IInv'
<1> DEFINE copied == AfterReserve(r, Computed(kv, r) + Len(new))
           store == WriteTokens(copied, kv'.states[r], new)
<1>1. /\ r \in Live(kv) /\ ~InBatch(batch, r)
      /\ new \in Seq(Tokens)
      /\ TablesOK(kv', Tokens, Salts) /\ Live(kv') = Live(kv)
      /\ BatchOK(kv', batch) /\ PrefixesOK(kv', copied) /\ SlotsOK(kv', copied, batch)
      /\ Own(kv', r, Len(new)) /\ StoreBecomes(store)
  BY ForwardFacts
<1> HIDE DEF copied, store
<1>2. Live(kv) \subseteq Requests /\ batch \in Seq(Items)
  BY DEF IInv
<1>3. batch' = Joined(batch, r, new) /\ batch' \in Seq(Items)
  BY <1>1, <1>2 DEF Forward, Items, Joined
<1>4. /\ BatchOK(kv', batch')
      /\ Current(kv', batch', r) = kv'.states[r].tokens \o new
      /\ \A s \in Live(kv') \ {r} : Current(kv', batch', s) = Current(kv', batch, s)
  BY <1>1, <1>2, <1>3, CurrentGrows
<1>5. /\ \A s \in Live(kv') \ {r} : ReadsBack(kv'.states[s], Current(kv', batch, s), store)
      /\ ReadsBack(kv'.states[r], kv'.states[r].tokens \o new, store)
      /\ PrefixesOK(kv', store)
  BY <1>1, WriteOK DEF store
<1>6. SlotsOK(kv', store, batch')
  BY <1>4, <1>5 DEF SlotsOK
<1> QED BY <1>1, <1>2, <1>3, <1>4, <1>5, <1>6, NextState

-----------------------------------------------------------------------------
(* The commits of a batch, and a forward that raised.                       *)

\* A forward that raises preserves the invariant: the tokens it wrote are not committed.
LEMMA ForwardRaisesStep ==
  ASSUME IInv, ForwardRaises
  PROVE  IInv'
<1>1. /\ TablesOK(kv, Tokens, Salts) /\ Live(kv) \subseteq Requests /\ BatchOK(kv, batch)
      /\ SlotsOK(kv, content, batch) /\ PrefixesOK(kv, content)
  BY DEF IInv
<1>2. kv' = kv /\ batch' = <<>> /\ batch' \in Seq(Items) /\ StoreBecomes(content)
  BY DEF ForwardRaises
<1>3. BatchOK(kv', batch') /\ \A r : Current(kv', batch', r) = kv.states[r].tokens
  BY <1>2, EmptyBatch
<1>4. ASSUME NEW r \in Live(kv) PROVE ReadsBack(kv.states[r], kv.states[r].tokens, content)
  <2>1. /\ Current(kv, batch, r) \in Seq(Tokens) /\ kv.states[r].tokens \in Seq(Tokens)
        /\ Begins(kv.states[r].tokens, Current(kv, batch, r))
    BY <1>1, CurrentBegins
  <2>2. ReadsBack(kv.states[r], Current(kv, batch, r), content)
    BY <1>1 DEF SlotsOK
  <2> QED BY <2>1, <2>2, ReadsFewer
<1>5. SlotsOK(kv', content, batch')
  BY <1>2, <1>3, <1>4 DEF SlotsOK
<1> QED BY <1>1, <1>2, <1>3, <1>5, NextState

Accepted(accepted, i) == SubSeq(batch[i].tokens, 1, accepted[i])

\* k is kv with the first i items of the batch committed.
CommittedTo(k, i, accepted) ==
  /\ TablesOK(k, Tokens, Salts) /\ Live(k) = Live(kv)
  /\ \A s \in Live(kv) : k.states[s].blocks = kv.states[s].blocks /\ k.states[s].salt = kv.states[s].salt
  /\ \A j \in 1 .. i : k.states[batch[j].rid].tokens
                         = Extended(kv.states[batch[j].rid].tokens, Accepted(accepted, j))
  /\ \A s \in Live(kv) : (\A j \in 1 .. i : batch[j].rid # s) => k.states[s] = kv.states[s]
  /\ \A j \in i + 1 .. Len(batch) : Own(k, batch[j].rid, Len(batch[j].tokens))
  /\ \A x \in Blocks : \/ k.pool.keys[x] = kv.pool.keys[x]
                       \/ \E s \in Live(kv) : Listed(kv.states[s].blocks, x)

\* A number of tokens to commit for each item, of those it wrote.
AcceptedOK(accepted) ==
  \A i \in 1 .. Len(batch) : accepted[i] \in 1 .. Len(batch[i].tokens)

\* Committing one request of the batch.
LEMMA CommitOne ==
  ASSUME IInv, NEW accepted, AcceptedOK(accepted), NEW i \in 1 .. Len(batch),
         NEW k, CommittedTo(k, i - 1, accepted),
         NEW q, q = Committed(k, batch[i].rid, Accepted(accepted, i))
  PROVE  CommittedTo(q, i, accepted)
<1> DEFINE r == batch[i].rid
           n == Len(batch[i].tokens)
           new == Accepted(accepted, i)
<1>1. /\ BatchOK(kv, batch) /\ Len(batch) \in Nat
      /\ r \in Live(kv) /\ batch[i].tokens \in Seq(Tokens) /\ n \in Nat
      /\ \A j \in 1 .. Len(batch) : batch[j].rid = r => j = i
      /\ \A j \in 1 .. Len(batch) : batch[j].tokens \in Seq(Tokens)
  BY DEF IInv, BatchOK
<1>2. accepted[i] \in 0 .. n
  BY DEF AcceptedOK
<1>3. new \in Seq(Tokens) /\ Len(new) <= n
  BY <1>1, <1>2, PrefixFacts DEF Accepted
<1>4. (i - 1) + 1 = i /\ i \in (i - 1) + 1 .. Len(batch)
  BY <1>1
<1>5. TablesOK(k, Tokens, Salts) /\ Live(k) = Live(kv) /\ Own(k, r, n)
  BY <1>4 DEF CommittedTo
<1> HIDE DEF r, n, new
<1>6. q = Committed(k, r, new)
  BY DEF r, new
<1>7. /\ TablesOK(q, Tokens, Salts)
      /\ Live(q) = Live(k)
      /\ \A s \in Live(k) \ {r} : q.states[s] = k.states[s]
      /\ q.states[r].tokens = Extended(k.states[r].tokens, new)
      /\ q.states[r].blocks = k.states[r].blocks /\ q.states[r].salt = k.states[r].salt
      /\ \A b \in Blocks : \/ q.pool.keys[b] = k.pool.keys[b]
                           \/ Listed(k.states[r].blocks, b)
      /\ \A s \in Live(k) \ {r}, m \in Nat : Own(k, s, m) => Own(q, s, m)
  BY <1>1, <1>3, <1>5, <1>6, CommittedOK DEF Extended
<1>8. \A s \in Live(kv) : q.states[s].blocks = kv.states[s].blocks /\ q.states[s].salt = kv.states[s].salt
  BY <1>1, <1>5, <1>7 DEF CommittedTo
<1>9. k.states[r] = kv.states[r]
  <2>1. \A j \in 1 .. i - 1 : batch[j].rid # r
    BY <1>1
  <2> QED BY <1>1, <2>1 DEF CommittedTo
<1>10. ASSUME NEW j \in 1 .. i
       PROVE  q.states[batch[j].rid].tokens = Extended(kv.states[batch[j].rid].tokens, Accepted(accepted, j))
  <2>1. CASE j = i
    BY <1>7, <1>9, <2>1 DEF r, new
  <2>2. CASE j # i
    <3>1. j \in 1 .. i - 1 /\ j \in 1 .. Len(batch) /\ batch[j].rid # r /\ batch[j].rid \in Live(kv)
      BY <1>1, <2>2 DEF BatchOK
    <3>2. q.states[batch[j].rid] = k.states[batch[j].rid]
      BY <1>5, <1>7, <3>1
    <3> QED BY <3>1, <3>2 DEF CommittedTo
  <2> QED BY <2>1, <2>2
<1>11. ASSUME NEW s \in Live(kv), \A j \in 1 .. i : batch[j].rid # s PROVE q.states[s] = kv.states[s]
  <2>1. s # r /\ \A j \in 1 .. i - 1 : batch[j].rid # s
    <3>1. i \in 1 .. i /\ \A j \in 1 .. i - 1 : j \in 1 .. i
      OBVIOUS
    <3> QED BY <1>11, <3>1 DEF r
  <2> QED BY <1>5, <1>7, <2>1 DEF CommittedTo
<1>12. ASSUME NEW j \in i + 1 .. Len(batch) PROVE Own(q, batch[j].rid, Len(batch[j].tokens))
  <2>1. j \in (i - 1) + 1 .. Len(batch) /\ j \in 1 .. Len(batch) /\ j # i
    BY <1>1
  <2>2. batch[j].rid \in Live(kv) \ {r} /\ Len(batch[j].tokens) \in Nat
    BY <1>1, <2>1 DEF BatchOK
  <2>3. Own(k, batch[j].rid, Len(batch[j].tokens))
    BY <2>1 DEF CommittedTo
  <2> QED BY <1>5, <1>7, <2>2, <2>3
<1>13. \A x \in Blocks : \/ q.pool.keys[x] = kv.pool.keys[x]
                         \/ \E s \in Live(kv) : Listed(kv.states[s].blocks, x)
  BY <1>1, <1>7, <1>9 DEF CommittedTo
<1> QED BY <1>5, <1>7, <1>8, <1>10, <1>11, <1>12, <1>13 DEF CommittedTo

\* Committing the whole batch, request by request.
LEMMA CommitAll ==
  ASSUME IInv, NEW accepted \in [1 .. Len(batch) -> 1 .. MaxSlice], CommitBatch(accepted)
  PROVE  AcceptedOK(accepted) /\ CommittedTo(kv', Len(batch), accepted)
<1> DEFINE n == Len(batch)
           K == Salts \X Seq(Tokens)
           Tables == [pool : PoolType(K), states : [Live(kv) -> StateType(Tokens, Salts)]]
           commit(k, i) == Committed(k, batch[i].rid, Accepted(accepted, i))
           S == [i \in 0 .. n |-> {k \in Tables : CommittedTo(k, i, accepted)}]
           step == [i \in 1 .. n |-> [k \in Tables |-> commit(k, i)]]
           Passes(g) == g = [i \in 0 .. n |-> IF i = 0 THEN kv ELSE commit(g[i - 1], i)]
<1>1. n \in Nat /\ TablesOK(kv, Tokens, Salts) /\ BatchOK(kv, batch)
  BY DEF IInv, BatchOK
<1>2. AcceptedOK(accepted)
  <2> SUFFICES ASSUME NEW i \in 1 .. n PROVE accepted[i] \in 1 .. Len(batch[i].tokens)
    BY DEF AcceptedOK
  <2>1. accepted[i] \in 1 .. MaxSlice /\ accepted[i] <= Len(batch[i].tokens)
    BY DEF CommitBatch
  <2>2. Len(batch[i].tokens) \in Nat
    BY <1>1 DEF BatchOK
  <2> QED BY <2>1, <2>2
<1>3. \A k, i : CommittedTo(k, i, accepted) => k \in Tables
  BY DEF CommittedTo, TablesOK, StatesOK, PoolOK
<1>4. kv \in S[0]
  <2>1. CommittedTo(kv, 0, accepted)
    BY <1>1 DEF CommittedTo, BatchOK
  <2> HIDE DEF Tables, n
  <2>2. kv \in Tables
    BY <1>3, <2>1
  <2>3. 0 \in 0 .. n
    BY <1>1
  <2> QED BY <2>1, <2>2, <2>3
<1>5. ASSUME NEW i \in 1 .. n, NEW k, k \in S[i - 1]
      PROVE  k \in Tables /\ commit(k, i) \in S[i]
  <2>1. i - 1 \in 0 .. n /\ i \in 0 .. n
    BY <1>1
  <2>2. k \in Tables /\ CommittedTo(k, i - 1, accepted)
    BY <1>5, <2>1
  <2>3. CommittedTo(commit(k, i), i, accepted)
    BY <1>2, <2>2, CommitOne
  <2> QED BY <1>3, <2>1, <2>2, <2>3
<1> HIDE DEF S, Tables
<1>6. PICK h : PassesFrom(kv, n, step, S, h)
  <2>1. PassesKeep(n, step, S)
    BY <1>5 DEF PassesKeep
  <2> HIDE DEF step, n
  <2> QED BY <1>1, <1>4, <2>1, PassesExist
<1>7. Passes(h)
  <2>1. ASSUME NEW i \in 1 .. n PROVE h[i] = commit(h[i - 1], i)
    <3>1. i - 1 \in 0 .. n
      BY <1>1
    <3>2. h[i - 1] \in Tables
      BY <1>5, <1>6, <3>1 DEF PassesFrom
    <3> QED BY <1>6, <3>2 DEF PassesFrom
  <2>2. \A i \in 0 .. n : i = 0 \/ i \in 1 .. n
    OBVIOUS
  <2> HIDE DEF step, n, commit
  <2> QED BY <1>6, <2>1, <2>2 DEF PassesFrom
<1> DEFINE g == CHOOSE g : Passes(g)
<1>8. Passes(g)
  BY <1>7, Zenon
<1>9. kv' = g[n]
  BY DEF CommitBatch, Loop, Accepted
<1> HIDE DEF g
<1>10. /\ g[0] = kv
       /\ \A i \in 1 .. n : i \in 0 .. n /\ g[i] = commit(g[i - 1], i)
  BY <1>1, <1>8
<1>11. \A i \in 0 .. n : g[i] \in S[i]
  <2>1. \A i \in 1 .. n : g[i - 1] \in S[i - 1] => g[i] \in S[i]
    BY <1>5, <1>10
  <2> HIDE DEF n
  <2> QED BY <1>1, <1>4, <1>10, <2>1, PassesStay
<1>12. CommittedTo(g[n], n, accepted)
  <2>1. g[n] \in S[n] /\ n \in 0 .. n
    BY <1>1, <1>11
  <2> QED BY <2>1 DEF S
<1> QED BY <1>2, <1>9, <1>12

\* A prefix of what a forward wrote, behind the same tokens.
LEMMA FewerNew ==
  ASSUME NEW s \in Seq(Tokens), NEW new \in Seq(Tokens), NEW a \in 0 .. Len(new),
         NEW fewer, fewer = Extended(s, SubSeq(new, 1, a))
  PROVE  /\ fewer \in Seq(Tokens) /\ Len(fewer) = Len(s) + a
         /\ Begins(fewer, Extended(s, new))
<1> DEFINE all == s \o new
<1>1. /\ SubSeq(new, 1, a) \in Seq(Tokens) /\ Len(SubSeq(new, 1, a)) = a
      /\ \A i \in 1 .. a : SubSeq(new, 1, a)[i] = new[i]
  BY PrefixFacts
<1>2. /\ Len(s) \in Nat /\ Len(new) \in Nat /\ a \in Nat /\ a <= Len(new)
  OBVIOUS
<1> DEFINE head == SubSeq(new, 1, a)
<1> HIDE DEF head
<1>3. fewer \in Seq(Tokens) /\ Len(fewer) = Len(s) + a
      /\ \A i \in 1 .. Len(s) + a : fewer[i] = IF i <= Len(s) THEN s[i] ELSE head[i - Len(s)]
  BY <1>1 DEF Extended, head
<1>4. /\ all \in Seq(Tokens) /\ Len(all) = Len(s) + Len(new)
      /\ \A i \in 1 .. Len(s) + Len(new) : all[i] = IF i <= Len(s) THEN s[i] ELSE new[i - Len(s)]
  OBVIOUS
<1>5. \A i \in 1 .. Len(fewer) : fewer[i] = all[i]
  BY <1>1, <1>2, <1>3, <1>4 DEF head
<1>6. all = Extended(s, new) /\ Len(fewer) <= Len(all)
  BY <1>2, <1>3, <1>4 DEF Extended
<1> HIDE DEF all
<1>7. ASSUME NEW m \in 0 .. Len(fewer) PROVE SubSeq(all, 1, m) = SubSeq(fewer, 1, m)
  <2>1. m \in 0 .. Len(all) /\ \A i \in 1 .. m : i \in 1 .. Len(fewer)
    BY <1>2, <1>3, <1>6
  <2>2. /\ SubSeq(all, 1, m) \in Seq(Tokens) /\ Len(SubSeq(all, 1, m)) = m
        /\ \A i \in 1 .. m : SubSeq(all, 1, m)[i] = all[i]
    BY <1>4, <2>1, PrefixFacts
  <2>3. /\ SubSeq(fewer, 1, m) \in Seq(Tokens) /\ Len(SubSeq(fewer, 1, m)) = m
        /\ \A i \in 1 .. m : SubSeq(fewer, 1, m)[i] = fewer[i]
    BY <1>3, PrefixFacts
  <2>4. \A i \in 1 .. m : SubSeq(all, 1, m)[i] = SubSeq(fewer, 1, m)[i]
    BY <1>5, <2>1, <2>2, <2>3
  <2> QED BY <2>2, <2>3, <2>4, SeqEqual
<1> QED BY <1>3, <1>6, <1>7 DEF Begins

\* Reading depends on the blocks of a table only.
LEMMA SameBlocksRead ==
  ASSUME NEW s, NEW t, t.blocks = s.blocks, NEW tokens, NEW c, ReadsBack(s, tokens, c)
  PROVE  ReadsBack(t, tokens, c)
  BY DEF ReadsBack, SlotBlock

\* What commits publish is what the tables' own tokens are read back as.
LEMMA PublishedReads ==
  ASSUME NEW k, TablesOK(k, Tokens, Salts), PrefixesOK(k, content),
         NEW q, TablesOK(q, Tokens, Salts),
         \A s \in Live(q) : ReadsBack(q.states[s], q.states[s].tokens, content),
         \A x \in Blocks : \/ q.pool.keys[x] = k.pool.keys[x]
                           \/ \E s \in Live(q) : Listed(q.states[s].blocks, x)
  PROVE  PrefixesOK(q, content)
<1>1. /\ NoKey \notin Salts \X Seq(Tokens) /\ IndexOK(k.pool) /\ IndexOK(q.pool)
      /\ DOMAIN q.pool.prefixes \subseteq Salts \X Seq(Tokens)
      /\ q.pool.prefixes \in [DOMAIN q.pool.prefixes -> Blocks]
  BY DEF TablesOK, PoolOK, PoolType
<1> SUFFICES ASSUME NEW key \in DOMAIN q.pool.prefixes, NEW m \in Storages,
                    NEW o \in 0 .. BlockSize - 1
             PROVE  content[m][q.pool.prefixes[key]][o] = Held(key, o)
  BY DEF PrefixesOK
<1> DEFINE x == q.pool.prefixes[key]
<1>2. x \in Blocks /\ q.pool.keys[x] = key /\ key # NoKey
  BY <1>1 DEF IndexOK
<1> HIDE DEF x
<1>3. CASE \E s \in Live(q) : Listed(q.states[s].blocks, x)
  <2>1. PICK s \in Live(q) : Listed(q.states[s].blocks, x)
    BY <1>3
  <2> DEFINE state == q.states[s]
             tokens == state.tokens
  <2>2. /\ TableOK(q.pool.keys, state) /\ state.blocks \in Seq(Blocks)
        /\ tokens \in Seq(Tokens) /\ state.salt \in Salts
        /\ ReadsBack(state, tokens, content)
    BY DEF TablesOK, StatesOK, StateType
  <2>3. PICK i \in 1 .. Len(state.blocks) : state.blocks[i] = x
    BY <2>1 DEF Listed
  <2>4. End(i) <= Len(tokens) /\ key = PrefixKey(state.salt, tokens, i) /\ i \in Nat \ {0}
    BY <1>2, <2>2, <2>3 DEF TableOK
  <2> DEFINE pos == End(i - 1) + o
  <2> HIDE DEF state
  <2>5. /\ pos \in 0 .. Len(tokens) - 1 /\ pos \div BlockSize + 1 = i /\ pos % BlockSize = o
        /\ Held(key, o) = SubSeq(tokens, 1, pos + 1)
    <3> HIDE DEF tokens
    <3> QED BY <2>2, <2>4, KeyAtPosition
  <2>6. SlotBlock(state, pos) = x
    BY <2>3, <2>5 DEF SlotBlock
  <2> HIDE DEF pos, tokens
  <2>7. content[m][SlotBlock(state, pos)][pos % BlockSize] = SubSeq(tokens, 1, pos + 1)
    BY <2>2, <2>5 DEF ReadsBack
  <2> QED BY <2>5, <2>6, <2>7 DEF x
<1>4. CASE ~\E s \in Live(q) : Listed(q.states[s].blocks, x)
  <2>1. k.pool.keys[x] = key
    BY <1>2, <1>4
  <2>2. key \in DOMAIN k.pool.prefixes /\ k.pool.prefixes[key] = x
    BY <1>1, <1>2, <2>1 DEF IndexOK
  <2> QED BY <2>2 DEF PrefixesOK, x
<1> QED BY <1>3, <1>4

\* CommitBatch preserves the invariant: the blocks it indexes hold their prefix.
LEMMA CommitBatchStep ==
  ASSUME IInv, NEW accepted \in [1 .. Len(batch) -> 1 .. MaxSlice], CommitBatch(accepted)
  PROVE  IInv'
<1>1. /\ TablesOK(kv, Tokens, Salts) /\ Live(kv) \subseteq Requests /\ BatchOK(kv, batch)
      /\ SlotsOK(kv, content, batch) /\ PrefixesOK(kv, content)
  BY DEF IInv
<1>2. batch' = <<>> /\ batch' \in Seq(Items) /\ StoreBecomes(content)
  <2>1. batch' = <<>> /\ StoreBecomes(content)
    BY Zenon DEF CommitBatch
  <2> QED BY <2>1
<1>3. AcceptedOK(accepted) /\ CommittedTo(kv', Len(batch), accepted)
  BY CommitAll
<1>4. /\ TablesOK(kv', Tokens, Salts) /\ Live(kv') = Live(kv)
      /\ \A s \in Live(kv) : kv'.states[s].blocks = kv.states[s].blocks
      /\ \A x \in Blocks : \/ kv'.pool.keys[x] = kv.pool.keys[x]
                           \/ \E s \in Live(kv) : Listed(kv.states[s].blocks, x)
  BY <1>3 DEF CommittedTo
<1>5. BatchOK(kv', batch') /\ \A r : Current(kv', batch', r) = kv'.states[r].tokens
  BY <1>2, EmptyBatch
<1>6. ASSUME NEW s \in Live(kv) PROVE ReadsBack(kv'.states[s], kv'.states[s].tokens, content)
  <2> DEFINE state == kv.states[s]
             tokens == Current(kv, batch, s)
             fewer == kv'.states[s].tokens
  <2>1. ReadsBack(state, tokens, content) /\ state.tokens \in Seq(Tokens)
    BY <1>1 DEF TablesOK, StatesOK, StateType, SlotsOK
  <2>2. ReadsBack(state, fewer, content)
    <3>1. CASE InBatch(batch, s)
      <4>1. PICK i \in 1 .. Len(batch) : batch[i].rid = s
        BY <3>1 DEF InBatch
      <4> DEFINE new == batch[i].tokens
      <4>2. new \in Seq(Tokens) /\ accepted[i] \in 0 .. Len(new)
        BY <1>1, <1>3 DEF BatchOK, AcceptedOK
      <4>3. tokens = Extended(state.tokens, new)
        BY <1>1, <4>1, CurrentInBatch
      <4>4. fewer = Extended(state.tokens, SubSeq(new, 1, accepted[i]))
        BY <1>3, <4>1 DEF CommittedTo, Accepted
      <4> HIDE DEF state, tokens, fewer, new
      <4>5. fewer \in Seq(Tokens) /\ Begins(fewer, tokens)
        BY <2>1, <4>2, <4>3, <4>4, FewerNew
      <4>6. tokens \in Seq(Tokens)
        BY <2>1, <4>2, <4>3 DEF Extended
      <4> QED BY <2>1, <4>5, <4>6, ReadsFewer
    <3>2. CASE ~InBatch(batch, s)
      <4>1. \A j \in 1 .. Len(batch) : batch[j].rid # s
        BY <3>2 DEF InBatch
      <4>2. kv'.states[s] = state
        BY <1>3, <4>1 DEF CommittedTo
      <4>3. tokens = state.tokens
        BY <3>2, CurrentOutside
      <4> QED BY <2>1, <4>2, <4>3
    <3> QED BY <3>1, <3>2
  <2> HIDE DEF fewer
  <2>3. ReadsBack(kv'.states[s], fewer, content)
    BY <1>4, <2>2, SameBlocksRead
  <2> QED BY <2>3 DEF fewer
<1>7. SlotsOK(kv', content, batch')
  BY <1>4, <1>5, <1>6 DEF SlotsOK
<1>8. PrefixesOK(kv', content)
  <2>1. \A x \in Blocks : \/ kv'.pool.keys[x] = kv.pool.keys[x]
                          \/ \E s \in Live(kv') : Listed(kv'.states[s].blocks, x)
    BY <1>4
  <2>2. \A s \in Live(kv') : ReadsBack(kv'.states[s], kv'.states[s].tokens, content)
    BY <1>4, <1>6
  <2> QED BY <1>1, <1>4, <2>1, <2>2, PublishedReads
<1> QED BY <1>1, <1>2, <1>4, <1>5, <1>7, <1>8, NextState

-----------------------------------------------------------------------------
(* The invariant.                                                           *)

\* The invariant holds initially.
LEMMA InitOK == Init => IInv
<1> SUFFICES ASSUME Init PROVE IInv
  OBVIOUS
<1>1. /\ TablesOK(kv, Tokens, Salts) /\ Live(kv) = {} /\ kv.pool.prefixes = EmptyIndex
      /\ batch = <<>> /\ batch \in Seq(Items)
  <2>1. kv = EmptyKV /\ batch = <<>>
    BY DEF Init
  <2>2. TablesOK(EmptyKV, Tokens, Salts) /\ Live(EmptyKV) = {} /\ EmptyKV.pool.prefixes = EmptyIndex
    BY NoKeyAssumption, EmptyTablesOK
  <2> QED BY <2>1, <2>2
<1>2. BatchOK(kv, batch)
  BY <1>1, EmptyBatch
<1>3. Tensors(content) /\ RestUnwritten(kv, content, batch)
  BY DEF Init, Tensors, RestUnwritten
<1>4. SlotsOK(kv, content, batch) /\ PrefixesOK(kv, content)
  BY <1>1 DEF SlotsOK, PrefixesOK, EmptyIndex
<1> QED BY <1>1, <1>2, <1>3, <1>4 DEF IInv

\* Every step preserves the invariant.
LEMMA NextOK == IInv /\ [Next]_vars => IInv'
<1> SUFFICES ASSUME IInv, [Next]_vars PROVE IInv'
  OBVIOUS
<1>1. CASE \E r \in Requests, tokens \in Prompts, salt \in Salts : Attach(r, tokens, salt)
  BY <1>1, AttachStep
<1>2. CASE \E r \in Requests, end \in 1 .. MaxModelLen : Reserve(r, end)
  BY <1>2, ReserveStep
<1>3. CASE \E r \in Requests, end \in 1 .. MaxModelLen, done \in SUBSET Storages : ReserveRaises(r, end, done)
  BY <1>3, ReserveRaisesStep
<1>4. CASE \E source, target \in Requests : Fork(source, target)
  BY <1>4, ForkStep
<1>5. CASE \E r \in Requests : Trim(r)
  BY <1>5, TrimStep
<1>6. CASE \E r \in Requests : Release(r)
  BY <1>6, ReleaseStep
<1>7. CASE ClearPrefixCache
  BY <1>7, ClearStep
<1>8. CASE \E r \in Requests, n \in 1 .. MaxSlice : \E new \in [1 .. n -> Tokens] : Forward(r, new)
  BY <1>8, ForwardStep
<1>9. CASE \E accepted \in [1 .. Len(batch) -> 1 .. MaxSlice] : CommitBatch(accepted)
  BY <1>9, CommitBatchStep
<1>10. CASE ForwardRaises
  BY <1>10, ForwardRaisesStep
<1>11. CASE UNCHANGED vars
  BY <1>11 DEF vars, IInv
<1> QED BY <1>1, <1>2, <1>3, <1>4, <1>5, <1>6, <1>7, <1>8, <1>9, <1>10, <1>11 DEF Next

\* The invariant holds in every reachable state.
LEMMA Invariance == Spec => []IInv
  BY InitOK, NextOK, PTL DEF Spec

-----------------------------------------------------------------------------
(* The safety invariants.                                                   *)

\* The elements of a list.
LEMMA ToSetIsListed ==
  ASSUME NEW blocks \in Seq(Blocks), NEW b
  PROVE  b \in ToSet(blocks) <=> Listed(blocks, b)
  BY DEF ToSet, Listed

\* No leak, no double free and no block in two tables without a count, over
\* any sequence of attach, reserve (also one whose copy raised), fork, forward,
\* commit, trim and release.
THEOREM CacheOwnership == Spec => []OwnershipExact
<1> SUFFICES ASSUME IInv PROVE OwnershipExact
  BY Invariance, PTL
<1>1. TablesOK(kv, Tokens, Salts)
  BY DEF IInv
<1>2. \A r \in Live(kv) : kv.states[r].blocks \in Seq(Blocks) /\ DistinctList(kv.states[r].blocks)
  BY <1>1 DEF TablesOK, StatesOK, StateType, TableOK
<1>3. \A b : Users(b) = Using(kv, b)
  <2>1. \A b, r : r \in Live(kv) =>
          (b \in ToSet(kv.states[r].blocks) <=> Listed(kv.states[r].blocks, b))
    BY <1>2, ToSetIsListed
  <2> QED BY <2>1 DEF Users, Using
<1>4. \A b \in Blocks : kv.pool.refCounts[b] = Cardinality(Users(b))
  BY <1>1, <1>3 DEF TablesOK, CountsOK
<1>5. \A r \in Live(kv) : IsInjective(kv.states[r].blocks)
  BY <1>2 DEF DistinctList, IsInjective
<1>6. kv.pool \in PoolType(Salts \X Seq(Tokens)) /\ FreeOK(kv.pool)
  BY <1>1 DEF TablesOK, PoolOK
<1>7. FreeSet(kv.pool) = {b \in Blocks : Users(b) = {}}
  <2>1. ASSUME NEW b \in Blocks PROVE kv.pool.refCounts[b] = 0 <=> Users(b) = {}
    <3>1. /\ kv.pool.refCounts[b] \in Nat
          /\ kv.pool.refCounts[b] > 0 <=> \E r \in Live(kv) : Listed(kv.states[r].blocks, b)
      BY <1>1, CountedIsUsed
    <3>2. Users(b) # {} <=> \E r \in Live(kv) : Listed(kv.states[r].blocks, b)
      BY <1>3 DEF Using
    <3> QED BY <3>1, <3>2
  <2> QED BY <1>6, <2>1 DEF FreeOK
<1>8. IsInjective(kv.pool.free)
  <2>1. kv.pool.free \in Seq(Blocks)
    BY <1>6 DEF PoolType
  <2> QED BY <1>6, <2>1 DEF FreeOK, IsInjective
<1> QED BY <1>4, <1>5, <1>7, <1>8 DEF OwnershipExact

\* Requests share pages only within one cache salt.
THEOREM CacheIsolation == Spec => []SaltIsolation
<1> SUFFICES ASSUME IInv PROVE SaltIsolation
  BY Invariance, PTL
<1>1. TablesOK(kv, Tokens, Salts)
  BY DEF IInv
<1> SUFFICES ASSUME NEW r \in Live(kv), NEW s \in Live(kv), r # s,
                    NEW b, b \in ToSet(kv.states[r].blocks), b \in ToSet(kv.states[s].blocks)
             PROVE  kv.states[r].salt = kv.states[s].salt
  BY DEF SaltIsolation
<1>2. kv.states[r].blocks \in Seq(Blocks) /\ kv.states[s].blocks \in Seq(Blocks)
  BY <1>1 DEF TablesOK, StatesOK, StateType
<1>3. Listed(kv.states[r].blocks, b) /\ Listed(kv.states[s].blocks, b)
  BY <1>2, ToSetIsListed
<1>4. Sharing(kv.states[r], kv.states[s])
  BY <1>1 DEF TablesOK
<1> QED BY <1>3, <1>4 DEF Listed, Sharing

\* A published block holds, in every storage, the keys and values of the prefix
\* it is published under, whatever was shared, copied, evicted or reused.
THEOREM PublishedBlocks == Spec => []PublishedExact
<1>1. IInv => PublishedExact
  BY DEF IInv, PrefixesOK, Held, PublishedExact
<1> QED BY <1>1, Invariance, PTL

-----------------------------------------------------------------------------
(* What a forward writes is nobody else's.                                  *)

\* A slot of a block that another request lists too may be read before the
\* forward only if that request reads it.
LEMMA ReadByOther ==
  ASSUME NEW k, TablesOK(k, Tokens, Salts), NEW b, BatchOK(k, b),
         NEW r \in Live(k), ~InBatch(b, r), NEW s \in Live(k) \ {r},
         NEW x \in Blocks, Listed(k.states[s].blocks, x),
         NEW o \in 0 .. BlockSize - 1, <<x, o>> \in Readable(k, b)
  PROVE  \E t \in Live(k) \ {r} : ReadBy(k, b, t, x, o)
<1> DEFINE known == k.states[s].tokens
<1>1. /\ Len(known) \in Nat /\ Len(k.states[r].tokens) \in Nat
      /\ TableOK(k.pool.keys, k.states[s]) /\ Sharing(k.states[s], k.states[r])
      /\ Len(k.states[s].blocks) \in Nat
  BY DEF TablesOK, StatesOK, StateType
<1>2. Len(known) <= Len(Current(k, b, s)) /\ Len(Current(k, b, s)) \in Nat
  BY CurrentBegins DEF Begins
<1>3. PICK j \in 1 .. Len(k.states[s].blocks) : k.states[s].blocks[j] = x
  BY DEF Listed
<1>4. j \in Nat /\ j - 1 \in Nat /\ (j - 1) + 1 = j
  BY <1>1
<1>5. End(j) \in Nat /\ End(j - 1) \in Nat /\ End(j) = End(j - 1) + BlockSize
  BY <1>4, EndFacts
<1> DEFINE at == End(j - 1) + o
<1>6. at \in Nat /\ at < End(j) /\ at \div BlockSize + 1 = j /\ at % BlockSize = o
  <2>1. at \in Nat /\ at \div BlockSize = j - 1 /\ at % BlockSize = o
    BY <1>4, SlotIsUnique
  <2>2. at < End(j)
    BY <1>5, BlockSizeAssumption
  <2> QED BY <1>4, <2>1, <2>2
<1> HIDE DEF at
<1>7. ASSUME at < Len(known) PROVE ReadBy(k, b, s, x, o)
  <2>1. at \in 0 .. Len(Current(k, b, s)) - 1
    BY <1>1, <1>2, <1>6, <1>7
  <2>2. x = SlotBlock(k.states[s], at) /\ o = at % BlockSize
    BY <1>3, <1>6 DEF SlotBlock
  <2> QED BY <2>1, <2>2 DEF ReadBy
<1> HIDE DEF known
<1>8. ASSUME ReadBy(k, b, r, x, o) PROVE at < Len(known)
  <2>1. PICK pos \in 0 .. Len(Current(k, b, r)) - 1 :
          x = SlotBlock(k.states[r], pos) /\ o = pos % BlockSize
    BY <1>8 DEF ReadBy
  <2>2. Current(k, b, r) = k.states[r].tokens
    BY CurrentOutside
  <2> DEFINE i == pos \div BlockSize + 1
  <2>3. i \in 1 .. Len(k.states[r].blocks)
    BY CurrentFacts
  <2>4. k.states[r].blocks[i] = x
    BY <2>1 DEF SlotBlock
  <2>5. pos \in Nat /\ pos < Len(k.states[r].tokens)
    BY <1>1, <2>2
  <2>6. pos = End(i - 1) + (pos % BlockSize)
    BY <2>5, PositionFacts
  <2> HIDE DEF i
  <2>7. /\ j = i
        /\ Len(known) = Len(k.states[r].tokens) \/ End(j) <= Len(known)
    BY <1>1, <1>3, <2>3, <2>4 DEF Sharing, known
  <2>8. at = pos
    BY ONLY <2>1, <2>6, <2>7 DEF at
  <2>9. CASE Len(known) = Len(k.states[r].tokens)
    BY <2>5, <2>8, <2>9
  <2>10. CASE End(j) <= Len(known)
    BY <1>1, <1>5, <1>6, <2>10
  <2> QED BY <2>7, <2>9, <2>10
<1>9. ASSUME NEW key \in DOMAIN k.pool.prefixes, x = k.pool.prefixes[key] PROVE at < Len(known)
  <2>1. k.pool.keys[x] # NoKey
    BY <1>9 DEF TablesOK, PoolOK, PoolType, IndexOK
  <2>2. End(j) <= Len(known)
    BY <1>1, <1>3, <2>1 DEF TableOK, known
  <2> QED BY <1>1, <1>5, <1>6, <2>2
<1> QED BY <1>7, <1>8, <1>9, ReadableIff

\* A forward writes privately.
LEMMA ForwardWrites ==
  ASSUME IInv, NEW r \in Requests, NEW n \in 1 .. MaxSlice, NEW new \in [1 .. n -> Tokens],
         Forward(r, new)
  PROVE  WritesPrivately
<1> DEFINE copied == AfterReserve(r, Computed(kv, r) + Len(new))
           store == WriteTokens(copied, kv'.states[r], new)
<1>1. /\ r \in Live(kv) /\ ~InBatch(batch, r)
      /\ new \in Seq(Tokens)
      /\ TablesOK(kv', Tokens, Salts) /\ Live(kv') = Live(kv)
      /\ BatchOK(kv', batch) /\ PrefixesOK(kv', copied) /\ SlotsOK(kv', copied, batch)
      /\ \A s \in Live(kv) \ {r} : kv'.states[s] = kv.states[s]
      /\ \A s \in Live(kv) : Current(kv', batch, s) = Current(kv, batch, s)
      /\ Own(kv', r, Len(new)) /\ StoreBecomes(store)
  BY ForwardFacts
<1>2. /\ \A x \in Blocks : kv'.pool.keys[x] # NoKey => SameSlots(copied, content, x)
      /\ \A s \in Live(kv) \ {r}, x \in Blocks :
           Listed(kv.states[s].blocks, x) => SameSlots(copied, content, x)
  BY ForwardFacts
<1> HIDE DEF copied
<1>3. /\ \A x \in Blocks : kv'.pool.keys[x] # NoKey => SameSlots(store, copied, x)
      /\ \A x \in Blocks, s \in Live(kv') \ {r} :
           Listed(kv'.states[s].blocks, x) => SameSlots(store, copied, x)
  BY <1>1, WriteOK
<1> HIDE DEF store
<1>4. /\ TablesOK(kv, Tokens, Salts) /\ BatchOK(kv, batch) /\ batch \in Seq(Items)
      /\ Tensors(content) /\ RestUnwritten(kv, content, batch)
  BY DEF IInv
<1>5. \A s \in Live(kv') \ {r} : Current(kv', batch', s) = Current(kv, batch, s)
  <2>1. batch' = Joined(batch, r, new)
    BY DEF Forward, Joined
  <2> QED BY <1>1, <1>4, <2>1, CurrentGrows
<1>6. content' = Cleaned(kv', batch', store)
  BY <1>1 DEF StoreBecomes, Cleaned
<1> SUFFICES ASSUME NEW m \in Storages, NEW x \in Blocks,
                    kv'.pool.keys[x] # NoKey \/ ~(kv'.pool.refCounts[x] <= 1)
             PROVE  content'[m][x] = content[m][x]
  BY DEF WritesPrivately
<1>7. /\ content[m][x] = [o \in 0 .. BlockSize - 1 |-> content[m][x][o]]
      /\ content'[m][x] = [o \in 0 .. BlockSize - 1 |->
           IF <<x, o>> \in Readable(kv', batch') THEN store[m][x][o] ELSE Unwritten]
  BY <1>4, <1>6 DEF Tensors, Cleaned
<1>8. SUFFICES ASSUME NEW o \in 0 .. BlockSize - 1
               PROVE  content[m][x][o] = IF <<x, o>> \in Readable(kv', batch')
                                         THEN store[m][x][o] ELSE Unwritten
  BY <1>7
<1>9. CASE kv'.pool.keys[x] # NoKey
  <2>1. kv'.pool.keys[x] \in DOMAIN kv'.pool.prefixes /\ kv'.pool.prefixes[kv'.pool.keys[x]] = x
    BY <1>1, <1>9 DEF TablesOK, PoolOK, IndexOK
  <2>2. <<x, o>> \in Readable(kv', batch')
    BY <2>1, ReadableIff
  <2> QED BY <1>2, <1>3, <1>9, <2>2 DEF SameSlots
<1>10. CASE ~(kv'.pool.refCounts[x] <= 1)
  <2>1. kv'.pool.refCounts[x] > 1
    BY <1>1, <1>10, CountedIsUsed
  <2>2. PICK s \in Live(kv) \ {r} : Listed(kv.states[s].blocks, x) /\ Listed(kv'.states[s].blocks, x)
    <3>1. PICK s, t \in Live(kv') : /\ s # t
                                    /\ Listed(kv'.states[s].blocks, x)
                                    /\ Listed(kv'.states[t].blocks, x)
      BY <1>1, <2>1, CountedIsUsed
    <3> QED BY <1>1, <3>1
  <2>3. store[m][x][o] = content[m][x][o]
    BY <1>1, <1>2, <1>3, <2>2 DEF SameSlots
  <2>4. ASSUME <<x, o>> \in Readable(kv, batch) PROVE <<x, o>> \in Readable(kv', batch')
    <3>1. PICK t \in Live(kv) \ {r} : ReadBy(kv, batch, t, x, o)
      BY <1>1, <1>4, <2>2, <2>4, ReadByOther
    <3>2. /\ kv'.states[t] = kv.states[t] /\ t \in Live(kv')
          /\ Current(kv', batch', t) = Current(kv, batch, t)
      BY <1>1, <1>5
    <3>3. ReadBy(kv', batch', t, x, o)
      BY <3>1, <3>2 DEF ReadBy
    <3> QED BY <3>2, <3>3, ReadableIff
  <2>5. ASSUME <<x, o>> \notin Readable(kv', batch') PROVE content[m][x][o] = Unwritten
    BY <1>4, <2>4, <2>5 DEF RestUnwritten
  <2> QED BY <2>3, <2>5
<1> QED BY <1>9, <1>10

\* A forward never changes a slot that another request reads or that a lookup
\* could return.
THEOREM CacheWrites == Spec => WritesArePrivate
<1>1. IInv /\ [Next]_vars => [WritesPrivately]_vars
  <2> SUFFICES ASSUME IInv, Next PROVE WritesPrivately
    OBVIOUS
  <2>1. CASE \E r \in Requests, n \in 1 .. MaxSlice : \E new \in [1 .. n -> Tokens] : Forward(r, new)
    BY <2>1, ForwardWrites
  <2>2. CASE batch' = batch \/ batch' = <<>>
    <3>1. Len(batch) \in Nat
      BY DEF IInv, BatchOK
    <3> QED BY <2>2, <3>1 DEF WritesPrivately
  <2>3. (\E r \in Requests, n \in 1 .. MaxSlice : \E new \in [1 .. n -> Tokens] : Forward(r, new))
          \/ batch' = batch \/ batch' = <<>>
    BY Zenon DEF Next, Attach, Reserve, ReserveRaises, Fork, Trim, Release, ClearPrefixCache,
                 CommitBatch, ForwardRaises
  <2> QED BY <2>1, <2>2, <2>3
<1> QED BY <1>1, Invariance, PTL DEF Spec, WritesArePrivate

-----------------------------------------------------------------------------
(* The refinement.  Under the invariant the slots of a request's tokens     *)
(* hold what a private cache for these tokens would.                        *)

Values(k, c) ==
  [r \in Live(k) |->
     [tokens |-> k.states[r].tokens, salt |-> k.states[r].salt,
      values |-> [m \in Storages |-> [i \in 1 .. Computed(k, r) |->
                    c[m][SlotBlock(k.states[r], i - 1)][(i - 1) % BlockSize]]]]]

Private(k) == [r \in Live(k) |-> Abstract!Entry(k.states[r].tokens, k.states[r].salt)]

\* Under the invariant every request reads what a private cache would hold.
LEMMA ValuesArePrivate ==
  ASSUME NEW k, TablesOK(k, Tokens, Salts), NEW b, BatchOK(k, b), NEW c, SlotsOK(k, c, b)
  PROVE  Values(k, c) = Private(k)
<1> SUFFICES ASSUME NEW r \in Live(k), NEW m \in Storages, NEW i \in 1 .. Computed(k, r)
             PROVE  c[m][SlotBlock(k.states[r], i - 1)][(i - 1) % BlockSize]
                      = SubSeq(k.states[r].tokens, 1, i)
  BY DEF Values, Private, Computed, Abstract!Entry
<1>1. ReadsBack(k.states[r], k.states[r].tokens, c) /\ k.states[r].tokens \in Seq(Tokens)
  <2>1. ReadsBack(k.states[r], Current(k, b, r), c)
    BY DEF SlotsOK
  <2> QED BY <2>1, CurrentBegins, ReadsFewer
<1>2. i - 1 \in 0 .. Len(k.states[r].tokens) - 1 /\ (i - 1) + 1 = i
  BY <1>1 DEF Computed
<1> QED BY <1>1, <1>2 DEF ReadsBack

\* So the gathered values are those of private caches, before and after a step.
LEMMA GatheredIs ==
  ASSUME IInv, IInv'
  PROVE  Gathered = Private(kv) /\ Gathered' = Private(kv')
<1>1. Gathered = Values(kv, content) /\ Gathered' = Values(kv', content')
  BY DEF Gathered, Values
<1> QED BY <1>1, ValuesArePrivate DEF IInv

\* A step that leaves tokens and salts alone is invisible.
LEMMA Invisible ==
  ASSUME NEW k, NEW q, Live(q) = Live(k),
         \A s \in Live(k) : q.states[s].tokens = k.states[s].tokens /\ q.states[s].salt = k.states[s].salt
  PROVE  Private(q) = Private(k)
  BY DEF Private

\* Attach starts a private cache with the cached prefix.
LEMMA AttachStarts ==
  ASSUME IInv, IInv', NEW r \in Requests, NEW tokens \in Prompts, NEW salt \in Salts,
         Attach(r, tokens, salt)
  PROVE  \E n \in 0 .. Len(tokens) - 1 : Abstract!Start(r, tokens, salt, n)
<1>1. TablesOK(kv, Tokens, Salts)
  BY DEF IInv
<1>2. r \notin Live(kv) /\ kv' = Attached(kv, r, tokens, salt) /\ tokens \in Seq(Tokens) /\ tokens # <<>>
  BY PromptsAssumption DEF Attach
<1> DEFINE h == HitBlocks(kv, tokens, salt)
           n == End(h)
<1>3. /\ h \in Nat /\ n < Len(tokens)
      /\ Live(kv') = Live(kv) \cup {r}
      /\ \A s \in Live(kv) : kv'.states[s] = kv.states[s]
      /\ kv'.states[r].tokens = SubSeq(tokens, 1, n) /\ kv'.states[r].salt = salt
  BY <1>1, <1>2, AttachedOK
<1>4. n \in 0 .. Len(tokens) - 1
  <2>1. n \in Nat
    BY <1>3, EndFacts
  <2> QED BY <1>2, <1>3, <2>1
<1> HIDE DEF n, h
<1>5. Private(kv') = [x \in Live(kv) \cup {r} |->
                        IF x = r THEN Abstract!Entry(SubSeq(tokens, 1, n), salt) ELSE Private(kv)[x]]
  BY <1>3 DEF Private
<1>6. DOMAIN Private(kv) = Live(kv)
  BY DEF Private
<1>7. Gathered = Private(kv) /\ Gathered' = Private(kv')
  BY GatheredIs
<1>8. Abstract!Start(r, tokens, salt, n)
  BY <1>2, <1>5, <1>6, <1>7 DEF Abstract!Start
<1> QED BY <1>4, <1>8

\* Fork copies a private cache.
LEMMA ForkCopies ==
  ASSUME IInv, IInv', NEW source \in Requests, NEW target \in Requests, Fork(source, target)
  PROVE  Abstract!Copy(source, target)
<1>1. TablesOK(kv, Tokens, Salts)
  BY DEF IInv
<1>2. source \in Live(kv) /\ target \notin Live(kv) /\ kv' = Forked(kv, source, target)
  BY DEF Fork
<1>3. /\ Live(kv') = Live(kv) \cup {target}
      /\ \A s \in Live(kv) : kv'.states[s] = kv.states[s]
      /\ SameTokens(kv'.states[target], kv.states[source])
  BY <1>1, <1>2, ForkedOK
<1>4. Private(kv') = [x \in Live(kv) \cup {target} |->
                        IF x = target THEN Private(kv)[source] ELSE Private(kv)[x]]
  BY <1>2, <1>3 DEF Private, SameTokens
<1>5. DOMAIN Private(kv) = Live(kv)
  BY DEF Private
<1> QED BY <1>2, <1>4, <1>5, GatheredIs DEF Abstract!Copy

\* Release drops a private cache.
LEMMA ReleaseDrops ==
  ASSUME IInv, IInv', NEW r \in Requests, Release(r)
  PROVE  Abstract!Drop(r)
<1>1. r \in Live(kv) /\ kv' = ReleasedRequest(kv, r) /\ TablesOK(kv, Tokens, Salts)
  BY DEF Release, IInv
<1>2. kv'.states = WithoutState(kv, r)
  BY <1>1, ReleasedRequestOK
<1>3. Live(kv') = Live(kv) \ {r} /\ \A s \in Live(kv') : kv'.states[s] = kv.states[s]
  BY <1>2 DEF WithoutState, Live
<1>4. Private(kv') = [x \in Live(kv) \ {r} |-> Private(kv)[x]]
  BY <1>3 DEF Private
<1>5. DOMAIN Private(kv) = Live(kv)
  BY DEF Private
<1> QED BY <1>1, <1>4, <1>5, GatheredIs DEF Abstract!Drop

\* CommitBatch extends the private caches of the requests of the batch.
LEMMA CommitExtends ==
  ASSUME IInv, IInv', NEW accepted \in [1 .. Len(batch) -> 1 .. MaxSlice], CommitBatch(accepted)
  PROVE  \E S \in (SUBSET DOMAIN Gathered) \ {{}} : Abstract!Extend(S)
<1>1. TablesOK(kv, Tokens, Salts) /\ BatchOK(kv, batch) /\ batch \in Seq(Items)
  BY DEF IInv
<1>2. AcceptedOK(accepted) /\ CommittedTo(kv', Len(batch), accepted)
  BY CommitAll
<1>3. /\ Live(kv') = Live(kv)
      /\ \A s \in Live(kv) : kv'.states[s].salt = kv.states[s].salt
      /\ \A j \in 1 .. Len(batch) : kv'.states[batch[j].rid].tokens
                                     = Extended(kv.states[batch[j].rid].tokens, Accepted(accepted, j))
      /\ \A s \in Live(kv) : (\A j \in 1 .. Len(batch) : batch[j].rid # s) => kv'.states[s] = kv.states[s]
  BY <1>2 DEF CommittedTo
<1> DEFINE S == {s \in Live(kv) : InBatch(batch, s)}
<1>4. S # {}
  <2>1. batch # <<>>
    BY Zenon DEF CommitBatch
  <2>2. 1 \in 1 .. Len(batch)
    BY <1>1, <2>1
  <2> QED BY <1>1, <2>2 DEF BatchOK, InBatch
<1>5. DOMAIN Gathered = Live(kv) /\ DOMAIN Gathered' = Live(kv)
  BY <1>3, GatheredIs DEF Private
<1>6. ASSUME NEW s \in Live(kv) \ S PROVE Gathered'[s] = Gathered[s]
  <2>1. kv'.states[s] = kv.states[s]
    BY <1>3, <1>6 DEF InBatch
  <2> QED BY <1>3, <2>1, GatheredIs DEF Private
<1>7. ASSUME NEW s \in S
      PROVE  /\ Abstract!IsStrictPrefix(Gathered[s].tokens, Gathered'[s].tokens)
             /\ Gathered'[s] = Abstract!Entry(Gathered'[s].tokens, Gathered[s].salt)
  <2>1. /\ Gathered[s].tokens = kv.states[s].tokens /\ Gathered[s].salt = kv.states[s].salt
        /\ Gathered'[s].tokens = kv'.states[s].tokens
        /\ Gathered'[s] = Abstract!Entry(kv'.states[s].tokens, kv.states[s].salt)
    <3>1. s \in Live(kv) /\ kv'.states[s].salt = kv.states[s].salt
      BY <1>3, <1>7
    <3>2. /\ Gathered[s] = Abstract!Entry(kv.states[s].tokens, kv.states[s].salt)
          /\ Gathered'[s] = Abstract!Entry(kv'.states[s].tokens, kv'.states[s].salt)
      BY <1>3, <3>1, GatheredIs DEF Private
    <3>3. /\ Gathered[s].tokens = kv.states[s].tokens /\ Gathered[s].salt = kv.states[s].salt
          /\ Gathered'[s].tokens = kv'.states[s].tokens
      BY <3>2 DEF Abstract!Entry
    <3> QED BY <3>1, <3>2, <3>3
  <2>2. PICK j \in 1 .. Len(batch) : batch[j].rid = s
    BY <1>7 DEF InBatch
  <2> DEFINE old == kv.states[s].tokens
             new == batch[j].tokens
             a == accepted[j]
             next == kv'.states[s].tokens
  <2>3. old \in Seq(Tokens) /\ new \in Seq(Tokens) /\ a \in 1 .. Len(new)
    BY <1>1, <1>2, <1>7 DEF TablesOK, StatesOK, StateType, BatchOK, AcceptedOK
  <2>4. next = Extended(old, SubSeq(new, 1, a))
    BY <1>3, <2>2 DEF Accepted
  <2> HIDE DEF old, new, a, next
  <2>5. a \in 0 .. Len(new) /\ a >= 1 /\ Len(old) \in Nat
    BY <2>3
  <2>6. next \in Seq(Tokens) /\ Len(next) = Len(old) + a
    BY <2>3, <2>4, <2>5, FewerNew
  <2>7. SubSeq(next, 1, Len(old)) = SubSeq(old, 1, Len(old))
    <3>1. SubSeq(new, 1, a) \in Seq(Tokens)
      BY <2>3, <2>5, PrefixFacts
    <3>2. Len(old) \in 0 .. Len(old)
      BY <2>5
    <3> QED BY <2>3, <2>4, <3>1, <3>2, PrefixOfConcat DEF Extended
  <2>8. Abstract!IsStrictPrefix(old, next)
    BY <2>5, <2>6, <2>7 DEF Abstract!IsStrictPrefix, Abstract!IsPrefix
  <2> QED BY <2>1, <2>8 DEF old, next
<1> HIDE DEF S
<1>8. Abstract!Extend(S)
  BY <1>5, <1>6, <1>7 DEF Abstract!Extend, S
<1>9. S \in (SUBSET DOMAIN Gathered) \ {{}}
  BY <1>4, <1>5 DEF S
<1> QED BY <1>8, <1>9

\* Paging, prefix sharing, copy-on-write, eviction, commits of a prefix of what
\* was written and forwards that raise are invisible: the cache behaves as if
\* every request had its keys and values for itself.
THEOREM CacheRefinement == Spec => ImplementsKVStore
<1>1. Init => Abstract!Init
  <2> SUFFICES ASSUME Init PROVE Abstract!Init
    OBVIOUS
  <2>1. Live(kv) = {}
    BY DEF Init, EmptyKV, Live
  <2> QED BY <2>1 DEF Gathered, Abstract!Init
<1>2. IInv /\ IInv' /\ [Next]_vars => [Abstract!Next]_Gathered
  <2> SUFFICES ASSUME IInv, IInv', [Next]_vars PROVE Abstract!Next \/ Gathered' = Gathered
    OBVIOUS
  <2>1. TablesOK(kv, Tokens, Salts) /\ Gathered = Private(kv) /\ Gathered' = Private(kv')
    BY GatheredIs DEF IInv
  <2>2. CASE \E r \in Requests, tokens \in Prompts, salt \in Salts : Attach(r, tokens, salt)
    BY <2>2, AttachStarts DEF Abstract!Next
  <2>3. CASE \E r \in Requests, end \in 1 .. MaxModelLen : Reserve(r, end)
    <3>1. PICK r \in Requests, end \in 1 .. MaxModelLen : Reserve(r, end)
      BY <2>3
    <3>2. /\ r \in Live(kv) /\ end \in Nat /\ CanReserve(kv, r, end)
          /\ kv' = Reserved(kv, r, end)
      BY <3>1, PoolFitsContext DEF Reserve
    <3>3. /\ Live(kv') = Live(kv)
          /\ \A s \in Live(kv) \ {r} : kv'.states[s] = kv.states[s]
          /\ kv'.states[r].tokens = kv.states[r].tokens /\ kv'.states[r].salt = kv.states[r].salt
      BY <2>1, <3>2, ReservedOK
    <3> QED BY <2>1, <3>3, Invisible
  <2>4. CASE \E r \in Requests, end \in 1 .. MaxModelLen, done \in SUBSET Storages : ReserveRaises(r, end, done)
    <3>1. PICK r \in Requests, end \in 1 .. MaxModelLen, done \in SUBSET Storages : ReserveRaises(r, end, done)
      BY <2>4
    <3>2. /\ r \in Live(kv) /\ end \in Nat /\ CanReserve(kv, r, end)
          /\ kv' = ReservationUndone(kv, r, end)
      BY <3>1, PoolFitsContext DEF ReserveRaises
    <3>3. kv'.states = kv.states
      BY <2>1, <3>2, UndoneOK
    <3> QED BY <2>1, <3>3, Invisible DEF Live
  <2>5. CASE \E source, target \in Requests : Fork(source, target)
    BY <2>5, ForkCopies DEF Abstract!Next
  <2>6. CASE \E r \in Requests : Trim(r)
    <3>1. PICK r \in Requests : Trim(r)
      BY <2>6
    <3>2. r \in Live(kv) /\ kv' = Trimmed(kv, r)
      BY <3>1 DEF Trim
    <3>3. /\ Live(kv') = Live(kv)
          /\ \A s \in Live(kv) \ {r} : kv'.states[s] = kv.states[s]
          /\ SameTokens(kv'.states[r], kv.states[r])
      BY <2>1, <3>2, TrimmedOK
    <3> QED BY <2>1, <3>3, Invisible DEF SameTokens
  <2>7. CASE \E r \in Requests : Release(r)
    BY <2>7, ReleaseDrops DEF Abstract!Next
  <2>8. CASE ClearPrefixCache
    <3>1. kv' = [kv EXCEPT !.pool = Cleared(kv.pool)] /\ kv = [pool |-> kv.pool, states |-> kv.states]
      BY <2>1, <2>8 DEF ClearPrefixCache, TablesOK, StatesOK
    <3>2. kv'.states = kv.states
      BY <3>1
    <3> QED BY <2>1, <3>2, Invisible DEF Live
  <2>9. CASE \E r \in Requests, n \in 1 .. MaxSlice : \E new \in [1 .. n -> Tokens] : Forward(r, new)
    <3>0. PICK r \in Requests, n \in 1 .. MaxSlice : \E new \in [1 .. n -> Tokens] : Forward(r, new)
      BY <2>9
    <3>1. PICK new \in [1 .. n -> Tokens] : Forward(r, new)
      BY <3>0
    <3>2. /\ Live(kv') = Live(kv)
          /\ \A s \in Live(kv) \ {r} : kv'.states[s] = kv.states[s]
          /\ kv'.states[r].tokens = kv.states[r].tokens /\ kv'.states[r].salt = kv.states[r].salt
      BY <3>1, ForwardFacts
    <3> QED BY <2>1, <3>2, Invisible
  <2>10. CASE \E accepted \in [1 .. Len(batch) -> 1 .. MaxSlice] : CommitBatch(accepted)
    BY <2>10, CommitExtends DEF Abstract!Next
  <2>11. CASE ForwardRaises
    BY <2>1, <2>11 DEF ForwardRaises
  <2>12. CASE UNCHANGED vars
    BY <2>1, <2>12 DEF vars
  <2> QED BY <2>2, <2>3, <2>4, <2>5, <2>6, <2>7, <2>8, <2>9, <2>10, <2>11, <2>12 DEF Next
<1> QED BY <1>1, <1>2, Invariance, PTL DEF Spec, ImplementsKVStore, Abstract!Spec

=============================================================================
