---------------------------- MODULE PackedForward ----------------------------
(***************************************************************************)
(* One packed forward of the inference engine: the slices of a batch are   *)
(* laid end to end (execution/batch.py), keys and values go to the slots   *)
(* their page tables give, every token attends to its own request through  *)
(* one of the attention paths (kernels/attention.py, modeling/qwen2/       *)
(* layers.py, memory/contiguous.py), and the rows of logits go back to     *)
(* their requests (execution/qwen2.py). Rows and positions count from 0.   *)
(* An attempt is one batch.                                                *)
(***************************************************************************)
EXTENDS OnlineSoftmax

CONSTANTS Requests,      (* bound: requests of a batch                      *)
          StartPositions, SliceLengths,
          ScoreOf,       (* score of a key by its position, one of a few    *)
          BlockSize,
          PrefillTile, PrefillKeys, DecodeKeys,   (* PREFILL_TILE, BN, 64   *)
          DecodePartition, LongContext            (* 256, 1024              *)

VARIABLE attempt

\* Prompt chunks and decodes; of those that sample, some return every row.
Items ==
  {[start |-> s, length |-> n, sample |-> w # "none", all |-> w = "all"] :
     s \in StartPositions, n \in SliceLengths, w \in {"none", "last", "all"}}

Attempts ==
  UNION {[items : [0 .. n - 1 -> Items], score : ScoreOf] : n \in 1 .. Requests}

Rows(c) == DOMAIN c.items
Below(n) == 0 .. n - 1
CeilDiv(a, b) == (a + b - 1) \div b

-----------------------------------------------------------------------------
(* ModelBatch.build and AttentionMetadata.build.                           *)

Context(c, row) == c.items[row].start + c.items[row].length
MaxContext(c) == Max({Context(c, row) : row \in Rows(c)})

\* Where a row starts in the packed buffer.
Starts(c, row) == FoldFunction(+, 0, [r \in Below(row) |-> c.items[r].length])
Packed(c) == Below(Starts(c, Cardinality(Rows(c))))

SequenceId(c, t) == CHOOSE row \in Rows(c) : Starts(c, row) <= t /\ t < Starts(c, row) + c.items[row].length
QueryOffset(c, t) == t - Starts(c, SequenceId(c, t))
Position(c, t) == c.items[SequenceId(c, t)].start + QueryOffset(c, t)

-----------------------------------------------------------------------------
(* KVCacheManager.batch. The pages of the rows interleave, and page 0,     *)
(* which pads the shorter tables, is one of them.                          *)

Width(c) == CeilDiv(MaxContext(c), BlockSize)

Tables(c) ==
  [row \in Rows(c) |-> [b \in Below(Width(c)) |->
     IF b < CeilDiv(Context(c, row), BlockSize) THEN b * Requests + (Requests - 1 - row) ELSE 0]]

Slot(c, row, n) == Tables(c)[row][n \div BlockSize] * BlockSize + (n % BlockSize)

\* What a slot holds after the writes of this batch: the key of a row and position.
KeyAt(c, slot) ==
  LET old == {x \in Rows(c) \X Below(MaxContext(c)) : x[2] < c.items[x[1]].start}
      written == {t \in Packed(c) : Slot(c, SequenceId(c, t), Position(c, t)) = slot}
  IN  IF written = {} THEN CHOOSE x \in old : Slot(c, x[1], x[2]) = slot
      ELSE LET t == CHOOSE t \in written : TRUE IN <<SequenceId(c, t), Position(c, t)>>

\* The scores of a tile of keys of a row: those of the slots it loads.
Scored(c, row, keys) == [x \in {KeyAt(c, Slot(c, row, n)) : n \in keys} |-> c.score[x[2]]]

-----------------------------------------------------------------------------
(* The attention paths, for one packed token. Keys past a mask have no     *)
(* weight, and are left out of their tile.                                 *)

\* The tiles of keys from one position to before another.
Blocks(from, to, size) ==
  [i \in 1 .. CeilDiv(to - from, size) |-> from + (i - 1) * size .. from + i * size - 1]

\* Mutation: the tile's last query is taken for each of its queries.
PrefillOfTile(c, t) ==
  LET row == SequenceId(c, t)
      tile == (QueryOffset(c, t) \div PrefillTile) * PrefillTile
      limit == Min({Context(c, row), c.items[row].start + tile + PrefillTile})
  IN  Streamed([i \in 1 .. CeilDiv(limit, PrefillKeys) |->
        Scored(c, row, {n \in Blocks(0, limit, PrefillKeys)[i] : n < limit})])

\* _prefill: queries in tiles, keys up to the end of the tile, masked per query.
Prefill(c, t) ==
  LET row == SequenceId(c, t)
      tile == (QueryOffset(c, t) \div PrefillTile) * PrefillTile
      limit == Min({Context(c, row), c.items[row].start + tile + PrefillTile})
  IN  Streamed([i \in 1 .. CeilDiv(limit, PrefillKeys) |->
        Scored(c, row, {n \in Blocks(0, limit, PrefillKeys)[i] : n <= Position(c, t) /\ n < Context(c, row)})])

PowerOfTwo(n) == Min({2 ^ k : k \in {k \in 0 .. n : 2 ^ k >= n}})

\* One partition per program, by the longest context of the decodes.
Decodes(c) == {row \in Rows(c) : c.items[row].length = 1}
Partition(c) ==
  LET longest == Max({Context(c, row) : row \in Decodes(c)})
  IN  IF longest >= LongContext THEN DecodePartition ELSE PowerOfTwo(longest)

\* _decode: the keys of one partition.
DecodePart(c, row, part) ==
  LET end == Min({Context(c, row), (part + 1) * Partition(c)})
  IN  Streamed([i \in 1 .. Max({0, CeilDiv(end - part * Partition(c), DecodeKeys)}) |->
        Scored(c, row, {n \in Blocks(part * Partition(c), end, DecodeKeys)[i] : n < Context(c, row)})])

\* _merge: partial results weighted by their logsumexp.
Merged(parts) ==
  LET m == Max({parts[i].m : i \in DOMAIN parts})
      keys == UNION {DOMAIN parts[i].o : i \in DOMAIN parts}
      weight(i) == Exp(parts[i].m - m)
  IN  [m |-> m, l |-> FoldFunction(+, 0, [i \in DOMAIN parts |-> Scaled(weight(i), parts[i].l)]),
       o |-> [x \in keys |-> FoldFunction(+, 0, [i \in DOMAIN parts |-> Scaled(weight(i), Load(parts[i].o, x))])]]

Decode(c, t) ==
  LET longest == Max({Context(c, row) : row \in Decodes(c)})
  IN  Merged([part \in Below(CeilDiv(longest, Partition(c))) |-> DecodePart(c, SequenceId(c, t), part)])

\* paged_attention: rows of one token decode, the others prefill.
Triton(c, t) == IF SequenceId(c, t) \in Decodes(c) THEN Decode(c, t) ELSE Prefill(c, t)

\* The dense mask over all rows and the longest context.
Unmasked(c, t) ==
  LET row == SequenceId(c, t)
  IN  {n \in Below(MaxContext(c)) : n <= c.items[row].start + QueryOffset(c, t) /\ n < Context(c, row)}

\* PagedBatch.update and the eager attention: gathered through the tables.
Eager(c, t) == Online(NoKeys, Scored(c, SequenceId(c, t), Unmasked(c, t)))

\* update_layer: a row's old keys are copied, its new ones put at their positions.
Contiguous(c, t) ==
  LET row == SequenceId(c, t)
      new == {u \in Packed(c) : SequenceId(c, u) = row}
      keys == Below(c.items[row].start) \cup {Position(c, u) : u \in new}
  IN  Online(NoKeys, [x \in {<<row, n>> : n \in keys \cap Unmasked(c, t)} |-> c.score[x[2]]])

-----------------------------------------------------------------------------
(* Qwen2Runner.execute: which packed tokens logits are computed for, and   *)
(* which of these rows a request is handed.                                *)

Consecutive(from, n) == [i \in 1 .. n |-> from + i - 1]
Sampling(c) == SelectSeq(Consecutive(0, Cardinality(Rows(c))), LAMBDA row : c.items[row].sample)
Count(c, row) == IF c.items[row].all THEN c.items[row].length ELSE 1

SampleIndices(c) ==
  FlattenSeq([i \in 1 .. Len(Sampling(c)) |->
    LET row == Sampling(c)[i]
    IN  Consecutive(Starts(c, row) + c.items[row].length - Count(c, row), Count(c, row))])

\* The slice of the logits rows a request gets.
Handed(c, i) ==
  LET offset == FoldLeft(LAMBDA sum, row : sum + Count(c, row), 0, SubSeq(Sampling(c), 1, i - 1))
  IN  SubSeq(SampleIndices(c), offset + 1, offset + Count(c, Sampling(c)[i]))

-----------------------------------------------------------------------------
Init == attempt \in Attempts
Next == UNCHANGED attempt
Spec == Init /\ [][Next]_attempt

-----------------------------------------------------------------------------
\* Whatever it is batched with, a token attends to the tokens of its own request
\* up to itself and to nothing else, with the same weights on every path; and a
\* request is handed the logits of its own last token, or of all its tokens.
BatchingIsInvisible ==
  LET c == attempt
  IN  /\ \A t \in Packed(c) :
           LET own == [x \in {<<SequenceId(c, t), n>> : n \in 0 .. Position(c, t)} |-> c.score[x[2]]]
           IN  Holds(Triton(c, t), own) /\ Holds(Eager(c, t), own) /\ Holds(Contiguous(c, t), own)
      /\ \A i \in 1 .. Len(Sampling(c)) :
           LET item == c.items[Sampling(c)[i]]
               rows == Handed(c, i)
           IN  /\ \A k \in 1 .. Len(rows) : SequenceId(c, rows[k]) = Sampling(c)[i]
               /\ [k \in 1 .. Len(rows) |-> QueryOffset(c, rows[k])]
                    = (IF item.all THEN Consecutive(0, item.length) ELSE <<item.length - 1>>)

=============================================================================
