---------------------------- MODULE FlashAttention ----------------------------
(***************************************************************************)
(* The tiled attention kernels (modeling/flash_attention.py), for a head   *)
(* dimension of one. Values, and the queries and keys gradients are made   *)
(* of, stay symbolic: a sum over them is its coefficients. An attempt is   *)
(* one call: its sizes, tiles and inputs.                                  *)
(***************************************************************************)
EXTENDS OnlineSoftmax

CONSTANTS Lengths,     (* of queries and of keys                            *)
          Tiles,       (* tile sizes asked for                              *)
          MinTile,     (* 16, the smallest tile of the Triton kernels       *)
          Features     (* entries of Q and K                                *)

VARIABLE attempt

MaskBias == -1000      (* far below Spread *)

CeilDiv(a, b) == (a + b - 1) \div b

Attempts ==
  UNION {[q : [0 .. n - 1 -> Features], k : [0 .. m - 1 -> Features], causal : BOOLEAN,
          qTile : Tiles, kTile : Tiles] : n \in Lengths, m \in Lengths}

NumQueries(c) == Cardinality(DOMAIN c.q)
NumKeys(c) == Cardinality(DOMAIN c.k)

\* The score of a query and a key with the additive mask; padding loads as zero.
Score(c, i, j) ==
  Load(c.q, i) * Load(c.k, j) + (IF c.causal /\ i < j THEN MaskBias ELSE 0)

-----------------------------------------------------------------------------
(* The PyTorch version: the last tile of keys is cut short.                *)

ForwardPyTorch(c, i) ==
  Streamed([t \in 1 .. CeilDiv(NumKeys(c), c.kTile) |->
    [j \in (t - 1) * c.kTile .. Min({t * c.kTile, NumKeys(c)}) - 1 |-> Score(c, i, j)]])

\* flash_backward_pytorch: the probabilities, recomputed from the saved logsumexp.
BackwardPyTorch(c, i, j) == Exp(Score(c, i, j) - ForwardPyTorch(c, i).m)

-----------------------------------------------------------------------------
(* The Triton kernels: whole tiles, padded with zeros where they leave the *)
(* tensors, and only tiles that are not masked altogether.                 *)

\* _resolve_tile_sizes: the tiles in use, and whether it raises.
QTile(c) == Max({MinTile, Min({c.qTile, NumQueries(c)})})
KTile(c) == Max({MinTile, Min({c.kTile, NumKeys(c)})})
Accepted(c) == NumKeys(c) % KTile(c) = 0
AcceptedBackward(c) == Accepted(c) /\ NumQueries(c) % QTile(c) = 0

Tile(t, size) == t * size .. (t + 1) * size - 1

\* Mutation: as many tiles of keys as tiles of queries.
KeyTilesByIndex(c, i) ==
  IF c.causal THEN Min({CeilDiv(NumKeys(c), KTile(c)), (i \div QTile(c)) + 1})
  ELSE CeilDiv(NumKeys(c), KTile(c))

\* n_key_tiles for the tile of query i.
KeyTiles(c, i) ==
  LET all == CeilDiv(NumKeys(c), KTile(c))
  IN  IF c.causal THEN Min({all, CeilDiv(((i \div QTile(c)) + 1) * QTile(c), KTile(c))}) ELSE all

\* flash_fwd_kernel.
ForwardTriton(c, i) ==
  Streamed([t \in 1 .. KeyTiles(c, i) |-> [j \in Tile(t - 1, KTile(c)) |-> Score(c, i, j)]])

\* exp(score - lse) recomputed from the saved logsumexp; both are zero for padding.
Probability(c, i, j) ==
  IF i \in DOMAIN c.q THEN Exp(Score(c, i, j) - ForwardTriton(c, i).m) ELSE Exp(Score(c, i, j))

FirstQueryTile(c, j) ==
  IF c.causal THEN ((j \div KTile(c)) * KTile(c)) \div QTile(c) ELSE 0

\* flash_bwd_dkdv_kernel: the queries a key is given gradients by, with their weights.
DKeyValue(c, j) ==
  LET last == CeilDiv(NumQueries(c), QTile(c)) - 1
      rows == UNION {Tile(t, QTile(c)) : t \in FirstQueryTile(c, j) .. last}
  IN  [i \in rows \cap DOMAIN c.q |-> Probability(c, i, j)]

\* flash_bwd_dq_kernel: the keys a query is given a gradient by.
DQuery(c, i) ==
  LET columns == UNION {Tile(t, KTile(c)) : t \in 0 .. KeyTiles(c, i) - 1}
  IN  [j \in columns \cap DOMAIN c.k |-> Probability(c, i, j)]

-----------------------------------------------------------------------------
Init == attempt \in Attempts
Next == UNCHANGED attempt
Spec == Init /\ [][Next]_attempt

-----------------------------------------------------------------------------
\* What a query attends to by definition: the keys, those before it if causal.
Scores(c, i) == [j \in {k \in DOMAIN c.k : c.causal => i >= k} |-> c.q[i] * c.k[j]]

\* Whatever the sizes, the tiles and the order the maximum grows in, a query
\* attends to the keys before it exactly as if no tile had been cut, padded or
\* skipped, and each gradient is summed over the same pairs with the same weights.
TilesMatchAttention ==
  LET c == attempt
  IN  \A i \in DOMAIN c.q :
        LET weight == Softmax(Scores(c, i))
        IN  /\ Holds(ForwardPyTorch(c, i), Scores(c, i))
            /\ \A j \in DOMAIN c.k : BackwardPyTorch(c, i, j) = Load(weight, j)
            /\ Accepted(c) => Holds(ForwardTriton(c, i), Scores(c, i))
            /\ AcceptedBackward(c) =>
                 \A j \in DOMAIN c.k : /\ Load(DQuery(c, i), j) = Load(weight, j)
                                       /\ Load(DKeyValue(c, j), i) = Load(weight, j)

=============================================================================
