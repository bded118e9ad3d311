--------------------------- MODULE TrainingKernels ---------------------------
(***************************************************************************)
(* The fused kernels of the trained model (modeling/cuda_kernels.py) next  *)
(* to the explicit PyTorch equations they stand in for: tiled cross        *)
(* entropy, the top-1 experts, and the row and rotation kernels with their *)
(* backward passes. An attempt is one call.                                *)
(***************************************************************************)
EXTENDS OnlineSoftmax

CONSTANTS Rows,        (* token rows of a call                               *)
          Vocabulary,
          VocabularyTile,
          Logits,
          Tokens,      (* routed to experts                                  *)
          Experts,
          BlockM,      (* rows of an expert tile                             *)
          Values       (* entries of the row kernels                         *)

VARIABLE attempt

Ignored == -100
Width == 2             (* columns of a row kernel: one rotated pair          *)

Below(n) == 0 .. n - 1
CeilDiv(a, b) == (a + b - 1) \div b
SumOver(f(_), S) == FoldSet(LAMBDA x, sum : sum + f(x), 0, S)

LossAttempts ==
  [kind : {"loss"}, logits : [Below(Rows) -> [Below(Vocabulary) -> Logits]],
   targets : [Below(Rows) -> Below(Vocabulary) \cup {Ignored}]]

\* argsort(routes), which is not stable: any order in which the routes rise.
ExpertAttempts ==
  UNION {[kind : {"experts"}, routes : {r},
          order : {o \in [Below(Tokens) -> Below(Tokens)] :
                     \A i, j \in Below(Tokens) : i < j => o[i] # o[j] /\ r[o[i]] <= r[o[j]]}] :
         r \in [Below(Tokens) -> Below(Experts)]}

\* The input, upstream gradient and weight of a row, and its position.
RowAttempts ==
  [kind : {"row"}, x : [Below(Width) -> Values], dy : [Below(Width) -> Values],
   w : [Below(Width) -> Values], position : {0, 1}]

-----------------------------------------------------------------------------
(* Tiled cross entropy. The loss maximum + log(normalizer) - target logit  *)
(* is the pair <<maximum - target logit, normalizer>>; zero is NoLoss.     *)

NoLoss == <<0, Exp(0)>>

\* Mutation: the last tile is left out when it is not full.
TilesOfFullWidth(size, tile) == Max({1, size \div tile})

\* Tiles of a vocabulary.
TileCount(size, tile) == CeilDiv(size, tile)

Columns(tile) == {v \in Below(Vocabulary) : v \div VocabularyTile = tile}

\* _cross_entropy_partial_stats_kernel.
PartialStats(logits, tile) ==
  LET m == Max({logits[v] : v \in Columns(tile)})
  IN  [m |-> m, l |-> SumOver(LAMBDA v : Exp(logits[v] - m), Columns(tile))]

\* _cross_entropy_reduce_tiles_kernel: the statistics of a row.
RowStats(logits) ==
  LET tiles == Below(TileCount(Vocabulary, VocabularyTile))
      m == Max({PartialStats(logits, t).m : t \in tiles})
  IN  [m |-> m, l |-> SumOver(LAMBDA t : Scaled(PartialStats(logits, t).l, Exp(PartialStats(logits, t).m - m)), tiles)]

RowLoss(logits, target) ==
  LET safeTarget == IF target = Ignored THEN 0 ELSE target
      stats == RowStats(logits)
  IN  IF target = Ignored THEN NoLoss ELSE <<stats.m - logits[safeTarget], stats.l>>

\* _cross_entropy_tiled_backward_kernel, times the normalizer.
RowGradient(logits, target, v) ==
  LET safeTarget == IF target = Ignored THEN 0 ELSE target
      stats == RowStats(logits)
  IN  IF target = Ignored THEN 0
      ELSE Exp(logits[v] - stats.m) - (IF v = safeTarget THEN stats.l ELSE 0)

Valid(c) == {r \in Below(Rows) : c.targets[r] # Ignored}

\* fused_cross_entropy: the sum of the rows over the labels that count.
Fused(c) ==
  [losses |-> [r \in IF Valid(c) = {} THEN {} ELSE Below(Rows) |-> RowLoss(c.logits[r], c.targets[r])],
   count |-> Cardinality(Valid(c))]

\* torch_cross_entropy: the mean over the selected rows.
Torch(c) ==
  [losses |-> [r \in Valid(c) |->
     LET m == Max(Range(c.logits[r]))
     IN  <<m - c.logits[r][c.targets[r]], SumOver(LAMBDA v : Exp(c.logits[r][v] - m), Below(Vocabulary))>>],
   count |-> Cardinality(Valid(c))]

-----------------------------------------------------------------------------
(* Top-1 experts over compact rows: row p holds token order[p].            *)

\* expert_offsets, from the counts of the routes.
Offset(c, expert) == Cardinality({t \in Below(Tokens) : c.routes[t] < expert})

\* build_variable_m_schedule.
TilesPerExpert(c, expert) == CeilDiv(Offset(c, expert + 1) - Offset(c, expert), BlockM)
FirstTile(c, expert) == SumOver(LAMBDA e : TilesPerExpert(c, e), Below(expert))
MTiles(c) == Below(FirstTile(c, Experts))

TileExpert(c, tile) ==
  CHOOSE e \in Below(Experts) :
    FirstTile(c, e) <= tile /\ tile < FirstTile(c, e) + TilesPerExpert(c, e)

\* Mutation: tiles are counted from the first expert on.
TileRowFromZero(c, tile) == Offset(c, TileExpert(c, tile)) + tile * BlockM

TileRow(c, tile) ==
  LET e == TileExpert(c, tile)
  IN  Offset(c, e) + (tile - FirstTile(c, e)) * BlockM

\* The row moe_top1_combine takes for a token.
CompactRow(c, token) == CHOOSE p \in Below(Tokens) : c.order[p] = token

\* _variable_grouped_gemm_forward_kernel: the tiles that store row p.
StoredBy(c, p) ==
  {tile \in MTiles(c) : p - TileRow(c, tile) \in Below(BlockM) /\ p < Offset(c, TileExpert(c, tile) + 1)}

\* moe_top1_dispatch, the grouped GEMM and moe_top1_combine: the products <<expert,
\* token>> stored for a token.
Products(c, token) ==
  {<<TileExpert(c, tile), c.order[p]>> : tile \in StoredBy(c, CompactRow(c, token)), p \in {CompactRow(c, token)}}

\* backward: the rows the gradients of an expert are made of.
BackwardRows(c, expert) == Offset(c, expert) .. Offset(c, expert + 1) - 1

-----------------------------------------------------------------------------
(* Row kernels, with the inverse RMS r as any number.                      *)

InverseRms == 3

Dot(f, g) == SumOver(LAMBDA j : f[j] * g[j], DOMAIN f)

\* _rmsnorm_input_backward_kernel, times the width.
RmsNormBackward(c) ==
  LET scaled == [j \in Below(Width) |-> c.dy[j] * c.w[j]]
  IN  [j \in Below(Width) |-> InverseRms * (Width * scaled[j] - c.x[j] * InverseRms * InverseRms * Dot(scaled, c.x))]

\* _softmax_backward_kernel of probabilities p / |p|, times |p|^2.
SoftmaxBackward(p, dy) ==
  LET all == SumOver(LAMBDA j : p[j], DOMAIN p)
  IN  [j \in DOMAIN p |-> p[j] * (all * dy[j] - Dot(p, dy))]

Cosine(position) == 2 + position
Sine(position) == 5 * position

\* _rope_forward_kernel.
Rotated(x, position) ==
  [j \in Below(Width) |-> IF j = 0 THEN x[0] * Cosine(position) - x[1] * Sine(position)
                                   ELSE x[0] * Sine(position) + x[1] * Cosine(position)]

\* Mutation: the gradient is rotated forward again.
RotatedAgain(dy, position) == Rotated(dy, position)

\* _rope_backward_kernel.
RotatedBack(dy, position) ==
  [j \in Below(Width) |-> IF j = 0 THEN dy[0] * Cosine(position) + dy[1] * Sine(position)
                                   ELSE dy[1] * Cosine(position) - dy[0] * Sine(position)]

-----------------------------------------------------------------------------
Init == attempt \in LossAttempts \cup ExpertAttempts \cup RowAttempts
Next == UNCHANGED attempt
Spec == Init /\ [][Next]_attempt

-----------------------------------------------------------------------------
\* The switch use_cuda_kernels changes no loss and no gradient: the tiles of a
\* vocabulary add up to its softmax and ignored labels to nothing; every token is
\* computed once, by the expert it was routed to, whose gradient it is part of;
\* and each backward kernel is the transposed derivative of its forward one.
KernelsMatchEquations ==
  LET c == attempt
      jacobian(x, r) == [i \in Below(Width) |-> [j \in Below(Width) |->
                              c.w[i] * ((IF i = j THEN Width * r ELSE 0) - x[i] * x[j] * r * r * r)]]
  IN  /\ c.kind = "loss" =>
           /\ \A r \in Valid(c) : Fused(c).losses[r] = Torch(c).losses[r]
           /\ \A r \in DOMAIN Fused(c).losses \ Valid(c) : Fused(c).losses[r] = NoLoss
           /\ \A r \in Below(Rows), v \in Below(Vocabulary) :
                RowGradient(c.logits[r], c.targets[r], v) =
                  IF r \notin Valid(c) THEN 0
                  ELSE LET weight == Softmax(c.logits[r])
                       IN  weight[v] - (IF v = c.targets[r] THEN FoldFunction(+, 0, weight) ELSE 0)
      /\ c.kind = "experts" =>
           /\ \A t \in Below(Tokens) : Products(c, t) = {<<c.routes[t], t>>}
           /\ \A p \in Below(Tokens) : Cardinality(StoredBy(c, p)) = 1
           /\ \A e \in Below(Experts) :
                {c.order[p] : p \in BackwardRows(c, e)} = {t \in Below(Tokens) : c.routes[t] = e}
      /\ c.kind = "row" =>
           /\ \A j \in Below(Width) :
                RmsNormBackward(c)[j] =
                  SumOver(LAMBDA i : c.dy[i] * jacobian(c.x, InverseRms)[i][j], Below(Width))
           /\ \A j \in Below(Width) :
                SoftmaxBackward(c.w, c.dy)[j] =
                  SumOver(LAMBDA i : c.dy[i] * c.w[i] * ((IF i = j THEN c.w[0] + c.w[1] ELSE 0) - c.w[j]), Below(Width))
           /\ Dot(Rotated(c.x, c.position), c.dy) = Dot(c.x, RotatedBack(c.dy, c.position))

=============================================================================
