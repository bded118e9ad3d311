---------------------------- MODULE ModelParallel ----------------------------
(***************************************************************************)
(* One update of a Transformer block split over a grid of ranks: tensor    *)
(* parallel attention and feed-forward (tensor_parallel.py), Top-1 experts *)
(* spread over ranks with all-to-all exchanges (expert_parallel.py), and   *)
(* both at once (tensor_expert_parallel.py), on the groups of common.py.   *)
(*                                                                         *)
(* Every rank works through the same stages. A stage that communicates is  *)
(* carried out by all the members of its group together, when each has     *)
(* reached it and their calls agree; one that does not has a group of one. *)
(* Values are tracked by where they come from: a token's output is the set *)
(* of <<data rank, token, expert, slice>> summed into it.                  *)
(***************************************************************************)
EXTENDS Collectives, ShardLayout, SequencesExt

CONSTANTS Grids,        (* the <<wrapper, tp_size, ep_size>> a job may use  *)
          Tokens,       (* number of tokens in a micro-batch                *)
          LocalExperts  (* experts per expert rank                          *)

VARIABLES wrapper, tp, ep,   (* the job's configuration                     *)
          routes,            (* data rank -> (token -> expert): the argmax  *)
          local              (* rank -> its state                           *)

vars == <<wrapper, tp, ep, routes, local>>

Ranks == 0 .. tp * ep - 1
Slices == 0 .. tp - 1
Data == 0 .. ep - 1
Experts == 0 .. ep * LocalExperts - 1

\* data_rank: the ranks of a tensor parallel group read the same tokens.
DataOf(rank) == EpRank(rank, tp)

TpGroupOf(rank) == TpGroup(EpRank(rank, tp), tp)
EpGroupOf(rank) == EpGroup(TpRank(rank, tp), tp, ep)

\* The gradients of a rank: per class of parameters, how much of what each data
\* rank and slice contributed they hold, in ep-ths.
Classes == {"ffn_norm", "attention_norm", "qk_norm", "attention", "ffn", "expert"}
NoGrads == [class \in Classes |-> [from \in Data \X Slices |-> 0]]

-----------------------------------------------------------------------------
(* The stages: construction, forward, backward, synchronization, clipping, *)
(* and the gathers of full_state_dict.                                     *)

\* Every process creates every group, in the same order.
NewGroups ==
  IF wrapper # "tp_ep" THEN <<>>
  ELSE [k \in 1 .. ep + tp |-> <<"new_group", k>>]

Dense == <<"ffn">>
Sparse == <<"counts", "inputs", "metadata", "experts", "outputs">>
DenseBack == <<"ffn_grad">>
SparseBack == <<"outputs_grad", "experts_grad", "inputs_grad">>

Stages ==
  LET named(ops) == [i \in 1 .. Len(ops) |-> <<ops[i], 0>>]
  IN  NewGroups
      \o named(<<"broadcast", "attention">>)
      \o named(IF wrapper = "tp" THEN Dense \o DenseBack ELSE Sparse \o SparseBack)
      \o named(<<"qk_grad", "attention_grad", "sync", "clip", "save_attention", "save_slices", "save_experts">>)

-----------------------------------------------------------------------------
(* Dispatch: sorted by owner, cut by the counts, concatenated by source.   *)

Position(seq, x) == CHOOSE i \in 1 .. Len(seq) : seq[i] = x

\* argsort of keys, as the sequence of their positions.
ArgSort(keys) ==
  SortSeq([i \in 1 .. Len(keys) |-> i], 
          LAMBDA i, j : keys[i] < keys[j] \/ (keys[i] = keys[j] /\ i < j))

ExpertOwners(r) == [i \in 1 .. Tokens |-> OwnerOf(routes[DataOf(r)][i], LocalExperts)]
SourceOrder(r) == ArgSort(ExpertOwners(r))

\* The tokens of r for one owner, in source order.
TokensFor(r, owner) == SelectSeq(SourceOrder(r), LAMBDA i : ExpertOwners(r)[i] = EpRank(owner, tp))

SendCounts(r) == [owner \in EpGroupOf(r) |-> Len(TokensFor(r, owner))]

\* What arrives from the members of a group, in rank order.
Arrivals(r, brought) ==
  FlattenSeq([k \in 1 .. Cardinality(DOMAIN brought) |->
    brought[SetToSortSeq(DOMAIN brought, LAMBDA a, b : a < b)[k]][r]])

\* The part of a sequence that belongs to peer, cut by the splits of the group.
Segment(seq, splits, peer) ==
  LET before == FoldFunctionOnSet(+, 0, splits, {p \in DOMAIN splits : p < peer})
  IN  SubSeq(seq, before + 1, before + splits[peer])

\* Mutation: what came back is taken to be in token order.
AsReturned(r, returned) == returned

\* returned[argsort(source_order)].
InTokenOrder(r, returned) == [i \in 1 .. Tokens |-> returned[Position(SourceOrder(r), i)]]

-----------------------------------------------------------------------------
(* The grouped experts of a rank: sort by local expert, give every expert  *)
(* the range its offsets say, put the rows back in the order received.     *)

\* cumsum(bincount(ids)): the expert whose range holds a row of the sorted input.
ExpertAt(ids, row) ==
  CHOOSE e \in 0 .. LocalExperts - 1 :
    /\ Cardinality({i \in 1 .. Len(ids) : ids[i] < e}) < row
    /\ row <= Cardinality({i \in 1 .. Len(ids) : ids[i] <= e})

GroupedForward(r, rows, ids) ==
  LET order   == ArgSort(ids)
      start   == EpRank(r, tp) * LocalExperts
      compact == [j \in 1 .. Len(rows) |->
                    {<<x[1], x[2], start + ExpertAt(ids, j), TpRank(r, tp)>> : x \in rows[order[j]]}]
  IN  [i \in 1 .. Len(rows) |-> compact[Position(order, i)]]

-----------------------------------------------------------------------------
(* The call a rank makes at its stage. Groups of one do not communicate.   *)

\* Mutation: a rank that received no rows does not ask for their experts.
MetadataGroupIfRows(r) == IF local[r].rows = <<>> THEN {r} ELSE EpGroupOf(r)

MetadataGroup(r) == EpGroupOf(r)

\* _local_expert_forward returns early without rows: no tensor parallel call then.
ExpertsGroup(r) == IF local[r].rows = <<>> THEN {r} ELSE TpGroupOf(r)

\* What a rank contributes to its stage.
Brings(r) ==
  LET me == local[r]
      op == Head(me.todo)[1]
      d  == DataOf(r)
      t  == TpRank(r, tp)
      own(tokens) == [k \in 1 .. Len(tokens) |-> {<<d, tokens[k]>>}]
  IN  CASE op = "counts" -> SendCounts(r)
        [] op \in {"inputs", "outputs_grad"} -> [p \in EpGroupOf(r) |-> own(TokensFor(r, p))]
        [] op = "metadata" ->
             [p \in EpGroupOf(r) |-> [k \in 1 .. me.send[p] |->
                LocalExpert(routes[d][TokensFor(r, p)[k]], LocalExperts)]]
        [] op = "experts" -> GroupedForward(r, me.rows, me.ids)
        [] op = "ffn" -> [i \in 1 .. Tokens |-> {<<d, i, 0, t>>}]
        [] op = "outputs" -> [p \in EpGroupOf(r) |-> Segment(me.rows, me.take, p)]
        [] op = "inputs_grad" -> [p \in EpGroupOf(r) |-> Segment(me.back, me.take, p)]
        [] op = "experts_grad" -> [k \in 1 .. Len(me.back) |-> {<<x[1], x[2], t>> : x \in me.back[k]}]
        [] op \in {"ffn_grad", "qk_grad", "attention_grad"} -> t
        [] op = "sync" -> me.grads
        [] op = "clip" -> me.counted
        [] OTHER -> 0

CallAt(r) ==
  LET me == local[r]
      op == Head(me.todo)[1]
  IN  CASE op \in {"new_group", "broadcast", "clip"} -> Even(Ranks, op, Head(me.todo)[2])
        [] op \in {"attention", "ffn", "ffn_grad", "qk_grad", "attention_grad", "save_attention", "save_slices"} ->
             Even(TpGroupOf(r), op, Tokens)
        [] op \in {"experts", "experts_grad"} -> Even(ExpertsGroup(r), op, Len(me.rows))
        [] op \in {"counts", "sync", "save_experts"} -> Even(EpGroupOf(r), op, ep)
        [] op \in {"inputs", "outputs_grad"} -> Exchange(EpGroupOf(r), op, me.send, me.take)
        [] op = "metadata" -> Exchange(MetadataGroup(r), op, me.send, me.take)
        [] op \in {"outputs", "inputs_grad"} -> Exchange(EpGroupOf(r), op, me.take, me.send)

-----------------------------------------------------------------------------
(* Gradients.                                                              *)

Add(grads, class, d, slices) ==
  [grads EXCEPT ![class] = [from \in Data \X Slices |->
     @[from] + IF from[1] = d THEN ep * Cardinality({s \in DOMAIN slices : slices[s] = from[2]}) ELSE 0]]

Rows(seq, test(_)) == Cardinality({k \in 1 .. Len(seq) : test(k)})

\* A row's gradient meets the row it was computed from.
ExpertGrads(r) ==
  [from \in Data \X Slices |->
     IF from[2] # TpRank(r, tp) THEN 0
     ELSE ep * Rows(local[r].back, LAMBDA k :
                  \E x \in local[r].back[k] : x[1] = from[1] /\ x \in local[r].rows[k])]

\* The gradient that reaches each token, summed over the slices it came through.
TokenGrads(r, tokens) ==
  [from \in Data \X Slices |-> ep * Rows(tokens, LAMBDA i : <<from[1], i, from[2]>> \in tokens[i])]

\* Mutation: the owner's gradient is not divided, the exchange only added it up.
SyncedUndivided(r, brought) ==
  [class \in Classes |-> [from \in Data \X Slices |->
     IF class = "expert" THEN brought[r][class][from]
     ELSE FoldFunction(+, 0, [s \in DOMAIN brought |-> brought[s][class][from]]) \div ep]]

\* finish_gradient_synchronization: nothing to do without expert parallelism.
Synced(r, brought) ==
  IF wrapper = "tp" THEN brought[r] ELSE
  [class \in Classes |-> [from \in Data \X Slices |->
     IF class = "expert" THEN brought[r][class][from] \div ep
     ELSE FoldFunction(+, 0, [s \in DOMAIN brought |-> brought[s][class][from]]) \div ep]]

\* The pieces of the whole model's gradient a rank holds.
Piece(class, r) ==
  CASE class = "expert" -> <<class, r>>
    [] class \in {"attention", "ffn"} -> <<class, TpRank(r, tp)>>
    [] OTHER -> <<class, 0>>

Held(r, grads) == {class \in Classes : \E from \in Data \X Slices : grads[class][from] # 0}

TensorIncludes(r, class) == class \in {"attention", "ffn"} \/ r = 0
ExpertIncludes(r, class) == class = "expert" \/ r = 0

\* Mutation: attention slices are counted by every expert replica.
TensorExpertIncludesSlices(r, class) ==
  \/ class \in {"expert", "attention"}
  \/ EpRank(r, tp) = 0 /\ TpRank(r, tp) = 0

TensorExpertIncludes(r, class) ==
  \/ class = "expert"
  \/ class = "attention" /\ EpRank(r, tp) = 0
  \/ EpRank(r, tp) = 0 /\ TpRank(r, tp) = 0

Includes(r, class) ==
  CASE wrapper = "tp" -> TensorIncludes(r, class)
    [] wrapper = "ep" -> ExpertIncludes(r, class)
    [] wrapper = "tp_ep" -> TensorExpertIncludes(r, class)

-----------------------------------------------------------------------------
(* What a stage leaves behind on rank r, given what the group brought.     *)

Summed(brought) ==
  LET some == CHOOSE s \in DOMAIN brought : TRUE
  IN  [k \in 1 .. Len(brought[some]) |-> UNION {brought[s][k] : s \in DOMAIN brought}]

After(r, brought) ==
  LET me   == local[r]
      op   == Head(me.todo)[1]
      d    == DataOf(r)
      next == [me EXCEPT !.todo = Tail(@)]
      own  == [s \in {r} |-> TpRank(r, tp)]
  IN  CASE op = "counts" ->
             [next EXCEPT !.send = brought[r], !.take = [s \in DOMAIN brought |-> brought[s][r]]]
        [] op = "inputs" -> [next EXCEPT !.rows = Arrivals(r, brought)]
        [] op = "metadata" -> [next EXCEPT !.ids = Arrivals(r, brought)]
        [] op = "experts" -> [next EXCEPT !.rows = Summed(brought)]
        [] op = "outputs" ->
             [next EXCEPT !.out = InTokenOrder(r, Arrivals(r, brought)),
                          !.rows = [k \in 1 .. Len(@) |-> {<<x[1], x[2]>> : x \in @[k]}]]
        [] op = "outputs_grad" ->
             [next EXCEPT !.back = Arrivals(r, brought)]
        [] op = "experts_grad" ->
             [next EXCEPT !.grads = [@ EXCEPT !["expert"] = ExpertGrads(r)],
                          !.back = Summed(brought)]
        [] op = "inputs_grad" ->
             [next EXCEPT !.grads = [@ EXCEPT !["ffn_norm"] =
                             TokenGrads(r, InTokenOrder(r, Arrivals(r, brought)))]]
        [] op = "ffn" -> [next EXCEPT !.out = Summed(brought)]
        [] op = "ffn_grad" ->
             [next EXCEPT !.grads = Add(Add(@, "ffn", d, own), "ffn_norm", d, brought)]
        [] op = "qk_grad" -> [next EXCEPT !.grads = Add(@, "qk_norm", d, brought)]
        [] op = "attention_grad" ->
             [next EXCEPT !.grads = Add(Add(@, "attention", d, own), "attention_norm", d, brought)]
        [] op = "sync" ->
             LET grads == Synced(r, brought)
             IN  [next EXCEPT !.grads = grads,
                              !.counted = {Piece(c, r) : c \in {c \in Held(r, grads) : Includes(r, c)}}]
        [] op = "clip" ->
             [next EXCEPT !.norm = [piece \in UNION {brought[s] : s \in DOMAIN brought} |->
                                      Cardinality({s \in DOMAIN brought : piece \in brought[s]})]]
        [] OTHER -> next

Init ==
  /\ \E grid \in Grids : wrapper = grid[1] /\ tp = grid[2] /\ ep = grid[3]
  /\ routes \in [Data -> [1 .. Tokens -> Experts]]
  /\ local = [r \in Ranks |->
       [todo |-> Stages, send |-> <<>>, take |-> <<>>, rows |-> <<>>, ids |-> <<>>, back |-> <<>>,
        out |-> <<>>, grads |-> NoGrads, counted |-> {}, norm |-> <<>>]]

\* A group whose members have all reached the same call carries it out.
CarryOut(group) ==
  /\ \A r \in group : local[r].todo # <<>>
  /\ LET calls == [r \in group |-> CallAt(r)]
         brought == [r \in group |-> Brings(r)]
     IN  /\ \A r \in group : calls[r].group = group
         /\ CanComplete(group, calls)
         /\ local' = [r \in Ranks |-> IF r \in group THEN After(r, brought) ELSE local[r]]
  /\ UNCHANGED <<wrapper, tp, ep, routes>>

Groups ==
  {Ranks} \cup {{r} : r \in Ranks} \cup {TpGroupOf(r) : r \in Ranks} \cup {EpGroupOf(r) : r \in Ranks}

Finished == \A r \in Ranks : local[r].todo = <<>>

Next ==
  \/ \E group \in Groups : CarryOut(group)
  \/ Finished /\ UNCHANGED vars

Spec == Init /\ [][Next]_vars

-----------------------------------------------------------------------------
At(r, op) == local[r].todo # <<>> /\ Head(local[r].todo)[1] = op

\* "restoring receive order", "send the outputs back to the original owner ranks":
\* a token's output is in the token's place, and is the sum over every slice of
\* exactly the expert its router chose, whatever the ranks' routes are.
TokensComeHome ==
  \A r \in Ranks : local[r].out # <<>> =>
    local[r].out = [i \in 1 .. Tokens |->
      {<<DataOf(r), i, IF wrapper = "tp" THEN 0 ELSE routes[DataOf(r)][i], s>> : s \in Slices}]

\* "Average data/EP replicas while retaining TP and EP parameter ownership": what
\* a rank clips and updates with is the mean over the data ranks of the whole
\* gradient of what it holds: every slice once for what is replicated, its own
\* slice for what is cut, the tokens its experts served for its experts.
GradientsCountOnce ==
  \A r \in Ranks : At(r, "clip") =>
    \A d \in Data, s \in Slices :
      LET served == Cardinality({i \in 1 .. Tokens :
                                   OwnerOf(routes[d][i], LocalExperts) = EpRank(r, tp)})
          own == s = TpRank(r, tp)
          grads == local[r].grads
      IN  /\ grads["qk_norm"][<<d, s>>] = 1 /\ grads["attention_norm"][<<d, s>>] = 1
          /\ grads["ffn_norm"][<<d, s>>] = IF wrapper = "tp" THEN 1 ELSE Tokens
          /\ grads["attention"][<<d, s>>] = IF own THEN 1 ELSE 0
          /\ grads["ffn"][<<d, s>>] = IF wrapper = "tp" /\ own THEN 1 ELSE 0
          /\ wrapper # "tp" => grads["expert"][<<d, s>>] = IF own THEN served ELSE 0

\* "Compute a logical norm without counting EP/TP replicas twice", nor leaving
\* out a slice or an expert only one rank holds.
NormCountsOnce ==
  \A r \in Ranks : local[r].norm # <<>> =>
    /\ \A piece \in DOMAIN local[r].norm : local[r].norm[piece] = 1
    /\ DOMAIN local[r].norm = UNION {{Piece(c, s) : c \in Held(s, local[s].grads)} : s \in Ranks}

\* "every rank must still take part": whichever experts the tokens choose, also
\* none of a rank's, every rank finishes.
NoRankIsStranded == Finished \/ ENABLED Next

=============================================================================
