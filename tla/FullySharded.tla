---------------------------- MODULE FullySharded ----------------------------
(***************************************************************************)
(* Fully sharded data parallelism (training/parallel/fsdp.py) under the    *)
(* update loop of the pretrainer: every rank holds one shard of each       *)
(* Linear weight, gathers the whole weight for a layer's forward pass (two *)
(* layers ahead without activation checkpointing, once more in the         *)
(* backward pass with it), scatters the layer's gradient back, averages    *)
(* the replicated parameters, clips and updates.                           *)
(*                                                                         *)
(* The ranks run at their own pace; only the collectives bring them        *)
(* together, and a collective matches calls by operation and size alone:   *)
(* all_gather_into_tensor does not know which layer a shard belongs to.    *)
(***************************************************************************)
EXTENDS Collectives, ShardLayout, SequencesExt

CONSTANTS World,          (* number of ranks                                *)
          Layers,         (* 1 .. Layers: _shards, in registration order    *)
          SizeOf,         (* layer -> numel; 0 stands for what is replicated *)
          Paths,          (* the layers one forward pass may run, in order  *)
          SameRoutes,     (* whether every rank's tokens choose the same    *)
          MicroBatches, Updates,   (* bounds                                *)
          Checkpointing   (* the values activation_checkpointing may have   *)

VARIABLES route,       (* rank -> (micro-batch of the job -> path)          *)
          todo,        (* rank -> instructions left                         *)
          waiting,     (* rank -> whether a synchronous call is outstanding *)
          calls,       (* rank -> calls not carried out yet                 *)
          prefetches,  (* _prefetches: rank -> (layer -> Flying or a weight) *)
          result,      (* rank -> what the last synchronous call brought    *)
          version,     (* rank -> (parameter -> <<origin, updates>>)        *)
          read,        (* rank -> the weight the last computation used      *)
          grads,       (* rank -> (parameter -> (contribution -> World-ths of it)) *)
          norm         (* rank -> (piece of the gradient -> times in the norm) *)

vars == <<route, todo, waiting, calls, prefetches, result, version, read, grads, norm>>

Ranks == 0 .. World - 1
Replicated == 0               (* embedding and RMSNorm weights, as one      *)
Sharded == 1 .. Layers
Parameters == {Replicated} \cup Sharded
PrefetchDistance == 2
Flying == <<"in flight">>
Nothing == <<>>

\* A rank's gradient of one micro-batch of an update.
Contributions == Ranks \X (1 .. MicroBatches)
NoGrads == [p \in Parameters |-> [c \in Contributions |-> 0]]

-----------------------------------------------------------------------------
(* The instructions of a rank, in order.                                   *)

Do(op, layer, micro) == [op |-> op, layer |-> layer, micro |-> micro]

\* _sync_initial_state, before the parameters are cut into shards.
Startup == [i \in 1 .. Layers + 1 |-> Do("broadcast", i - 1, 0)]

\* The gather is inside the recomputed function with checkpointing, in the hooks without.
Forward(path, ckpt) ==
  <<Do("clear", 0, 0)>> \o [i \in 1 .. Len(path) |-> Do(IF ckpt THEN "gather" ELSE "take", path[i], 0)]

\* Autograd runs the layers in reverse order; recomputation gathers again.
Backward(path, ckpt, micro) ==
  FlattenSeq([i \in 1 .. Len(path) |->
    LET layer == path[Len(path) + 1 - i]
    IN  (IF ckpt THEN <<Do("gather", layer, 0)>> ELSE <<>>) \o <<Do("scatter", layer, micro)>>])
  \o <<Do("backprop", Replicated, micro)>>

\* finish_gradient_synchronization, clip_gradients, optimizer step, _mean_across_ranks.
Update == <<Do("average", Replicated, 0), Do("clip", 0, 0), Do("update", 0, 0), Do("mean", 0, 0)>>

\* Mutation: only the rank that writes the file materializes the state.
MainProcessSave(rank) ==
  IF rank = 0 THEN [i \in 1 .. Layers |-> Do("gather", i, 0)] ELSE <<>>

\* save_checkpoint: full_state_dict on every rank.
Save(rank) == [i \in 1 .. Layers |-> Do("gather", i, 0)]

Program(rank, paths, ckpt) ==
  Startup \o
  FlattenSeq([u \in 1 .. Updates |->
    FlattenSeq([m \in 1 .. MicroBatches |->
      LET path == paths[(u - 1) * MicroBatches + m]
      IN  Forward(path, ckpt) \o Backward(path, ckpt, m)])
    \o Update])
  \o Save(rank)

-----------------------------------------------------------------------------
(* The calls. Each carries what its rank contributes.                      *)

Amount(layer) == ShardNumel(SizeOf[layer], World)

Call(op, amount, layer, brings) ==
  Even(Ranks, op, amount) @@ [layer |-> layer, brings |-> brings, ahead |-> FALSE]

\* The shard of a layer, as this rank holds it now.
GatherCall(r, layer) == Call("all_gather", Amount(layer), layer, <<layer, version[r][layer]>>)

\* What the gradient norm of a rank is made of: its shards and its replicas.
Pieces(r) ==
  {<<l, r>> : l \in {l \in Sharded : \E c \in Contributions : grads[r][l][c] # 0}}
    \cup {<<Replicated, 0>>}

CallOf(r, do) ==
  CASE do.op = "broadcast" -> Call("broadcast", SizeOf[do.layer], do.layer, version[r][do.layer])
    [] do.op \in {"gather", "take"} -> GatherCall(r, do.layer)
    [] do.op = "scatter" -> Call("reduce_scatter", Amount(do.layer), do.layer, <<do.layer, <<r, do.micro>>>>)
    [] do.op = "average" -> Call("all_reduce", SizeOf[Replicated], 0, grads[r][Replicated])
    [] do.op = "clip" -> Call("all_reduce", 1, 0, Pieces(r))
    [] do.op = "mean" -> Call("all_reduce_avg", 1, 0, Nothing)

\* The prefetches a rank starts behind layer: those not started yet.
Ahead(r, layer) ==
  SelectSeq([i \in 1 .. PrefetchDistance |-> layer + i],
            LAMBDA l : l \in Sharded /\ l \notin DOMAIN prefetches[r])

\* _prefetch_ahead, once the entry of layer itself has been taken.
PrefetchAhead(r, layer) ==
  LET ahead == Ahead(r, layer)
  IN  /\ prefetches' = [prefetches EXCEPT ![r] =
           [l \in (DOMAIN @ \cup Range(ahead)) \ {layer} |-> IF l \in DOMAIN @ THEN @[l] ELSE Flying]]
      /\ calls' = [calls EXCEPT ![r] =
           @ \o [i \in 1 .. Len(ahead) |-> [GatherCall(r, ahead[i]) EXCEPT !.ahead = TRUE]]]

-----------------------------------------------------------------------------
(* The steps of a rank.                                                    *)

Init ==
  /\ route \in [Ranks -> [1 .. MicroBatches * Updates -> Paths]]
  /\ SameRoutes => \A r \in Ranks : route[r] = route[0]
  /\ \E ckpt \in Checkpointing : todo = [r \in Ranks |-> Program(r, route[r], ckpt)]
  /\ waiting = [r \in Ranks |-> FALSE]
  /\ calls = [r \in Ranks |-> <<>>]
  /\ prefetches = [r \in Ranks |-> Nothing]
  /\ result = [r \in Ranks |-> Nothing]
  /\ version = [r \in Ranks |-> [p \in Parameters |-> <<r, 0>>]]
  /\ read = [r \in Ranks |-> Nothing]
  /\ grads = [r \in Ranks |-> NoGrads]
  /\ norm = [r \in Ranks |-> Nothing]

Ready(r, ops) == todo[r] # <<>> /\ ~waiting[r] /\ Head(todo[r]).op \in ops
Advance(r) == todo' = [todo EXCEPT ![r] = Tail(@)]

\* A synchronous collective; a take that finds nothing prefetched falls back to one.
Issue(r) ==
  /\ Ready(r, {"broadcast", "gather", "take", "scatter", "average", "clip", "mean"})
  /\ LET do == Head(todo[r])
     IN  /\ do.op = "take" => do.layer \notin DOMAIN prefetches[r]
         /\ calls' = [calls EXCEPT ![r] = Append(@, CallOf(r, do))]
  /\ waiting' = [waiting EXCEPT ![r] = TRUE]
  /\ UNCHANGED <<route, todo, prefetches, result, version, read, grads, norm>>

\* The next call of every rank is carried out.
CarryOut ==
  /\ \A r \in Ranks : calls[r] # <<>>
  /\ LET next == [r \in Ranks |-> Head(calls[r])]
         brought == [r \in Ranks |-> next[r].brings]
     IN  /\ CanComplete(Ranks, next)
         /\ result' = [r \in Ranks |-> IF next[r].ahead THEN result[r] ELSE brought]
         /\ prefetches' = [r \in Ranks |->
              [l \in DOMAIN prefetches[r] |->
                 IF next[r].ahead /\ next[r].layer = l THEN brought ELSE prefetches[r][l]]]
  /\ calls' = [r \in Ranks |-> Tail(calls[r])]
  /\ UNCHANGED <<route, todo, waiting, version, read, grads, norm>>

Use(r, layer, weight) == read' = [read EXCEPT ![r] = [layer |-> layer, from |-> weight]]

\* Mutation: the reduced sum is not divided by the number of ranks.
ScatteredSum(r, do) ==
  [grads EXCEPT ![r][do.layer] =
     [c \in Contributions |->
        @[c] + World * Cardinality({s \in Ranks : result[r][s] = <<do.layer, c>>})]]

\* _reduce_scatter_average: the ranks' gradients of the layer, each once, over World.
Scattered(r, do) ==
  [grads EXCEPT ![r][do.layer] =
     [c \in Contributions |->
        @[c] + Cardinality({s \in Ranks : result[r][s] = <<do.layer, c>>})]]

\* _all_reduce_average_ of what the ranks accumulated locally.
Averaged(r) ==
  [grads EXCEPT ![r][Replicated] =
     [c \in Contributions |-> FoldFunction(+, 0, [s \in Ranks |-> result[r][s][c]]) \div World]]

\* The call of this rank has returned.
Return(r) ==
  /\ waiting[r] /\ calls[r] = <<>>
  /\ waiting' = [waiting EXCEPT ![r] = FALSE]
  /\ Advance(r)
  /\ LET do == Head(todo[r])
     IN  \/ /\ do.op = "broadcast"
            /\ version' = [version EXCEPT ![r][do.layer] = result[r][0]]
            /\ UNCHANGED <<calls, prefetches, read, grads, norm>>
         \/ /\ do.op = "gather" /\ Use(r, do.layer, result[r])
            /\ UNCHANGED <<calls, prefetches, version, grads, norm>>
         \/ /\ do.op = "take" /\ Use(r, do.layer, result[r])
            /\ PrefetchAhead(r, do.layer)
            /\ UNCHANGED <<version, grads, norm>>
         \/ /\ do.op = "scatter" /\ grads' = Scattered(r, do)
            /\ UNCHANGED <<calls, prefetches, version, read, norm>>
         \/ /\ do.op = "average" /\ grads' = Averaged(r)
            /\ UNCHANGED <<calls, prefetches, version, read, norm>>
         \/ /\ do.op = "clip"
            /\ norm' = [norm EXCEPT ![r] =
                 [piece \in UNION Range(result[r]) |-> Cardinality({s \in Ranks : piece \in result[r][s]})]]
            /\ UNCHANGED <<calls, prefetches, version, read, grads>>
         \/ /\ do.op = "mean"
            /\ UNCHANGED <<calls, prefetches, version, read, grads, norm>>
  /\ UNCHANGED <<route, result>>

\* _take_prefetched_weight: waits for the gather that was started ahead.
TakePrefetched(r) ==
  /\ Ready(r, {"take"})
  /\ LET layer == Head(todo[r]).layer
     IN  /\ layer \in DOMAIN prefetches[r] /\ prefetches[r][layer] # Flying
         /\ Use(r, layer, prefetches[r][layer])
         /\ PrefetchAhead(r, layer)
  /\ Advance(r)
  /\ UNCHANGED <<route, waiting, result, version, grads, norm>>

\* Mutation: prefetches of an earlier forward pass are kept.
KeepPrefetches(r) ==
  /\ Ready(r, {"clear"}) /\ Advance(r)
  /\ UNCHANGED <<route, waiting, calls, prefetches, result, version, read, grads, norm>>

\* _finish_and_clear_prefetches, at the start of every forward pass.
ClearPrefetches(r) ==
  /\ Ready(r, {"clear"}) /\ Flying \notin Range(prefetches[r])
  /\ prefetches' = [prefetches EXCEPT ![r] = Nothing]
  /\ Advance(r)
  /\ UNCHANGED <<route, waiting, calls, result, version, read, grads, norm>>

\* The replicated parameters keep this rank's own gradient until the average.
Backprop(r) ==
  /\ Ready(r, {"backprop"})
  /\ grads' = [grads EXCEPT ![r][Replicated][<<r, Head(todo[r]).micro>>] = World]
  /\ Advance(r)
  /\ UNCHANGED <<route, waiting, calls, prefetches, result, version, read, norm>>

\* The optimizer step on the local parameters, and zero_grad of the next update.
Step(r) ==
  /\ Ready(r, {"update"})
  /\ version' = [version EXCEPT ![r] = [p \in Parameters |-> <<@[p][1], @[p][2] + 1>>]]
  /\ grads' = [grads EXCEPT ![r] = NoGrads]
  /\ norm' = [norm EXCEPT ![r] = Nothing]
  /\ read' = [read EXCEPT ![r] = Nothing]
  /\ Advance(r)
  /\ UNCHANGED <<route, waiting, calls, prefetches, result>>

Finished == \A r \in Ranks : todo[r] = <<>>
Finish == Finished /\ UNCHANGED vars

Next ==
  \/ \E r \in Ranks :
       \/ Issue(r) \/ Return(r) \/ TakePrefetched(r) \/ ClearPrefetches(r)
       \/ Backprop(r) \/ Step(r)
  \/ CarryOut
  \/ Finish

Spec == Init /\ [][Next]_vars

-----------------------------------------------------------------------------
\* "Full weights are reconstructed via all-gather during forward": whatever a
\* rank computes with, forward, recomputed or for a checkpoint, is made of every
\* rank's shard of that very layer, from the weights of rank 0 and with as many
\* updates as the rank itself has made, also when a layer prefetched in an
\* earlier pass was not used there.
LayersUseCurrentWeights ==
  \A r \in Ranks : read[r] # Nothing =>
    \A s \in Ranks :
      read[r].from[s] = <<read[r].layer, <<0, version[r][read[r].layer][2]>>>>

\* The gradient a rank updates a parameter with is the mean over the ranks of
\* what every micro-batch of the update contributed, each exactly once: scattered
\* gradients are divided once, replicated ones averaged once, and nothing is left
\* of the update before.
GradientsCountOnce ==
  \A r \in Ranks : Ready(r, {"update"}) =>
    LET first == version[r][Replicated][2] * MicroBatches
    IN  \A p \in Parameters, c \in Contributions :
          grads[r][p][c] = IF p = Replicated \/ p \in Range(route[c[1]][first + c[2]]) THEN 1 ELSE 0

\* The ranks make their collective calls in an order that lets all of them
\* finish: nobody waits for a call another rank never makes.
NoRankIsStranded == Finished \/ ENABLED Next

\* "clipping must use the cross-rank norm": every gradient once.
NormCountsOnce ==
  \A r \in Ranks : \A piece \in DOMAIN norm[r] : norm[r][piece] = 1

=============================================================================
