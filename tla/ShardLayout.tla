---------------------------- MODULE ShardLayout ----------------------------
(* How the parallel wrappers cut parameters and ranks (training/parallel):  *)
(* the padded flat shards of fsdp.py, the slices of tensor_parallel.py, the *)
(* expert ranges of expert_parallel.py and the process grid of common.py.   *)
EXTENDS Integers

CONSTANT Zero   (* the value of the padding *)

\* Elements per rank, rounded up.
ShardNumel(numel, world) == (numel + world - 1) \div world

Padded(full, numel, world) ==
  [k \in 0 .. world * ShardNumel(numel, world) - 1 |-> IF k < numel THEN full[k] ELSE Zero]

FlatShard(full, numel, world, rank) ==
  [k \in 0 .. ShardNumel(numel, world) - 1 |->
     Padded(full, numel, world)[rank * ShardNumel(numel, world) + k]]

\* all_gather_into_tensor, then gathered[:numel].
GatheredFlat(shards, numel, world) ==
  [k \in 0 .. numel - 1 |->
     shards[k \div ShardNumel(numel, world)][k % ShardNumel(numel, world)]]

\* narrow(axis, rank * shard_size, shard_size) of a divisible axis.
Slice(full, size, world, rank) ==
  [k \in 0 .. size \div world - 1 |-> full[rank * (size \div world) + k]]

\* all_gather_cat along that axis.
Concatenated(slices, size, world) ==
  [k \in 0 .. size - 1 |-> slices[k \div (size \div world)][k % (size \div world)]]

\* A rank's rows of the gate and up projection, one matrix of 2 * size rows with
\* the gate first: its slice of the gate, then its slice of the up part.
GateUpSlice(full, size, world, rank) ==
  LET local == size \div world
  IN  [k \in 0 .. 2 * local - 1 |->
         IF k < local THEN full[rank * local + k] ELSE full[size + rank * local + (k - local)]]

\* full_expert_weights: both parts are gathered on their own, then joined.
FullGateUp(slices, size, world) ==
  LET local == size \div world
      Gathered(start) ==
        Concatenated([r \in 0 .. world - 1 |-> [k \in 0 .. local - 1 |-> slices[r][start + k]]], size, world)
  IN  [k \in 0 .. 2 * size - 1 |->
         IF k < size THEN Gathered(0)[k] ELSE Gathered(local)[k - size]]

\* The export to Qwen3: of one head's channels the even ones, then the odd ones.
RopeOrder(dim) == [k \in 0 .. dim - 1 |-> IF k < dim \div 2 THEN 2 * k ELSE 2 * (k - dim \div 2) + 1]

-----------------------------------------------------------------------------
(* Experts: rank r owns [r * local, (r + 1) * local).                       *)

OwnerOf(expert, local) == expert \div local

LocalExpert(expert, local) == expert - OwnerOf(expert, local) * local

-----------------------------------------------------------------------------
(* The grid: global_rank = ep_rank * tp_size + tp_rank.                     *)

EpRank(rank, tp) == rank \div tp
TpRank(rank, tp) == rank % tp

TpGroup(epRank, tp) == epRank * tp .. (epRank + 1) * tp - 1

EpGroup(tpRank, tp, ep) == {e * tp + tpRank : e \in 0 .. ep - 1}

=============================================================================
