----------------------------- MODULE Collectives -----------------------------
(* What the code relies on of torch.distributed. A rank's calls on a group  *)
(* are carried out in the order it makes them, each together with one call  *)
(* of every other member, and only if they agree on the operation and on    *)
(* how much each sends to each. A call is                                   *)
(*   [group |-> ranks, op |-> what, send, take |-> [group -> amount]].      *)
EXTENDS Naturals, Sequences

Agree(call, other, rank, peer) ==
  /\ call.group = other.group /\ call.op = other.op
  /\ call.send[peer] = other.take[rank]

\* The calls the members of a group have made next can be carried out.
CanComplete(group, calls) ==
  \A rank, peer \in group : Agree(calls[rank], calls[peer], rank, peer)

\* all_gather, all_reduce, reduce_scatter, broadcast: the same amount to and from everyone.
Even(group, op, amount) ==
  [group |-> group, op |-> op,
   send |-> [peer \in group |-> amount], take |-> [peer \in group |-> amount]]

\* all_to_all_single.
Exchange(group, op, send, take) == [group |-> group, op |-> op, send |-> send, take |-> take]

=============================================================================
