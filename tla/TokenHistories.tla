---------------------------- MODULE TokenHistories ----------------------------
(***************************************************************************)
(* The token histories the sampler keeps on the device for penalties and   *)
(* for masked stop tokens (sampling/sampler.py): one buffer per request,   *)
(* extended by the tokens since its last sample, found by the address of   *)
(* the request object. An address is used again once the object has died,  *)
(* and only so many histories are kept.                                    *)
(***************************************************************************)
EXTENDS Integers, SequencesExt

CONSTANTS Addresses, Tokens,
          Policies,       (* [penalties, stops, min]: sampling parameters   *)
          MaxHistories,
          MaxOutputs      (* bound: tokens a request may have generated     *)

VARIABLES object,     (* address -> the request there, or Free              *)
          histories,  (* insertion order of the dict: [key, policy, generated, seen, counts, stopped] *)
          read        (* what the last kernel read: address -> [request, seen, counts, stopped] *)

vars == <<object, histories, read>>

Free == [free |-> TRUE]
Live == {a \in Addresses : object[a] # Free}

Init == object = [a \in Addresses |-> Free] /\ histories = <<>> /\ read = <<>>

Without(hs, key) == SelectSeq(hs, LAMBDA h : h.key # key)
Find(hs, key) == SelectSeq(hs, LAMBDA h : h.key = key)

\* Tokens whose logits are masked until min_tokens have been generated.
Stops(request) == IF Len(request.outputs) < request.policy.min THEN request.policy.stops ELSE {}

Zeros == [t \in Tokens |-> 0]
Add(counts, ids) == [t \in Tokens |-> counts[t] + Len(SelectSeq(ids, LAMBDA i : i = t))]

-----------------------------------------------------------------------------
Fresh(a, request) ==
  [key |-> a, policy |-> request.policy, generated |-> 0,
   seen |-> IF request.policy.penalties THEN Add(Zeros, <<request.prompt>>) ELSE Zeros,
   counts |-> Zeros, stopped |-> Stops(request)]

\* Mutation: the tokens since the last sample are counted from its start.
ExtendedByAll(history, request) ==
  [history EXCEPT !.generated = Len(request.outputs),
                  !.seen = Add(@, request.outputs), !.counts = Add(@, request.outputs)]

\* update_history with output_token_ids[generated:].
Extended(history, request) ==
  LET new == IF request.policy.penalties
             THEN SubSeq(request.outputs, history.generated + 1, Len(request.outputs)) ELSE <<>>
  IN  [history EXCEPT !.generated = Len(request.outputs), !.seen = Add(@, new), !.counts = Add(@, new)]

\* _metadata for one request: its history moves to the end, or is dropped.
Touched(hs, a) ==
  LET request == object[a]
      found == Find(hs, a)
      usable == found # <<>> /\ found[1].policy = request.policy
                /\ found[1].generated <= Len(request.outputs)
  IN  IF request.policy.penalties \/ Stops(request) # {}
      THEN Append(Without(hs, a), Extended(IF usable THEN found[1] ELSE Fresh(a, request), request))
      ELSE Without(hs, a)

Metadata(batch) == FoldLeft(Touched, histories, batch)

\* _transform reads the buffer the metadata of its row points at.
Reads(hs, batch) ==
  [a \in ToSet(batch) |->
     LET found == Find(hs, a)
     IN  [request |-> object[a],
          seen |-> {t \in Tokens : found # <<>> /\ found[1].seen[t] > 0},
          counts |-> IF found # <<>> THEN found[1].counts ELSE Zeros,
          stopped |-> IF found # <<>> /\ Len(object[a].outputs) < object[a].policy.min
                      THEN found[1].stopped ELSE {}]]

Bounded(hs) == SubSeq(hs, IF Len(hs) > MaxHistories THEN Len(hs) - MaxHistories + 1 ELSE 1, Len(hs))

\* The sampled tokens are appended by the engine, one per row.
Appended(batch, sampled) ==
  [a \in Addresses |-> IF a \in ToSet(batch)
                       THEN [object[a] EXCEPT !.outputs = Append(@, sampled[a])] ELSE object[a]]

-----------------------------------------------------------------------------
\* A request, or the shadow of one, with a copy of its outputs.
Arrive ==
  \E a \in Addresses \ Live :
    /\ \/ \E p \in Policies, t \in Tokens :
            object' = [object EXCEPT ![a] = [policy |-> p, prompt |-> t, outputs |-> <<>>]]
       \/ \E b \in Live : object' = [object EXCEPT ![a] = object[b]]
    /\ UNCHANGED <<histories, read>>

\* The rows of a batch, in any order, with room for one token more.
InBatch(batch) == IsInjective(batch) /\ \A a \in ToSet(batch) : Len(object[a].outputs) < MaxOutputs

\* Mutation: the bound is kept before the kernel has read its rows.
EvictBeforeKernel(batch, sampled) ==
  /\ histories' = Bounded(Metadata(batch))
  /\ read' = Reads(Bounded(Metadata(batch)), batch)
  /\ object' = Appended(batch, sampled)

\* "Evict only after the kernels have finished reading their pointer metadata."
SampleBatch(batch, sampled) ==
  /\ histories' = Bounded(Metadata(batch))
  /\ read' = Reads(Metadata(batch), batch)
  /\ object' = Appended(batch, sampled)

Sample ==
  \E batch \in BoundedSeq(Live, Cardinality(Live)) \ {<<>>} :
    InBatch(batch) /\ \E sampled \in [ToSet(batch) -> Tokens] : SampleBatch(batch, sampled)

\* distributions(): nothing is evicted; the token drawn or proposed is appended.
Distributions ==
  \E batch \in BoundedSeq(Live, Cardinality(Live)) \ {<<>>} :
    /\ InBatch(batch)
    /\ histories' = Metadata(batch)
    /\ read' = Reads(Metadata(batch), batch)
    /\ \E sampled \in [ToSet(batch) -> Tokens] : object' = Appended(batch, sampled)

Release ==
  \E a \in Live : histories' = Without(histories, a) /\ read' = <<>> /\ UNCHANGED object

\* Mutation: no callback on the death of the owner.
DieSilently(a) == object' = [object EXCEPT ![a] = Free] /\ read' = <<>> /\ UNCHANGED histories

\* The last reference goes: the weakref's callback pops the key.
DieAt(a) ==
  object' = [object EXCEPT ![a] = Free] /\ read' = <<>> /\ histories' = Without(histories, a)

Die == \E a \in Live : DieAt(a)

Next == Arrive \/ Sample \/ Distributions \/ Release \/ Die

Spec == Init /\ [][Next]_vars

-----------------------------------------------------------------------------
\* What the penalty kernel reads for a row is the history of the request in that
\* row: the tokens of its prompt and outputs, how often each was generated, the
\* stop tokens still masked; whichever request had its address before, whatever
\* was evicted since its last sample, and however many rows share the batch.
PenaltiesSeeHistory ==
  \A a \in DOMAIN read :
    LET r == read[a].request
    IN  /\ r.policy.penalties =>
             /\ read[a].seen = {r.prompt} \cup ToSet(r.outputs)
             /\ read[a].counts = Add(Zeros, r.outputs)
        /\ read[a].stopped = Stops(r)

=============================================================================
