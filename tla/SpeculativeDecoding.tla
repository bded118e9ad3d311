------------------------- MODULE SpeculativeDecoding -------------------------
(***************************************************************************)
(* One execution of the speculative decoder (speculative/decoder.py): the  *)
(* draft model computes the batch and proposes, the target computes it     *)
(* together with the proposals, the longest accepted prefix and one more   *)
(* token are emitted, and as many tokens as were emitted are committed.    *)
(* Both models keep keys and values at the same positions of the same      *)
(* pages; a committed position must be right in both.                      *)
(***************************************************************************)
EXTENDS Integers, SequencesExt

CONSTANTS Requests,       (* ids, in batch order                            *)
          PromptLen,      (* tokens of a prompt                             *)
          Chunk,          (* bound: prompt tokens of one item               *)
          Tokens, Stop,   (* what the models may sample; Stop ends a request *)
          NumDraftTokens,
          MaxModelLen

VARIABLES tokens,     (* request -> prompt and outputs                      *)
          computed,   (* request -> tokens whose KV is committed            *)
          kv,         (* model -> (request -> (position -> token written))  *)
          rng,        (* request -> draws its generator has made, or Unseeded *)
          draws       (* request -> the draws its last item consumed        *)

vars == <<tokens, computed, kv, rng, draws>>

Models == {"target", "draft"}
Positions == 1 .. MaxModelLen
Unwritten == -1
Unseeded == -1

Init ==
  /\ tokens \in [Requests -> [1 .. PromptLen -> Tokens \ {Stop}]]
  /\ computed = [r \in Requests |-> 0]
  /\ kv = [m \in Models |-> [r \in Requests |-> [i \in Positions |-> Unwritten]]]
  /\ rng = [r \in Requests |-> Unseeded]
  /\ draws = [r \in Requests |-> <<>>]

Live(r) == Stop \notin ToSet(tokens[r]) /\ Len(tokens[r]) < MaxModelLen
Decoding(r) == computed[r] = Len(tokens[r]) - 1 /\ computed[r] >= PromptLen

-----------------------------------------------------------------------------
(* The items of a batch: a prompt chunk, or one token with drafts behind   *)
(* it. The scheduler never gives drafts to a prompt, nor more than leave   *)
(* room for one more token.                                                *)

Items(r) ==
  IF Decoding(r)
  THEN [request : {r}, count : {1}, drafts : 0 .. NumDraftTokens]
  ELSE [request : {r}, count : 1 .. Chunk, drafts : {0}]

Valid(item) ==
  /\ computed[item.request] + item.count <= Len(tokens[item.request])
  /\ Len(tokens[item.request]) + item.drafts < MaxModelLen

Samples(item) == computed[item.request] + item.count = Len(tokens[item.request])

\* Tokens written from position start + 1 on.
Written(slots, start, ids) ==
  [i \in Positions |-> IF i - start \in 1 .. Len(ids) THEN ids[i - start] ELSE slots[i]]

Slice(item) == SubSeq(tokens[item.request], computed[item.request] + 1, computed[item.request] + item.count)

-----------------------------------------------------------------------------
(* Verification. An outcome is what the draft proposed, how many leading   *)
(* proposals the target accepted, and the token drawn behind them.         *)

Outcomes(item) ==
  [proposals : [1 .. item.drafts -> Tokens], accepted : 0 .. item.drafts, next : Tokens]

\* verify(): the rows of one request, the accepted proposals and the replacement.
Row(item, outcome, j) ==
  IF j = outcome.accepted + 1 THEN outcome.next
  ELSE IF j <= item.drafts THEN outcome.proposals[j] ELSE outcome.next

\* The verified requests of a batch in the order of their rows: by number of drafts.
Ordered(batch) ==
  FlattenSeq([k \in 1 .. NumDraftTokens |-> SelectSeq(batch, LAMBDA item : item.drafts = k)])

Rows(batch, outcome) ==
  FlattenSeq([i \in 1 .. Len(Ordered(batch)) |->
    LET item == Ordered(batch)[i]
    IN  [j \in 1 .. item.drafts + 1 |-> Row(item, outcome[item.request], j)]])

\* Mutation: every request is given as many rows as it emits.
OffsetByEmitted(batch, outcome, i) ==
  FoldLeft(LAMBDA sum, item : sum + outcome[item.request].accepted + 1, 0, SubSeq(Ordered(batch), 1, i - 1))

\* Where the rows of the i-th verified request start.
Offset(batch, outcome, i) ==
  FoldLeft(LAMBDA sum, item : sum + item.drafts + 1, 0, SubSeq(Ordered(batch), 1, i - 1))

CutAtStop(ids) ==
  IF Stop \in ToSet(ids) THEN SubSeq(ids, 1, CHOOSE i \in 1 .. Len(ids) :
    ids[i] = Stop /\ \A j \in 1 .. i - 1 : ids[j] # Stop)
  ELSE ids

Chosen(batch, outcome, item) ==
  IF item.drafts = 0 THEN (IF Samples(item) THEN <<outcome[item.request].next>> ELSE <<>>)
  ELSE LET at == Offset(batch, outcome, CHOOSE i \in 1 .. Len(Ordered(batch)) : Ordered(batch)[i] = item)
       IN  SubSeq(Rows(batch, outcome), at + 1, at + outcome[item.request].accepted + 1)

Emitted(batch, outcome, item) == CutAtStop(Chosen(batch, outcome, item))

NewlyComputed(batch, outcome, item) ==
  IF item.drafts = 0 THEN item.count ELSE Len(Emitted(batch, outcome, item))

-----------------------------------------------------------------------------
(* The caches. The draft model computes every item of the batch, then its  *)
(* own proposals except the last; the target computes all of them.         *)

\* Mutation: the last proposal is left out also when all were accepted.
NoFlush(item, outcome, emitted, slots) == slots

\* "All-accepted transactions need the last draft token's KV before publication".
Flushed(item, outcome, emitted, slots) ==
  IF item.drafts > 0 /\ Len(emitted) = item.drafts + 1
  THEN Written(slots, computed[item.request] + item.drafts, <<outcome.proposals[item.drafts]>>)
  ELSE slots

DraftCache(item, outcome, emitted) ==
  Flushed(item, outcome, emitted,
          Written(kv["draft"][item.request], computed[item.request],
                  Slice(item) \o SubSeq(outcome.proposals, 1, item.drafts - 1)))

TargetCache(item, outcome) ==
  Written(kv["target"][item.request], computed[item.request], Slice(item) \o outcome.proposals)

-----------------------------------------------------------------------------
(* The generators. A shadow of the request draws for the proposals with    *)
(* the request's generator if it has one, else with one of the same seed.  *)

\* Mutation: sampling does not leave its generator with the request.
SampledWithOwn(r) == Unseeded

\* Sampler.sample: one draw.
SampledWith(r) == IF rng[r] = Unseeded THEN 1 ELSE rng[r] + 1

Count(from, n) == [i \in 1 .. n |-> from + i - 1]

Drawn(item) ==
  LET r == item.request
      from == IF rng[r] = Unseeded THEN 0 ELSE rng[r]
      \* a generator made for the shadow is not the request's
      again == IF rng[r] = Unseeded THEN 0 ELSE rng[r] + item.drafts
  IN  IF item.drafts > 0 THEN Count(from, item.drafts) \o Count(again, item.drafts + 1)
      ELSE IF Samples(item) THEN Count(from, 1) ELSE <<>>

RngAfter(item) ==
  LET r == item.request
  IN  IF item.drafts > 0 THEN (IF rng[r] = Unseeded THEN item.drafts + 1 ELSE rng[r] + 2 * item.drafts + 1)
      ELSE IF Samples(item) THEN SampledWith(r) ELSE rng[r]

-----------------------------------------------------------------------------
Execute(batch, outcome) ==
  LET in == {batch[i].request : i \in 1 .. Len(batch)}
      itemOf(r) == batch[CHOOSE i \in 1 .. Len(batch) : batch[i].request = r]
      emitted(r) == Emitted(batch, outcome, itemOf(r))
  IN  /\ tokens' = [r \in Requests |-> IF r \in in THEN tokens[r] \o emitted(r) ELSE tokens[r]]
      /\ computed' = [r \in Requests |->
           IF r \in in THEN computed[r] + NewlyComputed(batch, outcome, itemOf(r)) ELSE computed[r]]
      /\ kv' = [m \in Models |-> [r \in Requests |->
           IF r \notin in THEN kv[m][r]
           ELSE IF m = "draft" THEN DraftCache(itemOf(r), outcome[r], emitted(r))
           ELSE TargetCache(itemOf(r), outcome[r])]]
      /\ rng' = [r \in Requests |-> IF r \in in THEN RngAfter(itemOf(r)) ELSE rng[r]]
      /\ draws' = [r \in Requests |-> IF r \in in THEN Drawn(itemOf(r)) ELSE <<>>]

ExecuteSome ==
  \E in \in SUBSET {r \in Requests : Live(r)} :
    \E items \in [in -> UNION {Items(r) : r \in in}] :
      /\ in # {}
      /\ \A r \in in : items[r] \in Items(r) /\ Valid(items[r])
      /\ LET batch == [i \in 1 .. Cardinality(in) |-> items[SetToSortSeq(in, LAMBDA a, b : a < b)[i]]]
         IN  \E outcome \in [in -> UNION {Outcomes(items[r]) : r \in in}] :
               /\ \A r \in in : outcome[r] \in Outcomes(items[r])
               /\ Execute(batch, outcome)

Next ==
  \/ ExecuteSome
  \/ (\A r \in Requests : ~Live(r)) /\ UNCHANGED vars

Spec == Init /\ [][Next]_vars

-----------------------------------------------------------------------------
\* A peer shares logical ownership: whatever was proposed, accepted, rejected or
\* cut at a stop token, both models have written every committed position, and
\* with the token the request has there; what is decoded next needs only the
\* last token computed.
BothModelsFollow ==
  \A r \in Requests :
    /\ \A m \in Models, i \in 1 .. computed[r] : kv[m][r][i] = tokens[r][i]
    /\ computed[r] >= PromptLen => computed[r] = Len(tokens[r]) - 1

\* "the standard speculative rejection rule": the draws that accept or replace
\* proposals are none of those the proposals were drawn with.
DrawsAreFresh == \A r \in Requests : IsInjective(draws[r])

=============================================================================
