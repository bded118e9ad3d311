----------------------------- MODULE DecodeGraphs -----------------------------
(***************************************************************************)
(* The captured decode graphs of the runner (runtime/graphs.py): a decode  *)
(* batch is copied into the static inputs of a graph for as many rows and  *)
(* as long a context, captured on first use while the reserve lasts, and   *)
(* replayed; any other batch runs on the model itself.                     *)
(***************************************************************************)
EXTENDS Integers, SequencesExt, FiniteSetsExt

CONSTANTS Sizes,          (* config.batch_sizes                             *)
          Slots, Tokens,
          MinContext,     (* 128, the smallest context of a graph           *)
          ContextLimit,
          MaxGraphs, Reserve,
          Estimate,       (* size -> bytes a capture is expected to retain  *)
          Rows            (* bound: requests of a batch                     *)

VARIABLES entries,    (* key -> [inputs, output, retained]                  *)
          rejected,   (* keys whose capture was refused                     *)
          batch,      (* the batch last executed                            *)
          wrote,      (* the slots its execution wrote, with the tokens     *)
          held        (* the last two results a caller holds: [value] or [key, rows] *)

vars == <<entries, rejected, batch, wrote, held>>

Init == entries = <<>> /\ rejected = {} /\ batch = <<>> /\ wrote = {} /\ held = <<>>

Blank == [token |-> 0, context |-> 0, slot |-> -1]

\* One query token of a request whose context ends with it. Slots are numbered in
\* batch order: no row is treated differently for its slot.
Batches ==
  {b \in UNION {[1 .. n -> [token : Tokens, context : 1 .. ContextLimit, slot : Slots]] : n \in 1 .. Rows} :
     \A i, j \in 1 .. Len(b) : i < j => b[i].slot < b[j].slot}

PowerOfTwo(n) == CHOOSE p \in {2 ^ k : k \in 0 .. n} : p >= n /\ \A k \in 0 .. n : 2 ^ k >= n => p <= 2 ^ k

LargestContext(b) == Max({b[i].context : i \in 1 .. Len(b)})

NotCaptured == <<>>

\* _key: the smallest size that holds the batch, and the context in buckets.
Key(b, decode) ==
  LET sizes == {s \in Sizes : s >= Len(b)}
  IN  IF ~decode \/ sizes = {} THEN NotCaptured
      ELSE <<Min(sizes), Min({ContextLimit, Max({MinContext, PowerOfTwo(LargestContext(b))})})>>

-----------------------------------------------------------------------------
(* The model on some rows: what it writes to the cache, and the logits of  *)
(* a row, here all they depend on. A graph reads no further than context.  *)

Writes(rows) == {<<rows[i].slot, rows[i].token>> : i \in {j \in 1 .. Len(rows) : rows[j].slot # -1}}

Logits(rows, context) ==
  [i \in 1 .. Len(rows) |-> <<rows[i].token, Min({rows[i].context, context}), rows[i].slot>>]

\* Mutation: the rows behind the batch keep what the last one left there.
CopyWithoutReset(static, source) ==
  [i \in 1 .. Len(static) |-> IF i <= Len(source) THEN source[i] ELSE static[i]]

\* _copy.
Copy(static, source) ==
  [i \in 1 .. Len(static) |-> IF i <= Len(source) THEN source[i] ELSE Blank]

Retained(es) == FoldFunction(+, 0, [key \in DOMAIN es |-> es[key].retained])

-----------------------------------------------------------------------------
\* Mutation: the output storage of the graph is handed out.
Exposed(es, key, n) == [key |-> key, rows |-> n]

\* "Callers may retain logits past the next replay; never expose mutable graph output storage."
Cloned(es, key, n) == [value |-> SubSeq(es[key].output, 1, n)]

Value(result) ==
  IF "value" \in DOMAIN result THEN result.value ELSE SubSeq(entries[result.key].output, 1, result.rows)

Hold(b, result) == held' = SubSeq(<<[batch |-> b, result |-> result]>> \o held, 1, Min({2, Len(held) + 1}))

Replay(es, b, key) ==
  LET inputs == Copy(es[key].inputs, b)
      replayed == [es EXCEPT ![key].inputs = inputs, ![key].output = Logits(inputs, key[2])]
  IN  /\ entries' = replayed /\ wrote' = Writes(inputs)
      /\ Hold(b, Cloned(replayed, key, Len(b)))

Fallback(b) ==
  /\ wrote' = Writes(b) /\ Hold(b, [value |-> Logits(b, ContextLimit)])
  /\ UNCHANGED entries

\* Mutation: other graphs are not counted.
FitsAlone(retained) == retained <= Reserve

\* The reserve also holds with what the capture turned out to retain.
FitsReserve(retained) == Retained(entries) + retained <= Reserve

Captured(b, key, retained) ==
  LET static == Copy([i \in 1 .. key[1] |-> Blank], b)
  IN  key :> [inputs |-> static, output |-> Logits(static, key[2]), retained |-> retained] @@ entries

\* _capture and the replay behind it; the graph may retain more than expected.
CaptureOrFallback(b, key) ==
  IF Cardinality(DOMAIN entries) >= MaxGraphs \/ ~FitsReserve(Estimate[key[1]])
  THEN rejected' = rejected \cup {key} /\ Fallback(b)
  ELSE \E retained \in Estimate[key[1]] .. Estimate[key[1]] + 1 :
         IF FitsReserve(retained)
         THEN Replay(Captured(b, key, retained), b, key) /\ UNCHANGED rejected
         ELSE rejected' = rejected \cup {key} /\ Fallback(b)

Execute ==
  \E b \in Batches, decode \in BOOLEAN :
    LET key == Key(b, decode)
    IN  /\ batch' = b
        /\ \/ key \in DOMAIN entries /\ Replay(entries, b, key) /\ UNCHANGED rejected
           \/ key \notin DOMAIN entries \cup rejected \cup {NotCaptured} /\ CaptureOrFallback(b, key)
           \/ key \in rejected \cup {NotCaptured} /\ Fallback(b) /\ UNCHANGED rejected

Next == Execute

Spec == Init /\ [][Next]_vars

-----------------------------------------------------------------------------
\* A graph does for a batch what the model would: it writes the slots of the
\* batch and no others, returns the rows of the batch attending to their whole
\* context, and leaves results of earlier batches as they were, whatever batch
\* was replayed on it before.
GraphsReplayTheBatch ==
  /\ wrote = Writes(batch)
  /\ \A i \in 1 .. Len(held) : Value(held[i].result) = Logits(held[i].batch, ContextLimit)

\* The graphs kept never retain more than was set aside for them.
GraphsFitReserve == Retained(entries) <= Reserve /\ Cardinality(DOMAIN entries) <= MaxGraphs

=============================================================================
