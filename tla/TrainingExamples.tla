--------------------------- MODULE TrainingExamples ---------------------------
(***************************************************************************)
(* What the trainers are fed: chats serialized for SFT, DPO and RLAIF      *)
(* prompts, packed pretraining text (datasets/), and the padded rollouts   *)
(* of GRPO with the positions their actions are scored at                  *)
(* (training/grpo_trainer.py). A token is the piece of text it stands for. *)
(* An attempt is one record or one group of rollouts.                      *)
(***************************************************************************)
EXTENDS Integers, SequencesExt, FiniteSetsExt

CONSTANTS Messages,          (* [role, tools, thinks, calls] of a message    *)
          MaxMessages,
          SequenceLengths,
          PromptLimits,      (* max_prompt_length of a RLAIFDataset          *)
          MaxText,           (* tokens of a text                             *)
          PromptLengths,     (* of the prompts in a rollout batch            *)
          MaxNewTokens,
          ContextLength

VARIABLE attempt

Pad == <<"pad", 0>>
Ignored == <<"ignored", 0>>
Bos == <<"bos", 0>>
Eos == <<"eos", 0>>

Below(n) == 0 .. n - 1

ChatAttempts ==
  [kind : {"chat"}, messages : BoundedSeq(Messages, MaxMessages) \ {<<>>}, length : SequenceLengths]

PromptAttempts ==
  [kind : {"prompt"}, messages : BoundedSeq(Messages, MaxMessages), limit : PromptLimits,
   openThinking : BOOLEAN]

\* A token of the text may happen to be the padding token.
TextAttempts ==
  [kind : {"text"}, text : BoundedSeq({Pad, <<"word", 1>>}, MaxText), length : SequenceLengths]

\* Two prompts, two generations each; where eos would end each of them.
RolloutAttempts ==
  [kind : {"rollout"}, prompts : [Below(2) -> PromptLengths], eosAt : [Below(4) -> 1 .. MaxNewTokens + 1]]

-----------------------------------------------------------------------------
(* SFTDataset._encode_conversation.                                        *)

\* add(text, supervise): each token with the target it is.
Text(names, i, supervise) ==
  [k \in DOMAIN names |->
     LET id == IF names[k] \in {"bos", "eos", "newline", "think", "/think", "user", "system", "assistant"}
               THEN <<names[k], 0>> ELSE <<names[k], i>>
     IN  [id |-> id, target |-> IF supervise THEN id ELSE Ignored]]

IsTool(messages, i) == i \in DOMAIN messages /\ messages[i].role = "tool"

Opening(messages) ==
  IF messages[1].role # "system" THEN <<>>
  ELSE Text(<<"bos", "system", "content">>
              \o (IF messages[1].tools THEN <<"preamble", "signature", "postamble">> ELSE <<>>)
              \o <<"eos", "newline">>, 1, FALSE)

Completion(message, i) ==
  Text(<<"think">> \o (IF message.thinks THEN <<"reasoning">> ELSE <<>>) \o <<"/think", "content">>
         \o [k \in 1 .. message.calls |-> "call"] \o <<"eos", "newline">>, i, TRUE)

\* Mutation: every tool response closes the turn.
TurnOfEachTool(messages, i) ==
  CASE messages[i].role = "system" -> IF i = 1 THEN <<>> ELSE Text(<<"bos", "system", "content", "eos", "newline">>, i, FALSE)
    [] messages[i].role = "user" -> Text(<<"bos", "user", "content", "eos", "newline">>, i, FALSE)
    [] messages[i].role = "assistant" -> Text(<<"bos", "assistant">>, i, FALSE) \o Completion(messages[i], i)
    [] IsTool(messages, i) ->
         Text((IF IsTool(messages, i - 1) THEN <<>> ELSE <<"bos", "user">>) \o <<"response", "eos", "newline">>, i, FALSE)

\* One message; consecutive tool responses share one user turn.
Turn(messages, i) ==
  CASE messages[i].role = "system" -> IF i = 1 THEN <<>> ELSE Text(<<"bos", "system", "content", "eos", "newline">>, i, FALSE)
    [] messages[i].role = "user" -> Text(<<"bos", "user", "content", "eos", "newline">>, i, FALSE)
    [] messages[i].role = "assistant" -> Text(<<"bos", "assistant">>, i, FALSE) \o Completion(messages[i], i)
    [] IsTool(messages, i) ->
         Text((IF IsTool(messages, i - 1) THEN <<>> ELSE <<"bos", "user">>) \o <<"response">>
                \o (IF IsTool(messages, i + 1) THEN <<>> ELSE <<"eos", "newline">>), i, FALSE)

Encoded(messages) ==
  Opening(messages) \o FlattenSeq([i \in DOMAIN messages |-> Turn(messages, i)])

-----------------------------------------------------------------------------
(* __getitem__ of the datasets.                                            *)

MostRecent(s, n) == SubSeq(s, Max({1, Len(s) - n + 1}), Len(s))
Padded(s, n, pad) == s \o [k \in 1 .. n - Len(s) |-> pad]
Inputs(ids) == Front(ids)
Labels(targets) == Tail(targets)

\* The window of the most recent turns of an SFT record, or of one side of a DPO pair.
Recent(c) == MostRecent(Encoded(c.messages), c.length + 1)

ChatAccepted(c) == \E k \in DOMAIN Recent(c) : Recent(c)[k].target # Ignored

ChatExample(c) ==
  LET row == Padded(Recent(c), c.length + 1, [id |-> Pad, target |-> Ignored])
  IN  [inputs |-> Inputs([k \in DOMAIN row |-> row[k].id]),
       labels |-> Labels([k \in DOMAIN row |-> row[k].target])]

\* RLAIFDataset: a conversation whose last message, an answer, is left to the rollout.
PromptAccepted(c) == Len(c.messages) >= 2 /\ Last(c.messages).role = "assistant"

\* The messages before it and the opening of the answer, with thinking left open
\* or closed.
Unfinished(c) ==
  Encoded(Front(c.messages))
    \o Text(<<"bos", "assistant", "think">> \o (IF c.openThinking THEN <<>> ELSE <<"/think">>),
            Len(c.messages), FALSE)

\* Mutation: a long prompt loses its end.
PromptFromStart(c) == SubSeq(Unfinished(c), 1, Min({c.limit, Len(Unfinished(c))}))

\* Of a long prompt the end is kept, as for the other datasets.
Prompt(c) == MostRecent(Unfinished(c), c.limit)

\* PretrainDataset.
TextExample(c) ==
  LET needed == c.length + 1
      all == <<Bos>> \o c.text \o <<Eos>>
      row == IF Len(all) > needed THEN Append(SubSeq(all, 1, needed - 1), Eos) ELSE Padded(all, needed, Pad)
  IN  [inputs |-> Inputs(row),
       labels |-> [k \in DOMAIN Labels(row) |-> IF Labels(row)[k] = Pad THEN Ignored ELSE Labels(row)[k]]]

-----------------------------------------------------------------------------
(* GRPO: _torch_rollouts, _make_rollout_batch and _batched_logps. The      *)
(* tokens of a row: its prompt <<"p", k>>, its completion <<"a", k>>.      *)

PromptLength(c, row) == c.prompts[row \div 2]
MaxPrompt(c) == Max(Range(c.prompts))

\* min(max_new_tokens, context_length - width)
MaxNew(c) == Min({MaxNewTokens, ContextLength - MaxPrompt(c)})

CompletionLength(c, row) == Min({c.eosAt[row], MaxNew(c)})

\* The batch at an offset of the sampling loop: right-padded prompts, and the
\* tokens written behind them while their row was active.
RolloutInputs(c, row, offset) ==
  [k \in Below(MaxPrompt(c) + offset) |->
     IF k < PromptLength(c, row) THEN <<"p", k>>
     ELSE IF k - PromptLength(c, row) < Min({offset, CompletionLength(c, row)})
          THEN <<"a", k - PromptLength(c, row)>> ELSE Pad]

NextPosition(c, row, offset) == PromptLength(c, row) - 1 + offset

MaxSequence(c) == Max({PromptLength(c, r) + CompletionLength(c, r) : r \in Below(4)})
MaxCompletion(c) == Max({CompletionLength(c, r) : r \in Below(4)})

InputIds(c, row) ==
  [k \in Below(MaxSequence(c)) |->
     IF k < PromptLength(c, row) THEN <<"p", k>>
     ELSE IF k < PromptLength(c, row) + CompletionLength(c, row)
          THEN <<"a", k - PromptLength(c, row)>> ELSE Pad]

CompletionIds(c, row) ==
  [k \in Below(MaxCompletion(c)) |-> IF k < CompletionLength(c, row) THEN <<"a", k>> ELSE Pad]

\* Mutation: an action is scored by the logits at its own position.
OwnPositions(c, row, offset) == PromptLength(c, row) + offset

ActionPositions(c, row, offset) == PromptLength(c, row) - 1 + offset

\* What each log-probability is of: the tokens before, and the token it is given to;
\* masked where the completion has ended.
Scored(c, row) ==
  [offset \in Below(CompletionLength(c, row)) |->
     LET position == Min({ActionPositions(c, row, offset), MaxSequence(c) - 1})
     IN  [context |-> [k \in 0 .. position |-> InputIds(c, row)[k]], action |-> CompletionIds(c, row)[offset]]]

-----------------------------------------------------------------------------
Init == attempt \in ChatAttempts \cup PromptAttempts \cup TextAttempts \cup RolloutAttempts
Next == UNCHANGED attempt
Spec == Init /\ [][Next]_attempt

-----------------------------------------------------------------------------
Assistants(messages) == {i \in DOMAIN messages : messages[i].role = "assistant"}

\* "assistant completion tokens through <|im_end|> are targets", and the line break
\* behind it: a label is the token after its input, labels are exactly the assistant
\* tokens of the window (its first token has no input before it, so only a chat that
\* goes on after its last answer can be left without one), and turns open and close
\* in alternation. Text of any length ends with eos. "preventing chat
\* prompt/template drift": in the serialization of the whole conversation a rollout
\* prompt stands immediately before the rest of the answer (with thinking closed, of
\* one that did not think); one that fits max_prompt_length begins the serialization,
\* a longer one has lost its start.
ExamplesTeachCompletions ==
  LET c == attempt
      n == Len(c.messages)
      ids(s) == [k \in DOMAIN s |-> s[k].id]
      brackets == SelectSeq(ids(Encoded(c.messages)), LAMBDA t : t \in {Bos, Eos})
      supervised == FlattenSeq([i \in DOMAIN c.messages |->
                      IF i \in Assistants(c.messages) THEN Completion(c.messages[i], i) ELSE <<>>])
  IN  /\ c.kind = "chat" =>
           /\ ChatAccepted(c) =>
                LET e == ChatExample(c)
                    taught == SelectSeq(e.labels, LAMBDA t : t # Ignored)
                IN  /\ Len(e.inputs) = c.length /\ Len(e.labels) = c.length
                    /\ \A k \in 1 .. c.length - 1 : e.labels[k] \in {Ignored, e.inputs[k + 1]}
                    /\ IsSuffix(taught, ids(supervised))
                    /\ Len(taught) = Cardinality({k \in DOMAIN Recent(c) \ {1} : Recent(c)[k].target # Ignored})
                    /\ n \in Assistants(c.messages) => taught # <<>>
           /\ \A k \in DOMAIN brackets : brackets[k] = IF k % 2 = 1 THEN Bos ELSE Eos
           /\ Len(brackets) % 2 = 0
      /\ c.kind = "prompt" /\ PromptAccepted(c) /\ (c.openThinking \/ ~c.messages[n].thinks) =>
           LET whole == ids(Encoded(c.messages))
               opened == IF c.openThinking THEN 1 ELSE 2
               rest == Len(Completion(c.messages[n], n)) - opened
               before == SubSeq(whole, 1, Len(whole) - rest)
           IN  /\ IsSuffix(ids(Prompt(c)), before)
               /\ Len(Prompt(c)) = Min({c.limit, Len(before)})
      /\ c.kind = "text" =>
           LET e == TextExample(c)
               taught == SelectSeq(e.labels, LAMBDA t : t # Ignored)
           IN  /\ \A k \in 1 .. c.length - 1 : e.labels[k] = (IF e.inputs[k + 1] = Pad THEN Ignored ELSE e.inputs[k + 1])
               /\ taught # <<>> /\ taught[Len(taught)] = Eos

\* Every sampled token is drawn, and later scored, from exactly the prompt and the
\* tokens sampled before it: no padding of a longer neighbour is attended to, no
\* position is clamped, and only tokens that were sampled count.
ActionsAreScoredInContext ==
  LET c == attempt
      before(row, offset) ==
        [k \in 0 .. PromptLength(c, row) - 1 + offset |->
           IF k < PromptLength(c, row) THEN <<"p", k>> ELSE <<"a", k - PromptLength(c, row)>>]
  IN  c.kind = "rollout" =>
        \A row \in Below(4), offset \in Below(MaxNewTokens) :
          offset < CompletionLength(c, row) =>
            /\ [k \in 0 .. NextPosition(c, row, offset) |-> RolloutInputs(c, row, offset)[k]] = before(row, offset)
            /\ Scored(c, row)[offset] = [context |-> before(row, offset), action |-> <<"a", offset>>]
            /\ PromptLength(c, row) + offset < ContextLength

=============================================================================
