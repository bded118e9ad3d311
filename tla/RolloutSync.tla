----------------------------- MODULE RolloutSync -----------------------------
(***************************************************************************)
(* GRPO with rollouts from a vLLM server (utils/vllm_util.py, the vLLM     *)
(* half of training/grpo_trainer.py): the trainer starts the server, opens *)
(* a weight transfer group with it, sends it the policy before every       *)
(* rollout, asks for completions and updates the policy several times on   *)
(* them. Every request may fail, before or after the server acted on it,   *)
(* and the server may exit at any time.                                    *)
(***************************************************************************)
EXTENDS Integers, SequencesExt

CONSTANTS Prompts,             (* number of prompts of a rollout             *)
          NumGenerations,      (* completions per prompt                     *)
          UpdatesPerRollout,
          MaxVersion           (* bound: updates of the policy               *)

VARIABLES phase,     (* what the trainer does next                          *)
          launched,  (* launch_server: whether the process is ours          *)
          paused,    (* the local of sync_policy_weights                    *)
          error,     (* whether an exception is on its way out              *)
          policy,    (* updates the policy has had                          *)
          sent,      (* weight update: "no", "sending", "sent"              *)
          request,   (* update_weights on its own thread: "no", "open", "ok", "failed" *)
          rollout,   (* [completions, old]: the trajectories and the policy of old_logps *)
          server     (* [up, paused, session, weights, cached]              *)

vars == <<phase, launched, paused, error, policy, sent, request, rollout, server>>

Torn == -1      (* weights of two versions *)
Unset == -2
NoRollout == [completions |-> <<>>, old |-> Unset]

Off == [up |-> "off", paused |-> FALSE, session |-> FALSE, weights |-> 0, cached |-> {}]

Init ==
  /\ phase = "start" /\ launched \in BOOLEAN /\ paused = FALSE /\ error = FALSE
  /\ policy = 0 /\ sent = "no" /\ request = "no" /\ rollout = NoRollout
  \* A server somebody else runs may still serve an earlier policy.
  /\ server = IF launched THEN Off ELSE [Off EXCEPT !.up = "healthy", !.weights = Unset, !.cached = {Unset}]

-----------------------------------------------------------------------------
(* The server. It loads, answers /health, or exits.                        *)

Loaded ==
  /\ server.up = "loading" /\ server' = [server EXCEPT !.up = "healthy"]
  /\ UNCHANGED <<phase, launched, paused, error, policy, sent, request, rollout>>

Exits ==
  /\ server.up \in {"loading", "healthy"} /\ server' = [Off EXCEPT !.up = "exited"]
  /\ UNCHANGED <<phase, launched, paused, error, policy, sent, request, rollout>>

\* A request that makes the server become after: answered; failed although the
\* server did it (the answer was lost or late); or failed before it did.
Answered(after) == server.up = "healthy" /\ server' = after
Failed(after) == \/ server' = server
                 \/ server.up = "healthy" /\ server' = after

-----------------------------------------------------------------------------
(* Starting: VLLMServer.start and init_weight_sync, in the constructor.    *)

Start ==
  /\ phase = "start" /\ phase' = "wait"
  /\ server' = IF launched THEN [Off EXCEPT !.up = "loading"] ELSE server
  /\ UNCHANGED <<launched, paused, error, policy, sent, request, rollout>>

\* wait_for_server: healthy, exited early, or not in time.
Wait ==
  /\ phase = "wait"
  /\ \/ server.up = "healthy" /\ phase' = "handshake" /\ UNCHANGED error
     \/ phase' = "stop" /\ error' = TRUE
  /\ UNCHANGED <<launched, paused, policy, sent, request, rollout, server>>

Handshake ==
  /\ phase = "handshake"
  /\ \/ Answered(server) /\ phase' = "sample" /\ UNCHANGED error
     \/ Failed(server) /\ phase' = "stop" /\ error' = TRUE
  /\ UNCHANGED <<launched, paused, policy, sent, request, rollout>>

-----------------------------------------------------------------------------
(* sync_policy_weights.                                                    *)

\* One request: the next phase on success, the finally block on failure.
Call(from, after, to) ==
  /\ phase = from
  /\ \/ Answered(after) /\ phase' = to /\ UNCHANGED error
     \/ Failed(after) /\ phase' = "resume" /\ error' = TRUE

Pause ==
  /\ Call("sample", [server EXCEPT !.paused = TRUE], "begin")
  /\ paused' = (phase' = "begin")
  /\ rollout' = NoRollout
  /\ UNCHANGED <<launched, policy, sent, request>>

BeginUpdate ==
  /\ Call("begin", [server EXCEPT !.session = TRUE], "transfer")
  /\ sent' = IF phase' = "transfer" THEN "sending" ELSE sent
  /\ request' = IF phase' = "transfer" THEN "open" ELSE request
  /\ UNCHANGED <<launched, paused, policy, rollout>>

\* The tensors go out on the group while the request waits on its thread.
Send ==
  /\ phase = "transfer" /\ sent = "sending"
  /\ sent' \in {"sent", "failed"}
  /\ server' = IF server.up # "healthy" THEN server
               ELSE [server EXCEPT !.weights = IF sent' = "sent" THEN policy ELSE Torn]
  /\ UNCHANGED <<phase, launched, paused, error, policy, request, rollout>>

UpdateWeights ==
  /\ phase = "transfer" /\ request = "open"
  /\ \/ server.up = "healthy" /\ sent = "sent" /\ request' = "ok"
     \/ request' = "failed"
  /\ UNCHANGED <<phase, launched, paused, error, policy, sent, rollout, server>>

\* Leaving the executor waits for the request, result() raises what it raised.
Transferred ==
  /\ phase = "transfer" /\ sent # "sending" /\ request # "open"
  /\ \/ sent = "sent" /\ request = "ok" /\ phase' = "finish" /\ UNCHANGED error
     \/ ~(sent = "sent" /\ request = "ok") /\ phase' = "resume" /\ error' = TRUE
  /\ sent' = "no" /\ request' = "no"
  /\ UNCHANGED <<launched, paused, policy, rollout, server>>

FinishUpdate ==
  /\ Call("finish", [server EXCEPT !.session = FALSE], "reset")
  /\ UNCHANGED <<launched, paused, policy, sent, request, rollout>>

\* Mutation: what was cached under the old weights stays.
KeepPrefixCache ==
  /\ phase = "reset" /\ phase' = "resume"
  /\ UNCHANGED <<launched, paused, error, policy, sent, request, rollout, server>>

ResetPrefixCache ==
  /\ Call("reset", [server EXCEPT !.cached = {}], "resume")
  /\ UNCHANGED <<launched, paused, policy, sent, request, rollout>>

\* finally: resume if the pause had been answered; an exception goes on.
Resume ==
  /\ phase = "resume"
  /\ \/ /\ paused /\ Answered([server EXCEPT !.paused = FALSE])
        /\ phase' = (IF error THEN "stop" ELSE "generate") /\ UNCHANGED error
     \/ /\ paused /\ Failed([server EXCEPT !.paused = FALSE])
        /\ phase' = "stop" /\ error' = TRUE
     \/ ~paused /\ phase' = "stop" /\ UNCHANGED <<error, server>>
  /\ paused' = FALSE
  /\ UNCHANGED <<launched, policy, sent, request, rollout>>

-----------------------------------------------------------------------------
(* _vllm_rollouts and the updates on a rollout.                            *)

\* What the server samples: n choices for each prompt, numbered.
Sampled ==
  [i \in 1 .. Prompts * NumGenerations |->
     [index |-> i, prompt |-> (i - 1) \div NumGenerations + 1,
      weights |-> server.weights, cached |-> server.cached]]

\* Mutation: the choices are taken in the order they were answered.
AsAnswered(answer) == answer

\* sorted(choices, key=index): the indices are 1 .. Len(answer).
ByIndex(answer) ==
  [i \in 1 .. Len(answer) |-> CHOOSE choice \in ToSet(answer) : choice.index = i]

\* The server answers with every choice, in any order, or with too few of them.
Generate ==
  /\ phase = "generate"
  /\ \/ /\ server.up = "healthy" /\ ~server.paused
        /\ server' = [server EXCEPT !.cached = @ \cup {server.weights}]
        /\ \/ /\ \E answer \in {Sampled, Reverse(Sampled)} :
                   rollout' = [completions |-> ByIndex(answer), old |-> Unset]
              /\ phase' = "update" /\ UNCHANGED error
           \/ phase' = "stop" /\ error' = TRUE /\ UNCHANGED rollout
     \/ Failed(server) /\ phase' = "stop" /\ error' = TRUE /\ UNCHANGED rollout
  /\ UNCHANGED <<launched, paused, policy, sent, request>>

\* Updates already made on this rollout.
Rounds == IF rollout.old = Unset THEN 0 ELSE policy - rollout.old

\* _update_rollout caches old_logps in the first round; then the optimizer step.
Update ==
  /\ phase = "update"
  /\ rollout' = [rollout EXCEPT !.old = IF @ = Unset THEN policy ELSE @]
  /\ policy' = policy + 1
  /\ phase' = IF policy' = MaxVersion THEN "stop"
              ELSE IF Rounds + 1 = UpdatesPerRollout THEN "sample" ELSE "update"
  /\ UNCHANGED <<launched, paused, error, sent, request, server>>

\* train()'s finally, or atexit when the constructor failed: SIGTERM, then SIGKILL.
Stop ==
  /\ phase = "stop" /\ phase' = "ended"
  /\ server' = IF launched THEN Off ELSE server
  /\ UNCHANGED <<launched, paused, error, policy, sent, request, rollout>>

Ended == phase = "ended" /\ UNCHANGED vars

Next ==
  \/ Loaded \/ Exits
  \/ Start \/ Wait \/ Handshake
  \/ Pause \/ BeginUpdate \/ Send \/ UpdateWeights \/ Transferred \/ FinishUpdate
  \/ ResetPrefixCache \/ Resume
  \/ Generate \/ Update \/ Stop \/ Ended

Spec == Init /\ [][Next]_vars

-----------------------------------------------------------------------------
\* "Synchronize only before a new rollout group", "invalidate caches derived from
\* old weights": the trajectories a policy is updated on belong, in order, to the
\* prompts they are credited to, were sampled with exactly the weights whose
\* log-probabilities are their old_logps, and with nothing cached under others,
\* whichever requests failed before and whatever server was found running.
RolloutsFromCreditedPolicy ==
  phase = "update" =>
    LET behaviour == IF rollout.old = Unset THEN policy ELSE rollout.old
    IN  /\ policy - behaviour < UpdatesPerRollout
        /\ \A i \in 1 .. Prompts * NumGenerations :
             LET c == rollout.completions[i]
             IN  /\ c.prompt = (i - 1) \div NumGenerations + 1
                 /\ c.weights = behaviour /\ c.cached \subseteq {behaviour}

=============================================================================
