-------------------------- MODULE RolloutSyncProofs --------------------------
(* Every rollout the policy is updated on was sampled with the weights it   *)
(* is credited to, for every number of prompts, completions and updates,    *)
(* whichever requests fail and whenever the server exits.                   *)
EXTENDS RolloutSync, SequenceTheorems, TLAPS

Parameters ==
  /\ Prompts \in Nat \ {0} /\ NumGenerations \in Nat \ {0}
  /\ UpdatesPerRollout \in Nat \ {0} /\ MaxVersion \in Nat \ {0}

Expected == Prompts * NumGenerations

-----------------------------------------------------------------------------
(* The inductive invariant: what the server holds in each phase.            *)

\* The server's state, by type.
Servers ==
  [up : {"off", "loading", "healthy", "exited"}, paused : BOOLEAN, session : BOOLEAN,
   weights : Int, cached : SUBSET Int]

\* Only numbers and the fields that are assigned one by one need a type.
Shape ==
  /\ policy \in Nat
  /\ server \in Servers

\* Once the handshake is done, the server does not become healthy again.
Started == phase \notin {"start", "wait", "handshake", "stop", "ended"} => server.up \in {"healthy", "exited"}

HoldsPolicy == server.up = "healthy" => server.weights = policy

\* The whole transfer was sent, or it was also acknowledged, or nothing failed since.
Transferring == phase = "transfer" /\ sent = "sent" => HoldsPolicy
Installed == phase \in {"finish", "reset", "generate"} \/ (phase = "resume" /\ ~error) => HoldsPolicy
CacheIsFresh == phase = "generate" \/ (phase = "resume" /\ ~error) =>
                  (server.up = "healthy" => server.cached \subseteq {policy})

\* The policy whose weights the trajectories were sampled with.
Behaviour == IF rollout.old = Unset THEN policy ELSE rollout.old

Sourced(completions, behaviour) ==
  \A i \in 1 .. Expected :
    LET c == completions[i]
    IN  /\ c.prompt = (i - 1) \div NumGenerations + 1
        /\ c.weights = behaviour /\ c.cached \subseteq {behaviour}

Credited ==
  phase = "update" =>
    /\ rollout.old \in Nat \cup {Unset}
    /\ rollout.old # Unset => rollout.old <= policy
    /\ policy - Behaviour < UpdatesPerRollout
    /\ Sourced(rollout.completions, Behaviour)

Attributed == Shape /\ Started /\ Transferring /\ Installed /\ CacheIsFresh /\ Credited

-----------------------------------------------------------------------------
(* Sorting by index undoes the order of an answer.                          *)

LEMMA SampledIsSequence ==
  ASSUME Parameters
  PROVE  /\ Expected \in Nat /\ Len(Sampled) = Expected /\ DOMAIN Sampled = 1 .. Expected
         /\ \A i \in 1 .. Expected : Sampled[i].index = i
<1>1. Expected \in Nat
  BY DEF Parameters, Expected
<1>2. DOMAIN Sampled = 1 .. Expected
  BY DEF Sampled, Expected
<1>3. \A i \in 1 .. Expected :
        Sampled[i] = [index |-> i, prompt |-> (i - 1) \div NumGenerations + 1,
                      weights |-> server.weights, cached |-> server.cached]
  BY DEF Sampled, Expected
<1>4. Sampled \in [1 .. Expected -> {Sampled[i] : i \in 1 .. Expected}]
  BY DEF Sampled, Expected
<1>5. Sampled \in Seq({Sampled[i] : i \in 1 .. Expected})
  BY <1>1, <1>4
<1>6. Len(Sampled) = Expected
  BY <1>1, <1>2, <1>5
<1> QED BY <1>1, <1>2, <1>3, <1>6

LEMMA SortingRestoresOrder ==
  ASSUME Parameters, NEW answer \in {Sampled, Reverse(Sampled)}
  PROVE  ByIndex(answer) = Sampled
<1> DEFINE n == Expected
<1>1. /\ n \in Nat /\ Len(Sampled) = n /\ DOMAIN Sampled = 1 .. n
      /\ \A i \in 1 .. n : Sampled[i].index = i
  BY SampledIsSequence
<1>2. Sampled = [i \in 1 .. n |-> Sampled[i]]
  BY DEF Sampled, Expected
<1>3. Reverse(Sampled) = [i \in 1 .. n |-> Sampled[(n - i) + 1]]
  BY <1>1 DEF Servers, Reverse
<1>4. Len(answer) = n /\ ToSet(answer) = {Sampled[i] : i \in 1 .. n}
  <2>1. CASE answer = Sampled
    BY <2>1, <1>1 DEF ToSet
  <2>2. CASE answer = Reverse(Sampled)
    <3>1. \A i \in 1 .. n : (n - i) + 1 \in 1 .. n
      BY <1>1
    <3>2. Reverse(Sampled) \in [1 .. n -> {Sampled[i] : i \in 1 .. n}]
      BY <1>3, <3>1
    <3>3. Reverse(Sampled) \in Seq({Sampled[i] : i \in 1 .. n})
      BY <3>2, <1>1
    <3>4. Len(Reverse(Sampled)) = n
      BY <3>2, <3>3, <1>1
    <3>5. \A i \in 1 .. n : Sampled[i] = Reverse(Sampled)[(n - i) + 1]
      <4> SUFFICES ASSUME NEW i \in 1 .. n PROVE Sampled[i] = Reverse(Sampled)[(n - i) + 1]
        OBVIOUS
      <4>1. (n - i) + 1 \in 1 .. n /\ (n - ((n - i) + 1)) + 1 = i
        BY <1>1
      <4> QED BY <4>1, <1>3
    <3>6. ToSet(Reverse(Sampled)) = {Sampled[i] : i \in 1 .. n}
      BY <3>1, <3>2, <3>5, <1>3 DEF ToSet
    <3> QED BY <2>2, <3>4, <3>6
  <2> QED BY <2>1, <2>2
<1>5. ASSUME NEW i \in 1 .. n
      PROVE  (CHOOSE choice \in ToSet(answer) : choice.index = i) = Sampled[i]
  <2>1. Sampled[i] \in ToSet(answer) /\ Sampled[i].index = i
    BY <1>1, <1>4
  <2>2. \A c \in ToSet(answer) : c.index = i => c = Sampled[i]
    BY <1>1, <1>4
  <2> QED BY <2>1, <2>2
<1>6. ByIndex(answer) = [i \in 1 .. n |-> CHOOSE choice \in ToSet(answer) : choice.index = i]
  BY <1>4 DEF ByIndex
<1>7. [i \in 1 .. n |-> CHOOSE choice \in ToSet(answer) : choice.index = i] = [i \in 1 .. n |-> Sampled[i]]
  BY <1>5
<1> QED BY <1>2, <1>6, <1>7

-----------------------------------------------------------------------------
LEMMA OffIsServer ==
  /\ Off \in Servers /\ [Off EXCEPT !.up = "exited"] \in Servers /\ [Off EXCEPT !.up = "loading"] \in Servers
  /\ [Off EXCEPT !.up = "healthy", !.weights = Unset, !.cached = {Unset}] \in Servers
  /\ Off.up = "off" /\ [Off EXCEPT !.up = "exited"].up = "exited"
<1>1. Off \in Servers /\ Off.up = "off"
  BY DEF Off, Servers
<1>2. \A r \in Servers : \A u \in {"loading", "exited"} :
        [r EXCEPT !.up = u] \in Servers /\ [r EXCEPT !.up = u].up = u
  BY DEF Servers
<1>3. \A r \in Servers : \A w \in Int : \A c \in SUBSET Int :
        [r EXCEPT !.up = "healthy", !.weights = w, !.cached = c] \in Servers
  BY DEF Servers
<1>4. Unset \in Int /\ {Unset} \in SUBSET Int
  BY DEF Unset
<1> QED BY <1>1, <1>2, <1>3, <1>4

LEMMA InitAttributed == Parameters /\ Init => Attributed
<1> SUFFICES ASSUME Parameters, Init PROVE Attributed
  OBVIOUS
<1>1. Shape
  BY OffIsServer DEF Init, Shape
<1>2. phase = "start"
  BY DEF Init
<1> QED BY <1>1, <1>2 DEF Attributed, Started, Transferring, Installed, CacheIsFresh, Credited

LEMMA NextAttributed ==
  ASSUME Parameters, Attributed, [Next]_vars
  PROVE  Attributed'
<1> USE DEF Attributed
<1>1. CASE Loaded
  BY <1>1 DEF Servers, Loaded, Shape, Started, Transferring, Installed, CacheIsFresh, Credited,
       HoldsPolicy, Behaviour, Sourced
<1>2. CASE Exits
  BY <1>2, OffIsServer DEF Exits, Shape, Started, Transferring, Installed, CacheIsFresh, Credited,
       HoldsPolicy, Behaviour, Sourced
<1>3. CASE Start
  BY <1>3, OffIsServer DEF Start, Shape, Started, Transferring, Installed, CacheIsFresh, Credited,
       HoldsPolicy
<1>4. CASE Wait
  BY <1>4 DEF Wait, Shape, Started, Transferring, Installed, CacheIsFresh, Credited
<1>5. CASE Handshake
  BY <1>5 DEF Handshake, Answered, Failed, Shape, Started, Transferring, Installed, CacheIsFresh,
       Credited
<1>6. CASE Pause
  BY <1>6 DEF Servers, Pause, Call, Answered, Failed, Shape, Started, Transferring, Installed,
       CacheIsFresh, Credited
<1>7. CASE BeginUpdate
  BY <1>7 DEF Servers, BeginUpdate, Call, Answered, Failed, Shape, Started, Transferring, Installed,
       CacheIsFresh, Credited
<1>8. CASE Send
  BY <1>8 DEF Servers, Send, Torn, Shape, Started, Transferring, Installed, CacheIsFresh, Credited,
       HoldsPolicy
<1>9. CASE UpdateWeights
  BY <1>9 DEF UpdateWeights, Shape, Started, Transferring, Installed, CacheIsFresh, Credited, HoldsPolicy
<1>10. CASE Transferred
  BY <1>10 DEF Transferred, Shape, Started, Transferring, Installed, CacheIsFresh, Credited, HoldsPolicy
<1>11. CASE FinishUpdate
  BY <1>11 DEF Servers, FinishUpdate, Call, Answered, Failed, Shape, Started, Transferring, Installed,
       CacheIsFresh, Credited, HoldsPolicy
<1>12. CASE ResetPrefixCache
  BY <1>12 DEF Servers, ResetPrefixCache, Call, Answered, Failed, Shape, Started, Transferring,
       Installed, CacheIsFresh, Credited, HoldsPolicy
<1>13. CASE Resume
  BY <1>13 DEF Servers, Resume, Answered, Failed, Shape, Started, Transferring, Installed,
       CacheIsFresh, Credited, HoldsPolicy
<1>14. CASE Generate
  <2>1. policy' = policy /\ phase' \in {"update", "stop"}
    BY <1>14 DEF Generate
  <2>2. Shape' /\ Started'
    <3>1. server' \in Servers
      BY <1>14 DEF Generate, Failed, Shape, Servers
    <3>2. server'.up = server.up
      BY <1>14 DEF Generate, Failed, Shape, Servers
    <3> QED BY <1>14, <2>1, <3>1, <3>2 DEF Generate, Shape, Started
  <2>3. CASE phase' = "update"
    <3>1. PICK answer \in {Sampled, Reverse(Sampled)} :
            rollout' = [completions |-> ByIndex(answer), old |-> Unset]
      BY <1>14, <2>3 DEF Generate
    <3>2. rollout'.completions = Sampled /\ rollout'.old = Unset
      BY <3>1, SortingRestoresOrder
    <3>3. server.weights = policy /\ server.cached \subseteq {policy}
      BY <1>14, <2>3 DEF Generate, Installed, CacheIsFresh, HoldsPolicy
    <3>4. Sourced(Sampled, policy)
      BY <3>3 DEF Sourced, Sampled, Expected
    <3>5. policy - policy < UpdatesPerRollout
      BY DEF Shape, Parameters
    <3>6. Behaviour' = policy
      BY <2>1, <3>2 DEF Behaviour
    <3>7. Sourced(rollout'.completions, Behaviour')
      BY <3>2, <3>4, <3>6
    <3>8. Credited'
      BY <2>1, <3>2, <3>5, <3>6, <3>7 DEF Credited, Sourced
    <3> QED BY <2>2, <2>3, <3>8 DEF Transferring, Installed, CacheIsFresh
  <2>4. CASE phase' = "stop"
    BY <2>2, <2>4 DEF Transferring, Installed, CacheIsFresh, Credited
  <2> QED BY <2>1, <2>3, <2>4
<1>15. CASE Update
  <2>1. /\ phase = "update" /\ policy' = policy + 1 /\ server' = server
        /\ phase' \in {"stop", "sample", "update"}
        /\ phase' = "update" => Rounds + 1 # UpdatesPerRollout
    BY <1>15 DEF Update
  <2>2. rollout'.completions = rollout.completions /\ rollout'.old = Behaviour
    BY <1>15 DEF Update, Behaviour
  <2>3. Shape' /\ Started'
    BY <2>1 DEF Shape, Started
  <2>4. /\ Behaviour \in Nat /\ Behaviour <= policy /\ policy - Behaviour < UpdatesPerRollout
        /\ Sourced(rollout.completions, Behaviour) /\ policy \in Nat
    BY <2>1 DEF Credited, Behaviour, Shape
  <2>5. Behaviour' = Behaviour
    BY <2>2, <2>4 DEF Behaviour, Unset
  <2>6. Rounds = policy - Behaviour
    BY <2>4 DEF Rounds, Behaviour
  <2>7. phase' = "update" => policy + 1 - Behaviour < UpdatesPerRollout
    BY <2>1, <2>4, <2>6 DEF Parameters
  <2>8. Sourced(rollout'.completions, Behaviour')
    BY <2>2, <2>4, <2>5
  <2>9. Credited'
    BY <2>1, <2>2, <2>4, <2>5, <2>7, <2>8 DEF Credited, Sourced
  <2> QED BY <2>1, <2>3, <2>9 DEF Transferring, Installed, CacheIsFresh
<1>16. CASE Stop
  BY <1>16, OffIsServer DEF Stop, Shape, Started, Transferring, Installed, CacheIsFresh, Credited,
       HoldsPolicy
<1>17. CASE UNCHANGED vars
  BY <1>17 DEF vars, Shape, Started, Transferring, Installed, CacheIsFresh, Credited, HoldsPolicy,
       Behaviour, Sourced
<1> QED
  BY <1>1, <1>2, <1>3, <1>4, <1>5, <1>6, <1>7, <1>8, <1>9, <1>10, <1>11, <1>12, <1>13, <1>14, <1>15,
       <1>16,
     <1>17 DEF Next, Ended

\* RolloutsFromCreditedPolicy holds of every behaviour of sync_policy_weights,
\* _vllm_rollouts and the updates on their rollouts.
THEOREM RolloutsAreAttributed == ASSUME Parameters PROVE Spec => []RolloutsFromCreditedPolicy
<1>1. Init => Attributed
  BY InitAttributed
<1>2. Attributed /\ [Next]_vars => Attributed'
  BY NextAttributed
<1>3. Attributed => RolloutsFromCreditedPolicy
  BY DEF Attributed, Credited, Sourced, Expected, Behaviour, RolloutsFromCreditedPolicy
<1> QED BY <1>1, <1>2, <1>3, PTL DEF Spec

=============================================================================
