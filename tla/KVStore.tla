------------------------------- MODULE KVStore -------------------------------
(***************************************************************************)
(* What the KV cache promises its callers: every request has a private,    *)
(* append-only list of keys and values, one per committed token and model, *)
(* each computed from exactly the request's own tokens.  There are no      *)
(* blocks, no sharing and no eviction here.  A new request may start with  *)
(* the keys and values of a proper prefix of its tokens.                   *)
(***************************************************************************)
EXTENDS Naturals, Sequences, SequencesExt

CONSTANTS Requests, Salts, Prompts,
          Storages      (* the models whose keys and values are kept         *)

VARIABLE store          (* store[r]: [tokens, salt, values] of live request r *)

\* The entry of a request whose tokens are computed.
Entry(tokens, salt) ==
  [tokens |-> tokens, salt |-> salt,
   values |-> [m \in Storages |-> [i \in 1 .. Len(tokens) |-> SubSeq(tokens, 1, i)]]]

Init == store = [r \in {} |-> 0]

Start(r, tokens, salt, n) ==
  /\ r \notin DOMAIN store
  /\ store' = [x \in (DOMAIN store) \cup {r} |->
                 IF x = r THEN Entry(SubSeq(tokens, 1, n), salt) ELSE store[x]]

\* Some requests grow by the tokens of one forward; nobody else changes.
Extend(S) ==
  /\ DOMAIN store' = DOMAIN store
  /\ \A r \in (DOMAIN store) \ S : store'[r] = store[r]
  /\ \A r \in S :
       /\ IsStrictPrefix(store[r].tokens, store'[r].tokens)
       /\ store'[r] = Entry(store'[r].tokens, store[r].salt)

Copy(source, target) ==
  /\ source \in DOMAIN store /\ target \notin DOMAIN store
  /\ store' = [x \in (DOMAIN store) \cup {target} |->
                 IF x = target THEN store[source] ELSE store[x]]

Drop(r) ==
  /\ r \in DOMAIN store
  /\ store' = [x \in (DOMAIN store) \ {r} |-> store[x]]

Next ==
  \/ \E r \in Requests, tokens \in Prompts, salt \in Salts :
       \E n \in 0 .. Len(tokens) - 1 : Start(r, tokens, salt, n)
  \/ \E S \in (SUBSET DOMAIN store) \ {{}} : Extend(S)
  \/ \E source, target \in Requests : Copy(source, target)
  \/ \E r \in Requests : Drop(r)

Spec == Init /\ [][Next]_store
=============================================================================
