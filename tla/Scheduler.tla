------------------------------ MODULE Scheduler ------------------------------
(***************************************************************************)
(* The continuous-batching scheduler (scheduling/scheduler.py) as          *)
(* functions on its state, a record                                        *)
(*   req      requests: prompt, outputs, limits, num_computed_tokens       *)
(*   waiting, running, lastDecode, lastPrefill, budget, kv                 *)
(*   steps    the number of schedule() calls, modulo 2                     *)
(*   age      steps - waiting_since, up to SwitchAge                       *)
(*   idle     steps - last_short_preemption, up to SwitchCooldown          *)
(*   displaced  short_preempted                                            *)
(* and the locals of schedule(): items, preempted, and blocked (the        *)
(* admission loop has met a waiter it could not admit).  The unbounded     *)
(* step counter is compared with those two thresholds only; of the counter *)
(* itself its parity is kept, so that every step changes the state.        *)
(***************************************************************************)
EXTENDS KVTables, FairShares

CONSTANTS Ids,
          MaxModelLen, MaxNumSeqs,
          NumDraftTokens,       (* 0: no speculative decoding               *)
          EnableChunkedPrefill,
          MaxPrefillChunk,      (* max_prefill_chunk_size, 0 for None       *)
          MaxPrefillTokens,     (* max_prefill_tokens_per_step, 0 for None  *)
          ShortPreemption,      (* short_request_preemption                 *)
          SwitchAge,            (* 8 in the code: steps waited at the head  *)
          SwitchCooldown,       (* 32 in the code: steps between switches   *)
          SwitchFactor,         (* 4 in the code: weight of the new work    *)
          NoId                  (* no request was served yet                *)

ASSUME LimitsAssumption ==
  /\ MaxModelLen \in Nat \ {0} /\ MaxNumSeqs \in Nat \ {0}
  /\ NumDraftTokens \in Nat
  /\ EnableChunkedPrefill \in BOOLEAN /\ ShortPreemption \in BOOLEAN
  /\ MaxPrefillChunk \in Nat /\ MaxPrefillTokens \in Nat
  /\ SwitchAge \in Nat /\ SwitchCooldown \in Nat /\ SwitchFactor \in Nat
  /\ NoId \notin Ids

\* Engine.__init__ refuses a pool smaller than the context limit.
ASSUME PoolFitsContext == NumBlocks * BlockSize >= MaxModelLen

\* EngineConfig.__post_init__: whole prompts need a whole-prompt budget.
ASSUME UnchunkedAssumption ==
  ~EnableChunkedPrefill =>
    /\ MaxPrefillChunk = 0
    /\ MaxPrefillTokens = 0 \/ MaxPrefillTokens >= MaxModelLen

NewScheduler(budget) ==
  [req |-> [r \in {} |-> 0], waiting |-> <<>>, running |-> <<>>, kv |-> EmptyKV,
   lastDecode |-> NoId, lastPrefill |-> NoId, budget |-> budget,
   steps |-> 0, age |-> [r \in Ids |-> 0], idle |-> SwitchCooldown, displaced |-> {},
   items |-> <<>>, preempted |-> {}, blocked |-> FALSE]

TokenIds(q) == q.prompt \o q.out
NumTokens(q) == Len(q.prompt) + Len(q.out)
IsPrefill(q) == q.computed < Len(q.prompt) \/ NumTokens(q) - q.computed > 1
Remaining(q) == Least(q.max - Len(q.out), MaxModelLen - NumTokens(q))

Added(s, r, work) ==
  [s EXCEPT !.req = [x \in DOMAIN @ \cup {r} |->
              IF x = r THEN [prompt |-> work.prompt, out |-> <<>>, max |-> work.max,
                             salt |-> work.salt, computed |-> 0, status |-> "waiting"]
              ELSE @[x]],
            !.waiting = Append(@, r)]

\* Engine._finish: the request leaves the scheduler and the runner's cache.
Finished(s, r) ==
  [s EXCEPT !.req       = [x \in DOMAIN @ \ {r} |-> @[x]],
            !.running   = Kept(@, Ids \ {r}),
            !.waiting   = Kept(@, Ids \ {r}),
            !.age[r]    = 0,
            !.displaced = @ \ {r},
            !.kv        = ReleasedRequest(@, r)]

-----------------------------------------------------------------------------
AttachedTo(s, r) ==
  IF r \in Live(s.kv) THEN s ELSE
  LET kv == Attached(s.kv, r, TokenIds(s.req[r]), s.req[r].salt)
  IN  [s EXCEPT !.kv = kv, !.req[r].computed = Computed(kv, r)]

\* A lookup that leads nowhere gives its pages back.
Detached(s, r) ==
  [s EXCEPT !.kv = ReleasedRequest(@, r), !.req[r].computed = 0]

\* Mutation: the request goes back to the queue with its progress counter.
PreemptedWithProgress(s, r) ==
  [s EXCEPT !.kv = ReleasedRequest(@, r), !.req[r].status = "waiting",
            !.running = Kept(@, Ids \ {r}), !.waiting = Append(@, r), !.age[r] = 0]

\* Mutation: the request is not queued again.
PreemptedForgotten(s, r) ==
  [s EXCEPT !.kv = ReleasedRequest(@, r), !.req[r].computed = 0, !.req[r].status = "waiting",
            !.running = Kept(@, Ids \ {r}), !.age[r] = 0]

\* Mutation: the request is queued again but stays among the running ones.
PreemptedStillRunning(s, r) ==
  [s EXCEPT !.kv = ReleasedRequest(@, r), !.req[r].computed = 0, !.req[r].status = "waiting",
            !.waiting = Append(@, r), !.age[r] = 0]

Preempted(s, r) ==
  [s EXCEPT !.kv              = ReleasedRequest(@, r),
            !.req[r].computed = 0,
            !.req[r].status   = "waiting",
            !.running         = Kept(@, Ids \ {r}),
            !.waiting         = Append(@, r),
            !.age[r]          = 0]

PressurePreempted(s, r) ==
  [Preempted(s, r) EXCEPT !.preempted = @ \cup {r}]

Selected(s) == {s.items[i].rid : i \in 1 .. Len(s.items)}

-----------------------------------------------------------------------------
(* _short_request_switch: give the place of a long request to the waiting  *)
(* head, at most once per request and once per cooldown.                   *)

HeadPages(s) == CeilDiv(Least(MaxModelLen, NumTokens(s.req[Head(s.waiting)]) + 1))

\* Blocks that only r uses.
FreedBy(s, r) == {b \in ToSet(s.kv.states[r].blocks) : s.kv.pool.refCounts[b] = 1}

SwitchDue(s) ==
  /\ ShortPreemption /\ s.waiting # <<>>
  /\ s.idle >= SwitchCooldown
  /\ s.age[Head(s.waiting)] >= SwitchAge
  /\ Len(s.running) >= MaxNumSeqs \/ HeadPages(s) > Len(s.kv.pool.free)

SwitchVictims(s) ==
  LET head == s.req[Head(s.waiting)]
      work == NumTokens(head) + Remaining(head)
  IN  {r \in ToSet(s.running) \ s.displaced :
         /\ s.req[r].computed > NumTokens(head)
         /\ Remaining(s.req[r]) > SwitchFactor * work + s.req[r].computed
         /\ HeadPages(s) <= Len(s.kv.pool.free) + Cardinality(FreedBy(s, r))}

\* The schedulers a switch may leave: the victim has the most work left; a
\* tie is decided by the order of the request ids, which may be any.
AfterSwitch(s) ==
  IF ~SwitchDue(s) \/ SwitchVictims(s) = {} THEN {s}
  ELSE {[Preempted(s, r) EXCEPT !.displaced = @ \cup {r}, !.idle = 0] :
          r \in {r \in SwitchVictims(s) :
                   \A x \in SwitchVictims(s) : Remaining(s.req[x]) <= Remaining(s.req[r])}}

-----------------------------------------------------------------------------
(* append(): select a request for this step, or find that it cannot run.   *)

\* Mutation: two tokens of growth, beyond the context limit too.
AdmissionEndUncapped(q) == NumTokens(q) + 2

\* The whole known history and one token of growth.
AdmissionEnd(q) ==
  Least(MaxModelLen, NumTokens(q) + (IF Remaining(q) # 0 THEN 1 ELSE 0))

\* Whom pressure may preempt for r, the youngest first.
Evictable(s, r) ==
  Reverse(Kept(s.running, Ids \ (Selected(s) \cup {r})))

\* The batch entry for r, which is now running.
WithItem(s, r, count, phase) ==
  LET q == s.req[r]
      t == [s EXCEPT !.items = Append(@, [rid |-> r, start |-> q.computed, count |-> count, phase |-> phase,
                                          sample |-> q.computed + count = NumTokens(q), drafts |-> 0])]
  IN  IF q.status # "waiting" THEN t
      ELSE [t EXCEPT !.waiting = Kept(@, Ids \ {r}), !.running = Append(@, r),
                     !.age[r] = 0, !.req[r].status = "running"]

\* The first k victims are preempted.
EvictedAll(s, victims, k) == Loop(LAMBDA t, i : PressurePreempted(t, victims[i]), s, k)

\* Preempt as few victims as make room for r up to end; r itself as the last resort.
WithRoom(s, r, count, phase) ==
  LET end      == s.req[r].computed + count
      victims  == Evictable(s, r)
      after(k) == EvictedAll(s, victims, k)
      enough   == {k \in 0 .. Len(victims) : CanReserve(after(k).kv, r, end)}
      least    == CHOOSE k \in enough : \A j \in enough : k <= j
  IN  IF enough # {}
      THEN WithItem([after(least) EXCEPT !.kv = Reserved(@, r, end)], r, count, phase)
      ELSE IF r \in ToSet(s.running) THEN PressurePreempted(after(Len(victims)), r)
           ELSE Detached(after(Len(victims)), r)

\* append succeeded iff r is Selected in the result.
Appended(s, r, want, phase) ==
  IF r \in s.preempted THEN s ELSE
  LET hit   == AttachedTo(s, r)
      count == Least(want, NumTokens(hit.req[r]) - hit.req[r].computed)
      end   == AdmissionEnd(hit.req[r])
  IN  IF hit.req[r].status # "waiting" THEN WithRoom(hit, r, count, phase)
      ELSE IF CanReserve(hit.kv, r, end)
           THEN WithRoom([hit EXCEPT !.kv = Reserved(@, r, end)], r, count, phase)
           ELSE Detached(hit, r)

-----------------------------------------------------------------------------
(* Decodes come first, one token each, then their draft tokens.            *)

DecodeAppended(s, r) ==
  LET t == Appended(s, r, 1, "decode")
  IN  IF r \in Selected(t) THEN [t EXCEPT !.lastDecode = r] ELSE t

WithDecodes(s) ==
  LET decodes == RotateAfter(Kept(s.running, {r \in DOMAIN s.req : ~IsPrefill(s.req[r])}), s.lastDecode)
  IN  Loop(LAMBDA t, i : DecodeAppended(t, decodes[i]), s, Least(s.budget, Len(decodes)))

\* Tokens of the step's budget the selected items do not use.
BudgetLeft(s) ==
  s.budget - Total([i \in 1 .. Len(s.items) |-> s.items[i].count + s.items[i].drafts])

\* A request that has one token left to emit has nothing to draft.
DraftDemand(q) == Least(NumDraftTokens, Most(0, Remaining(q) - 1))

\* Mutation: the drafts are scheduled although there are no pages for them.
DraftedUnreserved(s, i, count) == [s EXCEPT !.items[i].drafts = count]

\* Lookahead pages for the drafts of the i-th item, if the pool has them.
Drafted(s, i, count) ==
  LET item == s.items[i]
      end  == item.start + item.count + count
  IN  IF count > 0 /\ CanReserve(s.kv, item.rid, end)
      THEN [s EXCEPT !.kv = Reserved(@, item.rid, end), !.items[i].drafts = count]
      ELSE s

WithDrafts(s) ==
  LET counts == FairChunks([i \in 1 .. Len(s.items) |-> DraftDemand(s.req[s.items[i].rid])], BudgetLeft(s))
  IN  IF NumDraftTokens = 0 THEN s
      ELSE Loop(LAMBDA t, i : Drafted(t, i, counts[i]), s, Len(s.items))

-----------------------------------------------------------------------------
(* Prefills share what is left; waiting requests follow in arrival order.  *)

Todo(s, r) == NumTokens(s.req[r]) - s.req[r].computed

PrefillBudget(s) ==
  IF MaxPrefillTokens = 0 THEN BudgetLeft(s) ELSE Least(BudgetLeft(s), MaxPrefillTokens)

\* How many waiting requests may be considered.
AdmissionCount(s, prefills) ==
  LET slots == MaxNumSeqs - Len(s.running)
  IN  IF EnableChunkedPrefill THEN Least(slots, Most(0, PrefillBudget(s) - Len(prefills))) ELSE slots

Chunks(s, candidates) ==
  FairChunks([i \in 1 .. Len(candidates) |->
                IF MaxPrefillChunk = 0 THEN Least(Todo(s, candidates[i]), PrefillBudget(s))
                ELSE Least(Todo(s, candidates[i]), MaxPrefillChunk)],
             PrefillBudget(s))

\* Mutation: prompts that do not fit are skipped, later ones still run.
WholePromptsSkipping(s, candidates) ==
  FoldLeft(LAMBDA counts, r : Append(counts, IF Total(counts) + Todo(s, r) <= PrefillBudget(s) THEN Todo(s, r) ELSE 0),
           <<>>, candidates)

\* Whole prompts, up to the first that does not fit.
WholePrompts(s, candidates) ==
  LET todo == [i \in 1 .. Len(candidates) |-> Todo(s, candidates[i])]
      fits == {k \in 0 .. Len(candidates) : Total(SubSeq(todo, 1, k)) <= PrefillBudget(s)}
  IN  SubSeq(todo, 1, CHOOSE k \in fits : \A j \in fits : j <= k)

PrefillAppended(s, r, count) ==
  IF s.blocked \/ count = 0 THEN s ELSE
  LET t == Appended(s, r, count, "prefill")
  IN  IF r \in Selected(t) THEN [t EXCEPT !.lastPrefill = r]
      ELSE [t EXCEPT !.blocked = s.req[r].status = "waiting"]

WithPrefills(s) ==
  LET filling    == Kept(s.running, {r \in DOMAIN s.req : IsPrefill(s.req[r])})
      prefills   == IF EnableChunkedPrefill THEN RotateAfter(filling, s.lastPrefill) ELSE filling
      waiting    == Kept(s.waiting, Ids \ s.preempted)
      candidates == prefills \o SubSeq(waiting, 1, Least(AdmissionCount(s, prefills), Len(waiting)))
      hit        == Loop(LAMBDA t, i : AttachedTo(t, prefills[i]), s, Len(prefills))
      counts     == IF EnableChunkedPrefill THEN Chunks(hit, candidates) ELSE WholePrompts(hit, candidates)
  IN  Loop(LAMBDA t, i : PrefillAppended(t, candidates[i], counts[i]), hit, Len(counts))

\* Waiting requests keep no page after the step.
WaitersDetached(s) == Loop(LAMBDA t, i : Detached(t, s.waiting[i]), s, Len(s.waiting))

-----------------------------------------------------------------------------
\* The step counter advances.
Ticked(s) ==
  [s EXCEPT !.steps = (@ + 1) % 2,
            !.idle = Least(SwitchCooldown, @ + 1),
            !.age  = [r \in Ids |-> IF r \in ToSet(s.waiting) THEN Least(SwitchAge, @[r] + 1) ELSE 0]]

\* schedule(): the schedulers one call may leave, with the batch in items.
Scheduled(s) ==
  {LET t == WithDrafts(WithDecodes(u))
   IN  IF PrefillBudget(t) = 0 THEN t ELSE WaitersDetached(WithPrefills(t)) : u \in AfterSwitch(Ticked(s))}

=============================================================================
