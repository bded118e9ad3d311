------------------------------- MODULE Engine -------------------------------
(***************************************************************************)
(* The engine loop (engine/core.py) over the scheduler and the KV cache.   *)
(* A step is schedule, one runner execution and the processing of its      *)
(* samples; it is split where the runner takes over, and nothing else can  *)
(* happen in between.  Requests are added and cancelled between steps.     *)
(***************************************************************************)
EXTENDS Scheduler

CONSTANTS Workloads,      (* what requests ask for: [prompt, max, salt]      *)
          OutTokens,      (* the tokens the model may sample                 *)
          Stop,           (* the one of them that ends a request             *)
          Budgets,        (* values of set_token_budget                      *)
          MaxArrivals     (* bound: requests submitted in a behaviour        *)

ASSUME StopAssumption == Stop \in OutTokens
ASSUME BudgetsAssumption ==
  /\ Budgets # {} /\ Budgets \subseteq Nat \ {0}
  /\ ~EnableChunkedPrefill => \A b \in Budgets : b >= MaxModelLen

Vocabulary == OutTokens \cup UNION {ToSet(w.prompt) : w \in Workloads}
Salts == {w.salt : w \in Workloads}

ASSUME WorkloadsAssumption ==
  \A w \in Workloads :
    w.max \in Nat /\ w.prompt \in Seq(Vocabulary) /\ Len(w.prompt) \in 1 .. MaxModelLen

\* None is not a hash.
ASSUME NoKeyAssumption == NoKey \notin Salts \X Seq(Vocabulary)

VARIABLES sched,      (* the scheduler and the KV cache                      *)
          pending,    (* ids of _pending_outputs: finished without a step    *)
          batch,      (* the items the runner is executing                   *)
          closed,
          arrivals    (* number of requests submitted so far                 *)

vars == <<sched, pending, batch, closed, arrivals>>

Unfinished == DOMAIN sched.req
BetweenSteps == ~closed /\ batch = <<>>

Init ==
  /\ sched \in {NewScheduler(b) : b \in Budgets}
  /\ pending = <<>> /\ batch = <<>>
  /\ closed = FALSE /\ arrivals = 0

-----------------------------------------------------------------------------
\* add_request; one that has nothing to generate is finished on arrival.
AddRequest(r, work) ==
  /\ BetweenSteps /\ arrivals < MaxArrivals
  /\ r \notin Unfinished /\ r \notin ToSet(pending)
  /\ arrivals' = arrivals + 1
  /\ IF work.max = 0 \/ Len(work.prompt) = MaxModelLen
     THEN sched' = Finished(Added(sched, r, work), r) /\ pending' = Append(pending, r)
     ELSE sched' = Added(sched, r, work) /\ UNCHANGED pending
  /\ UNCHANGED <<batch, closed>>

CancelRequest(r) ==
  /\ BetweenSteps /\ r \in Unfinished
  /\ sched' = Finished(sched, r)
  /\ UNCHANGED <<pending, batch, closed, arrivals>>

SetTokenBudget(b) ==
  /\ BetweenSteps
  /\ sched' = [sched EXCEPT !.budget = b]
  /\ UNCHANGED <<pending, batch, closed, arrivals>>

\* Several requests are over, one after the other.
FinishedAll(s, rids) == Loop(LAMBDA t, i : Finished(t, rids[i]), s, Len(rids))

\* close(): everything unfinished is cancelled.
Close ==
  /\ BetweenSteps
  /\ sched' = FinishedAll(sched, SetToSeq(Unfinished))
  /\ pending' = <<>> /\ closed' = TRUE
  /\ UNCHANGED <<batch, arrivals>>

-----------------------------------------------------------------------------
CanSchedule == BetweenSteps /\ (Unfinished # {} \/ pending # <<>>)

\* The first half of step(); with nothing to run it delivers what is pending.
Schedule ==
  /\ CanSchedule
  /\ \E s \in Scheduled(sched) :
       /\ sched' = [s EXCEPT !.items = <<>>, !.preempted = {}, !.blocked = FALSE]
       /\ batch' = s.items
       /\ pending' = IF s.items = <<>> THEN <<>> ELSE pending
  /\ UNCHANGED <<closed, arrivals>>

\* What the decoder may return for an item: nothing for a partial prompt, one
\* token, or with drafts the accepted ones and one more, cut at a stop token.
Emissions(item) ==
  IF ~item.sample THEN {<<>>}
  ELSE {e \in UNION {[1 .. n -> OutTokens] : n \in 1 .. item.drafts + 1} :
          \A i \in 1 .. Len(e) - 1 : e[i] # Stop}

\* The tokens an item commits: its slice of the input, or the token it was
\* given followed by the accepted drafts.
CommittedTokens(q, item, emitted) ==
  IF item.drafts = 0 THEN SubSeq(TokenIds(q), item.start + 1, item.start + item.count)
  ELSE SubSeq(TokenIds(q) \o emitted, item.start + 1, item.start + Len(emitted))

\* The runner and the decoder: commit, and trim unused lookahead pages.
Executed(s, item, emitted) ==
  LET new == CommittedTokens(s.req[item.rid], item, emitted)
      kv  == Committed(s.kv, item.rid, new)
  IN  [s EXCEPT !.kv = IF NumDraftTokens > 0 /\ item.phase = "decode" THEN Trimmed(kv, item.rid) ELSE kv,
                !.req[item.rid].computed = @ + Len(new)]

\* A request is over with a stop token, its last allowed token, or a full context.
Ends(q, emitted, i) ==
  \/ emitted[i] = Stop
  \/ Len(q.out) + i >= q.max
  \/ NumTokens(q) + i >= MaxModelLen

\* step() appends the emitted tokens up to the one that ends the request.
Sampled(s, item, emitted) ==
  LET q    == s.req[item.rid]
      ends == {i \in 1 .. Len(emitted) : Ends(q, emitted, i)}
  IN  IF ends # {} THEN Finished(s, item.rid)
      ELSE [s EXCEPT !.req[item.rid].out = @ \o emitted]

\* The runner commits the whole batch before the samples are processed.
ExecutedAll(s, emitted) == Loop(LAMBDA t, i : Executed(t, batch[i], emitted[i]), s, Len(batch))
SampledAll(s, emitted)  == Loop(LAMBDA t, i : Sampled(t, batch[i], emitted[i]), s, Len(batch))

\* The second half of step().
Execute(emitted) ==
  /\ batch # <<>>
  /\ \A i \in 1 .. Len(batch) : emitted[i] \in Emissions(batch[i])
  /\ sched' = SampledAll(ExecutedAll(sched, emitted), emitted)
  /\ pending' = <<>> /\ batch' = <<>>
  /\ UNCHANGED <<closed, arrivals>>

\* The runner or the sampler raised: the batch's requests end with an error.
ExecuteFails ==
  /\ batch # <<>>
  /\ sched' = FinishedAll(sched, [i \in 1 .. Len(batch) |-> batch[i].rid])
  /\ batch' = <<>>
  /\ UNCHANGED <<pending, closed, arrivals>>

ExecuteSome ==
  \E emitted \in [1 .. Len(batch) -> UNION {[1 .. n -> OutTokens] : n \in 0 .. NumDraftTokens + 1}] :
    Execute(emitted)

Next ==
  \/ \E r \in Ids, work \in Workloads : AddRequest(r, work)
  \/ \E r \in Ids : CancelRequest(r)
  \/ \E b \in Budgets : SetTokenBudget(b)
  \/ Close
  \/ Schedule
  \/ ExecuteSome
  \/ ExecuteFails

Spec == Init /\ [][Next]_vars

\* Engine.run and the service call step for as long as something is
\* unfinished, and a runner call returns or raises: weak fairness of the two
\* halves of step(), with what enables them written out.
FairSpec ==
  /\ Spec
  /\ []<>~CanSchedule \/ []<><<Schedule>>_vars
  /\ []<>(batch = <<>>) \/ []<><<ExecuteSome \/ ExecuteFails>>_vars

-----------------------------------------------------------------------------
Members(queue, status) ==
  /\ ToSet(queue) = {r \in Unfinished : sched.req[r].status = status}
  /\ IsInjective(queue)

\* However requests are admitted, preempted, switched, cancelled, failed and
\* resubmitted, each is in the one queue its status names, the running ones fit
\* the limit, and exactly they hold a block table: "Waiting prefix lookups do
\* not pin pages" (docs/architecture), and nothing finished leaks pages.
PagesOnlyForRunning ==
  /\ Members(sched.waiting, "waiting") /\ Members(sched.running, "running")
  /\ Len(sched.running) <= MaxNumSeqs
  /\ Live(sched.kv) = ToSet(sched.running)
  /\ \A b \in Blocks : sched.kv.pool.refCounts[b]
       = Cardinality({r \in Live(sched.kv) : b \in ToSet(sched.kv.states[r].blocks)})

\* num_computed_tokens, which schedules the next slice, is what the cache has
\* committed of exactly this request's tokens, and at least one token is always
\* left to compute: 0 <= C < T <= max_model_len for every unfinished request.
ComputedMatchesCache ==
  \A r \in Unfinished :
    LET q == sched.req[r]
    IN  /\ q.computed < NumTokens(q) /\ NumTokens(q) <= MaxModelLen
        /\ IF r \in Live(sched.kv)
           THEN sched.kv.states[r].tokens = SubSeq(TokenIds(q), 1, q.computed)
           ELSE q.computed = 0

\* What is handed to the runner can run: no more than max_num_seqs requests, each
\* once, no more tokens than the budgets, drafts charged too; each slice continues
\* the cached tokens, and the pages for it and its drafts are still there after
\* everything the rest of the step preempted, so the runner's own reserve takes no
\* block.  The scheduler "never preempts a request already selected in the current
\* batch".
BatchReady ==
  LET used(phases) == Total([i \in 1 .. Len(batch) |->
                               IF batch[i].phase \in phases THEN batch[i].count + batch[i].drafts ELSE 0])
  IN  /\ Len(batch) <= MaxNumSeqs /\ used({"decode", "prefill"}) <= sched.budget
      /\ MaxPrefillTokens # 0 => used({"prefill"}) <= MaxPrefillTokens
      /\ IsInjective([i \in 1 .. Len(batch) |-> batch[i].rid])
      /\ \A i \in 1 .. Len(batch) :
           LET item == batch[i]
               end  == item.start + item.count + item.drafts
           IN  /\ item.rid \in ToSet(sched.running)
               /\ item.count > 0 /\ end <= MaxModelLen
               /\ item.start = Computed(sched.kv, item.rid)
               /\ Demand(sched.kv, item.rid, end) = 0

\* "A blocked FIFO head is not bypassed": when a step admits a waiting request,
\* it has admitted everyone who was ahead of it.
HeadNotBypassed ==
  [][\A i, j \in 1 .. Len(sched.waiting) :
       i < j /\ sched.waiting[j] \in ToSet(sched'.running)
         => sched.waiting[i] \notin ToSet(sched'.waiting)]_vars

\* Preemption never turns a step into nothing: while a request is unfinished,
\* schedule() returns at least one item, whatever the pool has to give up for it.
StepHasWork == [][Schedule /\ Unfinished # {} => batch' # <<>>]_vars

\* "finite output/context limits guarantee eventual progress for a finite
\* workload": preemption, recomputation, switching and rotation starve nobody,
\* and once the last request has arrived the engine runs dry.
WorkloadDrains == <>[](Unfinished = {})

=============================================================================
