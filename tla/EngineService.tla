---------------------------- MODULE EngineService ----------------------------
(***************************************************************************)
(* The asyncio protocol of serving/service.py: HTTP tasks that submit,     *)
(* read, cancel and close, and the one loop task `_run` that owns the      *)
(* engine.  They share a bounded command queue, the set of reserved ids    *)
(* and one bounded output queue per request.                               *)
(*                                                                         *)
(* One action is one stretch of code between two awaits.  The loop's own   *)
(* stretches are cut further, into one command or one output per action;   *)
(* `LoopHasThread` then keeps every other task from running in between, as *)
(* the event loop does.  The engine is reduced to what the service sees of *)
(* it: how many steps each request still needs.                            *)
(***************************************************************************)
EXTENDS Naturals, Sequences, FiniteSets, Functions, SequencesExt

CONSTANTS
    Generators,      \* tasks that submit one request and read its stream
    Deleters,        \* tasks that serve one DELETE /requests/{id}
    Closer,          \* the task that shuts the service down
    Ids,             \* request ids; tasks may choose the same one
    Prompts,         \* subset of {"valid", "instant", "invalid"}
    MaxPending,      \* max_pending_requests, also the command queue's maxsize
    StreamCapacity,  \* stream_capacity
    Steps,           \* engine steps a valid request needs
    Outputs,         \* how many of them, the last ones, emit an output
    MayFail          \* an engine step may raise something unrecoverable

NoId == "none"
Clients == Generators \cup Deleters
Tasks == Clients \cup {Closer}

ASSUME ServiceLimits ==
    /\ MaxPending \in Nat \ {0} /\ StreamCapacity \in Nat \ {0}
    /\ Outputs \in Nat \ {0} /\ Steps \in Nat /\ Steps >= Outputs
    /\ Generators \cap Deleters = {} /\ Closer \notin Clients
    /\ NoId \notin Ids
    /\ Prompts \subseteq {"valid", "instant", "invalid"} /\ MayFail \in BOOLEAN

VARIABLES
    commands,  \* the queued commands, oldest first
    putters,   \* tasks blocked in commands.put, oldest first
    reserved,  \* reserved_ids
    streams,   \* the open streams: id -> the generator that reads it
    box,       \* the output queue of each generator's stream
    pc,        \* where each task is suspended
    rid,       \* the request id a client works on
    closing, failure,
    phase,     \* where the loop task is
    quota,     \* commands the loop may still take before its next step
    outputs,   \* engine outputs not yet published
    work,      \* engine: steps left per id, 0 for no such request
    pending    \* engine: ids finished at admission, output not yet returned

taskVars == <<pc, rid>>
queueVars == <<commands, putters>>
engineVars == <<work, pending>>
flags == <<closing, failure>>
loopVars == <<phase, quota, outputs>>
vars == <<commands, putters, reserved, streams, box, pc, rid, closing, failure,
          phase, quota, outputs, work, pending>>

Active == {id \in Ids : work[id] > 0}
Unfinished == Active # {} \/ pending # {}

(* Mutation: the command queue takes one command too many. *)
Full == Len(commands) >= MaxPending

LoopHasThread == phase \in {"draining", "publishing", "stopping", "ending"}

(***************************************************************************)
(* The event loop runs ready callbacks in order.  A woken putter is one    *)
(* callback away, so it runs before the loop task's own continuation; a    *)
(* shielded reply is two away, so `submit` may resume after a sleep(0) of  *)
(* the loop but before an executor call returns.                           *)
(***************************************************************************)
PuttersRan == \A t \in Tasks : pc[t] # "woken"
Settled == \A t \in Tasks : pc[t] \notin {"woken", "added", "refused"}

Terminal == {"final", "busy", "failed"}
Ended(c) == \E i \in DOMAIN box[c] : box[c][i] \in Terminal

Init ==
    /\ commands = <<>> /\ putters = <<>> /\ reserved = {} /\ streams = <<>>
    /\ box = [c \in Generators |-> <<>>]
    /\ pc = [t \in Tasks |-> "idle"] /\ rid = [c \in Clients |-> NoId]
    /\ closing = FALSE /\ failure = FALSE
    /\ phase = "top" /\ quota = 0 /\ outputs = {}
    /\ work = [id \in Ids |-> 0] /\ pending = {}

------------------------------------------------------------------------------
(* Client tasks.                                                           *)

Order(t) == IF t = Closer
              THEN [kind |-> "close", id |-> NoId, prompt |-> "none", by |-> t]
              ELSE [kind |-> "cancel", id |-> rid'[t], prompt |-> "none", by |-> t]

(* commands.put: wait while the queue is full, and again after each wakeup *)
Put(t) ==
    IF Full
      THEN /\ putters' = Append(putters, t) /\ pc' = [pc EXCEPT ![t] = "putting"]
           /\ UNCHANGED commands
      ELSE /\ commands' = Append(commands, Order(t))
           /\ pc' = [pc EXCEPT ![t] = IF t = Closer THEN "joining" ELSE "answering"]
           /\ UNCHANGED putters

Submit(c, id, prompt) ==
    /\ ~LoopHasThread /\ pc[c] = "idle"
    /\ ~closing /\ ~failure
    /\ id \notin reserved /\ Cardinality(reserved) < MaxPending
    /\ ~Full
    /\ reserved' = reserved \cup {id}
    /\ commands' = Append(commands, [kind |-> "add", id |-> id, prompt |-> prompt, by |-> c])
    /\ pc' = [pc EXCEPT ![c] = "adding"] /\ rid' = [rid EXCEPT ![c] = id]
    /\ UNCHANGED <<putters, streams, box, flags, loopVars, engineVars>>

(* submit resumes with its stream: the reader starts *)
Accepted(c) ==
    /\ ~LoopHasThread /\ pc[c] = "added"
    /\ pc' = [pc EXCEPT ![c] = "reading"]
    /\ UNCHANGED <<rid, queueVars, reserved, streams, box, flags, loopVars, engineVars>>

(* submit resumes with an error *)
Refused(c) ==
    /\ ~LoopHasThread /\ pc[c] = "refused"
    /\ reserved' = reserved \ {rid[c]}
    /\ pc' = [pc EXCEPT ![c] = "done"]
    /\ UNCHANGED <<rid, queueVars, streams, box, flags, loopVars, engineVars>>

Reserved(c) == ~closing /\ ~failure /\ rid'[c] \in reserved
IsOpen(c) == rid[c] \in DOMAIN streams /\ streams[rid[c]] = c

CancelIf(c, wanted) ==
    IF wanted THEN Put(c) ELSE pc' = [pc EXCEPT ![c] = "done"] /\ UNCHANGED queueVars

(* Mutation: the cleanup is skipped. *)
CleanupNothing(c) == CancelIf(c, FALSE)

(* cancel(request_id, stream=self), the cleanup of a reader *)
Cleanup(c) == CancelIf(c, IsOpen(c) /\ Reserved(c))

Read(c) ==
    /\ ~LoopHasThread /\ pc[c] = "reading" /\ box[c] # <<>>
    /\ UNCHANGED rid
    /\ box' = [box EXCEPT ![c] = Tail(@)]
    /\ IF Head(box[c]) \in Terminal THEN Cleanup(c) ELSE UNCHANGED <<pc, queueVars>>
    /\ UNCHANGED <<reserved, streams, flags, loopVars, engineVars>>

(* the client goes away: its task is cancelled where it waits *)
Disconnect(c) ==
    /\ ~LoopHasThread /\ UNCHANGED rid
    /\ \/ pc[c] \in {"adding", "added", "refused"} /\ CancelIf(c, Reserved(c))
       \/ pc[c] = "reading" /\ Cleanup(c)
    /\ UNCHANGED <<reserved, streams, box, flags, loopVars, engineVars>>

Delete(c, id) ==
    /\ ~LoopHasThread /\ pc[c] = "idle"
    /\ rid' = [rid EXCEPT ![c] = id]
    /\ CancelIf(c, Reserved(c))
    /\ UNCHANGED <<reserved, streams, box, flags, loopVars, engineVars>>

Close ==
    /\ ~LoopHasThread /\ pc[Closer] = "idle"
    /\ closing' = TRUE
    /\ UNCHANGED rid
    /\ IF phase # "ended" THEN Put(Closer)
       ELSE pc' = [pc EXCEPT ![Closer] = "joining"] /\ UNCHANGED queueVars
    /\ UNCHANGED <<reserved, streams, box, failure, loopVars, engineVars>>

Resume(t) ==
    /\ ~LoopHasThread /\ pc[t] = "woken"
    /\ UNCHANGED rid
    /\ Put(t)
    /\ UNCHANGED <<reserved, streams, box, flags, loopVars, engineVars>>

Joined ==
    /\ pc[Closer] = "joining" /\ phase = "ended"
    /\ pc' = [pc EXCEPT ![Closer] = "done"]
    /\ UNCHANGED <<rid, queueVars, reserved, streams, box, flags, loopVars, engineVars>>

------------------------------------------------------------------------------
(* The loop task.                                                          *)

Wait ==
    /\ phase = "top" /\ PuttersRan /\ ~Unfinished /\ commands = <<>>
    /\ phase' = "waiting"
    /\ UNCHANGED <<taskVars, queueVars, reserved, streams, box, flags, quota, outputs, engineVars>>

StartDraining ==
    /\ PuttersRan
    /\ \/ phase = "top" /\ (Unfinished \/ commands # <<>>) /\ quota' = MaxPending
       \/ phase = "waiting" /\ commands # <<>> /\ quota' = MaxPending + 1
    /\ phase' = "draining"
    /\ UNCHANGED <<taskVars, queueVars, reserved, streams, box, flags, outputs, engineVars>>

(* Mutation: the request keeps running. *)
KeptRunning(left, id) == left

(* a consumer that lets its stream fill up loses its request *)
Dropped(left, id) == [left EXCEPT ![id] = 0]

(* _publish, on the engine state `left` *)
Publish(id, last, left) ==
    IF id \notin DOMAIN streams
      THEN work' = left /\ UNCHANGED <<streams, box, reserved>>
      ELSE LET c == streams[id]
               full == Len(box[c]) >= StreamCapacity
           IN /\ box' = [box EXCEPT ![c] =
                           IF full THEN <<"busy">>
                           ELSE Append(@, IF last THEN "final" ELSE "token")]
              /\ work' = IF full THEN Dropped(left, id) ELSE left
              /\ IF full \/ last
                   THEN /\ streams' = Restrict(streams, DOMAIN streams \ {id})
                        /\ reserved' = reserved \ {id}
                   ELSE UNCHANGED <<streams, reserved>>

(* commands.get wakes the first blocked putter, which runs later *)
Woken(n) ==
    LET k == IF n < Len(putters) THEN n ELSE Len(putters)
    IN {putters[i] : i \in 1 .. k}

(* add_request raises *)
Rejected(cmd) == cmd.prompt = "invalid" \/ cmd.id \in Active \cup pending

HandleAdd(cmd) ==
    /\ IF Rejected(cmd)
         THEN /\ reserved' = reserved \ {cmd.id}
              /\ UNCHANGED <<streams, box, engineVars>>
         ELSE /\ streams' = [id \in DOMAIN streams \cup {cmd.id} |->
                               IF id = cmd.id THEN cmd.by ELSE streams[id]]
              /\ IF cmd.prompt = "instant"
                   THEN pending' = pending \cup {cmd.id} /\ UNCHANGED work
                   ELSE work' = [work EXCEPT ![cmd.id] = Steps] /\ UNCHANGED pending
              /\ UNCHANGED <<reserved, box>>

HandleCancel(cmd) ==
    /\ IF cmd.id \in Active
         THEN Publish(cmd.id, TRUE, [work EXCEPT ![cmd.id] = 0])
         ELSE UNCHANGED <<streams, box, reserved, work>>
    /\ UNCHANGED pending

(* t still waits for the reply to its command *)
Awaits(t, cmd) ==
    t = cmd.by /\ <<cmd.kind, pc[t]>> \in {<<"add", "adding">>, <<"cancel", "answering">>}

Answer(cmd) ==
    IF cmd.kind = "cancel" THEN "done" ELSE IF Rejected(cmd) THEN "refused" ELSE "added"

HandleCommand ==
    /\ phase = "draining" /\ quota > 0 /\ commands # <<>>
    /\ LET cmd == Head(commands)
       IN /\ pc' = [t \in Tasks |-> IF Awaits(t, cmd) THEN Answer(cmd)
                                    ELSE IF t \in Woken(1) THEN "woken" ELSE pc[t]]
          /\ CASE cmd.kind = "add" -> HandleAdd(cmd)
               [] cmd.kind = "cancel" -> HandleCancel(cmd)
               [] cmd.kind = "close" -> UNCHANGED <<reserved, streams, box, engineVars>>
          /\ phase' = IF cmd.kind = "close" THEN "stopping" ELSE "draining"
    /\ commands' = Tail(commands) /\ putters' = SubSeq(putters, 2, Len(putters))
    /\ quota' = quota - 1
    /\ UNCHANGED <<rid, flags, outputs>>

DrainDone ==
    /\ phase = "draining" /\ (quota = 0 \/ commands = <<>>)
    /\ phase' = IF Unfinished THEN "stepping" ELSE "top"
    /\ quota' = 0
    /\ UNCHANGED <<taskVars, queueVars, reserved, streams, box, flags, outputs, engineVars>>

(* the engine step that ran in the executor thread returns its outputs *)
StepReturns ==
    /\ phase = "stepping" /\ Settled
    /\ \E batch \in SUBSET Active :
         /\ batch # {} \/ Active = {}
         /\ work' = [id \in Ids |-> IF id \in batch THEN work[id] - 1 ELSE work[id]]
         /\ outputs' = {[id |-> id, last |-> TRUE] : id \in pending}
                       \cup {[id |-> id, last |-> work'[id] = 0] :
                               id \in {b \in batch : work'[b] < Outputs}}
    /\ pending' = {} /\ phase' = "publishing"
    /\ UNCHANGED <<taskVars, queueVars, reserved, streams, box, flags, quota>>

(* Mutation: the outputs the exception carries are dropped. *)
ErrorOutputsLost(batch) == {}

(* EngineExecutionError carries the final outputs of the failed batch. *)
ErrorOutputs(batch) == [id : batch, last : {TRUE}]

StepReturnsErrors ==
    /\ phase = "stepping" /\ Settled /\ MayFail
    /\ \E batch \in SUBSET Active \ {{}} :
         /\ work' = [id \in Ids |-> IF id \in batch THEN 0 ELSE work[id]]
         /\ outputs' = ErrorOutputs(batch)
    /\ phase' = "publishing"
    /\ UNCHANGED <<taskVars, queueVars, reserved, streams, box, flags, quota, pending>>

(* Mutation: the failed streams stay registered. *)
StepFailsKeepingStreams ==
    /\ phase = "stepping" /\ Settled /\ MayFail
    /\ failure' = TRUE
    /\ box' = [c \in Generators |-> IF c \in Range(streams) THEN <<"failed">> ELSE box[c]]
    /\ phase' = "stopping"
    /\ UNCHANGED <<taskVars, queueVars, reserved, streams, closing, quota, outputs, engineVars>>

(* Anything else the step raises ends the service. *)
StepFails ==
    /\ phase = "stepping" /\ Settled /\ MayFail
    /\ failure' = TRUE
    /\ box' = [c \in Generators |-> IF c \in Range(streams) THEN <<"failed">> ELSE box[c]]
    /\ streams' = <<>> /\ phase' = "stopping"
    /\ UNCHANGED <<taskVars, queueVars, reserved, closing, quota, outputs, engineVars>>

PublishOne ==
    /\ phase \in {"publishing", "ending"}
    /\ \E o \in outputs : Publish(o.id, o.last, work) /\ outputs' = outputs \ {o}
    /\ UNCHANGED <<taskVars, queueVars, flags, phase, quota, pending>>

(* sleep(0): the other tasks run *)
StepDone ==
    /\ phase = "publishing" /\ outputs = {}
    /\ phase' = "top"
    /\ UNCHANGED <<taskVars, queueVars, reserved, streams, box, flags, quota, outputs, engineVars>>

(* Mutation: what was finished on arrival is not returned. *)
CloseOutputsOfActive == [id : Active, last : {TRUE}]

(* engine.close returns an output for everything it still has. *)
CloseOutputs == [id : Active \cup pending, last : {TRUE}]

CloseEngine ==
    /\ phase = "stopping" /\ phase' = "ending" /\ quota' = 0
    /\ outputs' = CloseOutputs
    /\ work' = [id \in Ids |-> 0] /\ pending' = {}
    /\ UNCHANGED <<taskVars, queueVars, reserved, streams, box, flags>>

(* the commands still queued are refused *)
Refusal(t) == IF pc[t] = "adding" THEN "refused" ELSE "done"

StopCommands ==
    /\ phase = "ending" /\ outputs = {}
    /\ reserved' = {} /\ commands' = <<>>
    /\ pc' = [t \in Tasks |-> IF \E i \in DOMAIN commands : Awaits(t, commands[i]) THEN Refusal(t)
                              ELSE IF t \in Woken(Len(commands)) THEN "woken" ELSE pc[t]]
    /\ putters' = SubSeq(putters, Len(commands) + 1, Len(putters))
    /\ phase' = "ended"
    /\ UNCHANGED <<rid, streams, box, flags, quota, outputs, engineVars>>

Submits(c) == \E id \in Ids, prompt \in Prompts : Submit(c, id, prompt)
Deletes(c) == \E id \in Ids : Delete(c, id)

Loop == \/ Wait \/ StartDraining \/ HandleCommand \/ DrainDone
        \/ StepReturns \/ StepReturnsErrors \/ StepFails
        \/ PublishOne \/ StepDone \/ CloseEngine \/ StopCommands

Next ==
    \/ \E c \in Generators : Submits(c) \/ Accepted(c) \/ Refused(c) \/ Read(c) \/ Disconnect(c)
    \/ \E c \in Deleters : Deletes(c)
    \/ Close \/ Joined
    \/ \E t \in Tasks : Resume(t)
    \/ Loop

Spec == Init /\ [][Next]_vars

(***************************************************************************)
(* The event loop runs every ready task and the executor returns.  Clients *)
(* need not submit, read or leave, and nobody has to close the service.    *)
(***************************************************************************)
Fairness ==
    /\ WF_vars(Loop) /\ WF_vars(Joined)
    /\ \A c \in Generators : WF_vars(Accepted(c)) /\ WF_vars(Refused(c))
    /\ \A t \in Tasks : WF_vars(Resume(t))

FairSpec == Spec /\ Fairness

------------------------------------------------------------------------------
(* Between its steps the engine works for a request exactly when a stream
   is open for it: no request runs without a reader and no reader waits for
   a request the engine does not have (_command, _publish). *)
StreamsMatchEngine ==
    ~failure => DOMAIN streams = Active \cup pending
                                 \cup {id \in Ids : [id |-> id, last |-> TRUE] \in outputs}

(* A reader's stream stays registered until its one terminal item (the final
   output, the backpressure error or the failure) is in its queue, so that
   no reader waits on a queue nobody fills (_publish, _run). *)
OpenUntilTerminal ==
    \A c \in Generators :
        pc[c] \in {"added", "reading"} =>
            /\ IsOpen(c) <=> ~Ended(c)
            /\ \A i \in DOMAIN box[c] : box[c][i] \in Terminal => i = Len(box[c])

(* Whatever the engine works for holds a reservation, so the bound of
   max_pending_requests is a bound on the engine's requests (submit,
   _command, _publish). *)
WorkIsReserved ==
    phase # "ended" =>
        /\ Active \cup pending \subseteq reserved
        /\ Cardinality(Active \cup pending) <= MaxPending

(* docs/serving.md:73: a disconnect releases the request.  A task that is
   done leaves no request of its own running, unless the service is stopping
   and cancels everything. *)
DisconnectReleases ==
    \A c \in Generators :
        pc[c] = "done" /\ IsOpen(c) /\ ~closing /\ ~failure => rid[c] \notin Active

(* docs/serving.md:74: the cleanup of an old stream does not cancel the
   request of another stream that reused its id. *)
CleanupSparesOthers ==
    [][ \A c \in Generators :
          (HandleCommand /\ Head(commands).kind = "cancel" /\ Head(commands).by = c)
              => \A id \in DOMAIN streams : streams[id] # c => id \in DOMAIN streams' ]_vars

(* A reader with nothing to read gets something, a terminal item if nothing
   else: a token, the final output, or the error that ends its stream. *)
ReadersAreServed ==
    \A c \in Generators :
        (pc[c] = "reading" /\ box[c] = <<>>) ~> (pc[c] # "reading" \/ box[c] # <<>>)

(* docs/serving.md:80: an unrecoverable failure terminates the remaining
   work instead of leaving futures hanging: once the service has failed,
   every task that awaits it is answered. *)
NothingHangs ==
    \A t \in Tasks :
        (failure /\ pc[t] \notin {"idle", "reading", "done"})
            ~> pc[t] \in {"reading", "done"}
==============================================================================
