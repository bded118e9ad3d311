------------------------- MODULE EngineServiceProofs -------------------------
(* The streams of the service, for every number of tasks and ids, every     *)
(* capacity and every interleaving.                                         *)
EXTENDS EngineService, FiniteSetTheorems, TLAPS

-----------------------------------------------------------------------------
(* The shape of the state, and who the queued commands belong to.           *)

Places == {"idle", "adding", "added", "refused", "reading", "putting", "woken",
           "answering", "joining", "done"}
Phases == {"top", "waiting", "draining", "stepping", "publishing", "stopping", "ending", "ended"}
Items == {"token"} \cup Terminal
Command == [kind : {"add", "cancel", "close"}, id : Ids \cup {NoId},
            prompt : Prompts \cup {"none"}, by : Tasks]
OutputItem == [id : Ids, last : BOOLEAN]

Readers == {streams[id] : id \in DOMAIN streams}

Shape ==
  /\ commands \in Seq(Command) /\ putters \in Seq(Tasks)
  /\ pc \in [Tasks -> Places] /\ rid \in [Clients -> Ids \cup {NoId}]
  /\ reserved \subseteq Ids /\ pending \subseteq Ids /\ outputs \subseteq OutputItem
  /\ work \in [Ids -> Nat] /\ phase \in Phases
  /\ DOMAIN streams \subseteq Ids /\ Readers \subseteq Generators
  /\ streams = [id \in DOMAIN streams |-> streams[id]]
  /\ box \in [Generators -> Seq(Items)]

\* A task with a command in the queue has begun, and keeps its id.
Sent(m) ==
  /\ pc[m.by] # "idle"
  /\ m.kind = "add" => m.by \in Generators /\ m.id = rid[m.by] /\ m.prompt \in Prompts
  /\ m.kind = "cancel" => m.by \in Clients /\ m.id = rid[m.by]
  /\ m.kind = "close" => closing

Protocol ==
  /\ \A c \in Clients : pc[c] # "idle" => rid[c] \in Ids
  /\ pc[Closer] # "idle" => closing
  /\ \A i \in 1 .. Len(putters) : pc[putters[i]] # "idle"
  /\ \A i \in 1 .. Len(commands) : Sent(commands[i])

-----------------------------------------------------------------------------
(* The loop's outputs belong to requests the engine has, or has just ended. *)

Stopped == phase \in {"stopping", "ending", "ended"}

OutputsOfEngine ==
  /\ Active \cap pending = {}
  /\ phase \notin {"publishing", "ending"} => outputs = {}
  /\ \A o \in outputs : IF o.last THEN o.id \notin Active \cup pending ELSE o.id \in Active
  /\ \A o, p \in outputs : o.id = p.id => o = p
  /\ failure => Stopped

-----------------------------------------------------------------------------
(* What each reader finds in its queue.                                     *)

IsAdd(i, c) == commands[i].kind = "add" /\ commands[i].by = c
AddQueued(c) == \E i \in 1 .. Len(commands) : IsAdd(i, c)
Unopened == {"idle", "adding", "refused"}

StreamsOfReaders ==
  \A id \in DOMAIN streams : rid[streams[id]] = id /\ pc[streams[id]] \notin Unopened

NotYetOpen ==
  \A c \in Generators :
    /\ pc[c] \in Unopened \/ AddQueued(c) => box[c] = <<>> /\ c \notin Readers
    /\ AddQueued(c) => pc[c] \notin {"idle", "added", "reading", "refused"}

SubmitsOnce ==
  \A c \in Generators : \A i, j \in 1 .. Len(commands) : IsAdd(i, c) /\ IsAdd(j, c) => i = j

LastIsTerminal ==
  \A c \in Generators : /\ \A i \in 1 .. Len(box[c]) : box[c][i] \in Terminal => i = Len(box[c])
                        /\ c \in Readers => ~Ended(c)

EndedWhenClosed ==
  \A c \in Generators : pc[c] \in {"added", "reading"} /\ c \notin Readers => Ended(c)

Opening == StreamsOfReaders /\ NotYetOpen /\ SubmitsOnce /\ LastIsTerminal /\ EndedWhenClosed

-----------------------------------------------------------------------------
(* Reservations, when no prompt is rejected.                                *)

AllValid == "invalid" \notin Prompts

ReservedForWork ==
  phase # "ended" =>
    /\ IsFiniteSet(reserved) /\ Cardinality(reserved) <= MaxPending
    /\ DOMAIN streams \subseteq reserved /\ Active \cup pending \subseteq reserved
    /\ \A i \in 1 .. Len(commands) : commands[i].kind = "add" =>
         commands[i].id \in reserved /\ commands[i].id \notin DOMAIN streams
    /\ \A i, j \in 1 .. Len(commands) :
         commands[i].kind = "add" /\ commands[j].kind = "add" /\ commands[i].id = commands[j].id => i = j
    /\ \A c \in Generators : pc[c] # "refused"

-----------------------------------------------------------------------------
(* Clients that have gone.                                                  *)

Running == ~closing /\ ~failure

GoneClients ==
  /\ Stopped => ~Running
  /\ Running => \A c \in Generators :
       /\ pc[c] = "adding" => AddQueued(c)
       /\ pc[c] = "done" => ~AddQueued(c) /\ (c \in Readers => rid[c] \notin Active)
       /\ \A i, j \in 1 .. Len(commands) :
            commands[i].kind = "cancel" /\ commands[i].by = c /\ IsAdd(j, c) => j < i

-----------------------------------------------------------------------------
(* What the steps do to tasks and queues.                                   *)

\* A step of task t between two awaits: it goes on to another place and may
\* put its order into the queue.
TaskMoves(t) ==
  /\ pc' \in [Tasks -> Places] /\ pc'[t] \notin Unopened
  /\ \A u \in Tasks \ {t} : pc'[u] = pc[u]
  /\ commands' = commands \/ commands' = Append(commands, Order(t))
  /\ putters' = putters \/ putters' = Append(putters, t)
  /\ rid' \in [Clients -> Ids \cup {NoId}] /\ (t \in Clients => rid'[t] \in Ids)
  /\ \A c \in Clients : c # t \/ pc[c] # "idle" => rid'[c] = rid[c]
  /\ UNCHANGED <<streams, work, pending, phase, outputs, failure>>
  /\ closing => closing'
  /\ t = Closer => closing'

LEMMA TasksAreDistinct ==
  /\ Generators \cap Deleters = {} /\ Closer \notin Clients
  /\ Generators \subseteq Clients /\ Clients \subseteq Tasks /\ Closer \in Tasks
  BY ServiceLimits DEF Clients, Tasks

\* Waiting for room, or having put the order into the queue.
LEMMA PutPlaces ==
  ASSUME Shape, NEW t \in Tasks, Put(t)
  PROVE  /\ pc' \in [Tasks -> Places] /\ pc'[t] \in {"putting", "joining", "answering"}
         /\ \A u \in Tasks \ {t} : pc'[u] = pc[u]
         /\ commands' = commands \/ commands' = Append(commands, Order(t))
         /\ putters' = putters \/ putters' = Append(putters, t)
<1>1. PICK x \in {"putting", "joining", "answering"} : pc' = [pc EXCEPT ![t] = x]
  BY DEF Put
<1>2. x \in Places
  BY DEF Places
<1>3. /\ commands' = commands \/ commands' = Append(commands, Order(t))
      /\ putters' = putters \/ putters' = Append(putters, t)
  BY DEF Put
<1> QED BY <1>1, <1>2, <1>3 DEF Shape

LEMMA CancelPlaces ==
  ASSUME Shape, NEW t \in Tasks, NEW wanted, CancelIf(t, wanted)
  PROVE  /\ pc' \in [Tasks -> Places] /\ pc'[t] \in {"putting", "joining", "answering", "done"}
         /\ \A u \in Tasks \ {t} : pc'[u] = pc[u]
         /\ commands' = commands \/ commands' = Append(commands, Order(t))
         /\ putters' = putters \/ putters' = Append(putters, t)
<1>1. CASE Put(t)
  BY <1>1, PutPlaces
<1>2. CASE pc' = [pc EXCEPT ![t] = "done"] /\ UNCHANGED queueVars
  <2>1. "done" \in Places
    BY DEF Places
  <2> QED BY <1>2, <2>1 DEF Shape, queueVars
<1> QED BY <1>1, <1>2 DEF CancelIf

\* The steps of clients other than submitting, and those of the closer.
GeneratorSteps(c) == Accepted(c) \/ Refused(c) \/ Read(c) \/ Disconnect(c)

LEMMA GeneratorMoves ==
  ASSUME Shape, Protocol, NEW c \in Generators, GeneratorSteps(c)
  PROVE  TaskMoves(c)
<1>t. c \in Clients /\ c \in Tasks /\ c # Closer
  BY TasksAreDistinct
<1>p. {"reading", "putting", "joining", "answering", "done"} \subseteq Places \ Unopened
  BY DEF Places, Unopened
<1>r. /\ UNCHANGED rid /\ pc[c] # "idle"
      /\ UNCHANGED <<streams, work, pending, phase, outputs, failure, closing>>
  BY DEF GeneratorSteps, Accepted, Refused, Read, Disconnect, flags, loopVars, engineVars
<1>i. rid' \in [Clients -> Ids \cup {NoId}] /\ rid'[c] \in Ids
  BY <1>t, <1>r DEF Shape, Protocol
<1>q. /\ pc' \in [Tasks -> Places] /\ pc'[c] \notin Unopened
      /\ \A u \in Tasks \ {c} : pc'[u] = pc[u]
      /\ commands' = commands \/ commands' = Append(commands, Order(c))
      /\ putters' = putters \/ putters' = Append(putters, c)
  <2>1. CASE Accepted(c)
    BY <1>t, <1>p, <2>1 DEF Accepted, Shape, queueVars
  <2>2. CASE Refused(c)
    BY <1>t, <1>p, <2>2 DEF Refused, Shape, queueVars
  <2>3. CASE Read(c)
    <3>1. CASE Head(box[c]) \in Terminal
      <4>1. CancelIf(c, IsOpen(c) /\ Reserved(c))
        BY <2>3, <3>1 DEF Read, Cleanup
      <4> QED BY <1>t, <1>p, <4>1, CancelPlaces
    <3>2. CASE Head(box[c]) \notin Terminal
      <4>1. UNCHANGED <<pc, queueVars>> /\ pc[c] = "reading"
        BY <2>3, <3>2 DEF Read
      <4> QED BY <1>p, <4>1 DEF Shape, queueVars
    <3> QED BY <3>1, <3>2
  <2>4. CASE Disconnect(c)
    <3>1. \E wanted : CancelIf(c, wanted)
      BY <2>4 DEF Disconnect, Cleanup
    <3> QED BY <1>t, <1>p, <3>1, CancelPlaces
  <2> QED BY <2>1, <2>2, <2>3, <2>4 DEF GeneratorSteps
<1> QED BY <1>t, <1>r, <1>i, <1>q DEF TaskMoves

LEMMA DeleteMoves ==
  ASSUME Shape, Protocol, NEW c \in Deleters, NEW id \in Ids, Delete(c, id)
  PROVE  TaskMoves(c)
<1>t. c \in Clients /\ c \in Tasks /\ c # Closer
  BY TasksAreDistinct DEF Clients
<1>p. {"putting", "joining", "answering", "done"} \subseteq Places \ Unopened
  BY DEF Places, Unopened
<1>r. /\ rid' = [rid EXCEPT ![c] = id] /\ pc[c] = "idle"
      /\ UNCHANGED <<streams, work, pending, phase, outputs, failure, closing>>
  BY DEF Delete, flags, loopVars, engineVars
<1>i. rid' \in [Clients -> Ids \cup {NoId}] /\ rid'[c] \in Ids
      /\ \A d \in Clients : d # c \/ pc[d] # "idle" => rid'[d] = rid[d]
  BY <1>t, <1>r DEF Shape
<1>q. /\ pc' \in [Tasks -> Places] /\ pc'[c] \notin Unopened
      /\ \A u \in Tasks \ {c} : pc'[u] = pc[u]
      /\ commands' = commands \/ commands' = Append(commands, Order(c))
      /\ putters' = putters \/ putters' = Append(putters, c)
  <2>1. CancelIf(c, Reserved(c))
    BY DEF Delete
  <2> QED BY <1>t, <1>p, <2>1, CancelPlaces
<1> QED BY <1>t, <1>r, <1>i, <1>q DEF TaskMoves

LEMMA CloserMoves ==
  ASSUME Shape, Protocol, Close \/ Joined
  PROVE  TaskMoves(Closer)
<1>t. Closer \in Tasks /\ Closer \notin Clients
  BY TasksAreDistinct
<1>p. {"putting", "joining", "answering", "done"} \subseteq Places \ Unopened
  BY DEF Places, Unopened
<1>r. UNCHANGED <<rid, streams, work, pending, phase, outputs, failure>>
  BY DEF Close, Joined, flags, loopVars, engineVars
<1>c. closing'
  BY DEF Close, Joined, flags, Protocol
<1>q. /\ pc' \in [Tasks -> Places] /\ pc'[Closer] \notin Unopened
      /\ \A u \in Tasks \ {Closer} : pc'[u] = pc[u]
      /\ commands' = commands \/ commands' = Append(commands, Order(Closer))
      /\ putters' = putters \/ putters' = Append(putters, Closer)
  <2>1. \/ Put(Closer)
        \/ /\ \E x \in {"joining", "done"} : pc' = [pc EXCEPT ![Closer] = x]
           /\ UNCHANGED <<commands, putters>>
    BY DEF Close, Joined, queueVars
  <2>2. CASE Put(Closer)
    BY <1>t, <1>p, <2>2, PutPlaces
  <2>3. CASE /\ \E x \in {"joining", "done"} : pc' = [pc EXCEPT ![Closer] = x]
             /\ UNCHANGED <<commands, putters>>
    <3>1. PICK x \in {"joining", "done"} : pc' = [pc EXCEPT ![Closer] = x]
      BY <2>3
    <3>2. pc \in [Tasks -> Places] /\ x \in Places \ Unopened
      BY <1>p DEF Shape
    <3> QED BY <1>t, <2>3, <3>1, <3>2
  <2> QED BY <2>1, <2>2, <2>3
<1> QED BY <1>t, <1>r, <1>c, <1>q DEF TaskMoves, Shape

LEMMA ResumeMoves ==
  ASSUME Shape, Protocol, NEW t \in Tasks, Resume(t)
  PROVE  TaskMoves(t)
<1>t. Closer \notin Clients /\ (t \in Clients \/ t = Closer)
  BY TasksAreDistinct DEF Tasks
<1>p. {"putting", "joining", "answering"} \subseteq Places \ Unopened
  BY DEF Places, Unopened
<1>r. /\ UNCHANGED rid /\ pc[t] # "idle" /\ Put(t)
      /\ UNCHANGED <<streams, work, pending, phase, outputs, failure, closing>>
  BY DEF Resume, flags, loopVars, engineVars
<1>i. rid' \in [Clients -> Ids \cup {NoId}] /\ (t \in Clients => rid'[t] \in Ids)
      /\ (t = Closer => closing')
  BY <1>r DEF Shape, Protocol
<1>q. /\ pc' \in [Tasks -> Places] /\ pc'[t] \notin Unopened
      /\ \A u \in Tasks \ {t} : pc'[u] = pc[u]
      /\ commands' = commands \/ commands' = Append(commands, Order(t))
      /\ putters' = putters \/ putters' = Append(putters, t)
  BY <1>p, <1>r, PutPlaces
<1> QED BY <1>r, <1>i, <1>q DEF TaskMoves

\* What is queued after such a step.
LEMMA QueueGrows ==
  ASSUME Shape, NEW t \in Tasks, TaskMoves(t)
  PROVE  /\ Order(t) \in Command /\ Order(t).kind # "add" /\ Order(t).by = t
         /\ Order(t).kind = "cancel" => t \in Clients /\ Order(t).id = rid'[t]
         /\ Order(t).kind = "close" => t = Closer
         /\ commands' \in Seq(Command) /\ putters' \in Seq(Tasks)
         /\ Len(commands) \in Nat /\ Len(commands') \in Nat
         /\ \A i \in 1 .. Len(commands) : i \in 1 .. Len(commands') /\ commands'[i] = commands[i]
         /\ \A i \in 1 .. Len(commands') : i \in 1 .. Len(commands) \/ (i > Len(commands) /\ commands'[i] = Order(t))
         /\ \A i \in 1 .. Len(putters') : putters'[i] = t \/ \E j \in 1 .. Len(putters) : putters'[i] = putters[j]
<1>1. /\ Order(t) \in Command /\ Order(t).kind # "add" /\ Order(t).by = t
      /\ Order(t).kind = "cancel" => t \in Clients /\ Order(t).id = rid'[t]
      /\ Order(t).kind = "close" => t = Closer
  <2>1. CASE t = Closer
    BY <2>1 DEF Order, Command
  <2>2. CASE t # Closer
    <3>1. t \in Clients /\ rid'[t] \in Ids
      BY <2>2 DEF Tasks, TaskMoves
    <3> QED BY <2>2, <3>1 DEF Order, Command
  <2> QED BY <2>1, <2>2
<1> DEFINE m == Order(t)
<1>2. commands \in Seq(Command) /\ putters \in Seq(Tasks) /\ m \in Command
  BY <1>1 DEF Shape
<1>3. /\ commands' = commands \/ commands' = Append(commands, m)
      /\ putters' = putters \/ putters' = Append(putters, t)
  BY DEF TaskMoves
<1> HIDE DEF m
<1>4. /\ commands' \in Seq(Command)
      /\ Len(commands) \in Nat /\ Len(commands') \in Nat
      /\ \A i \in 1 .. Len(commands) : i \in 1 .. Len(commands') /\ commands'[i] = commands[i]
      /\ \A i \in 1 .. Len(commands') : i \in 1 .. Len(commands) \/ (i > Len(commands) /\ commands'[i] = m)
  <2>1. CASE commands' = commands
    BY <1>2, <2>1
  <2>2. CASE commands' = Append(commands, m)
    BY <1>2, <2>2
  <2> QED BY <1>3, <2>1, <2>2
<1>5. /\ putters' \in Seq(Tasks)
      /\ \A i \in 1 .. Len(putters') : putters'[i] = t \/ \E j \in 1 .. Len(putters) : putters'[i] = putters[j]
  <2>1. CASE putters' = putters
    BY <1>2, <2>1
  <2>2. CASE putters' = Append(putters, t)
    BY <1>2, <2>2
  <2> QED BY <1>3, <2>1, <2>2
<1> QED BY <1>1, <1>4, <1>5 DEF m

LEMMA MovesProtocol ==
  ASSUME Shape, Protocol, NEW t \in Tasks, TaskMoves(t)
  PROVE  Protocol'
<1>1. \A c \in Clients : pc'[c] # "idle" => rid'[c] \in Ids
  BY TasksAreDistinct DEF Protocol, TaskMoves
<1>2. pc'[t] # "idle" /\ \A u \in Tasks : pc[u] # "idle" => pc'[u] # "idle"
  BY DEF TaskMoves, Unopened
<1>3. pc'[Closer] # "idle" => closing'
  BY TasksAreDistinct DEF Protocol, TaskMoves
<1>4. \A i \in 1 .. Len(putters') : pc'[putters'[i]] # "idle"
  <2>1. \A j \in 1 .. Len(putters) : putters[j] \in Tasks
    BY DEF Shape
  <2> QED BY <1>2, <2>1, QueueGrows DEF Protocol
<1>5. ASSUME NEW i \in 1 .. Len(commands') PROVE Sent(commands[i])'
  <2>1. CASE i \in 1 .. Len(commands)
    <3>1. commands'[i] = commands[i] /\ commands[i] \in Command /\ Sent(commands[i])
      BY <2>1, QueueGrows DEF Shape, Protocol
    <3>2. commands[i].by \in Tasks /\ (commands[i].by \in Clients => rid'[commands[i].by] = rid[commands[i].by])
      BY <3>1 DEF Command, Sent, TaskMoves
    <3> QED BY <1>2, <3>1, <3>2, TasksAreDistinct DEF Sent, TaskMoves
  <2>2. CASE i \notin 1 .. Len(commands)
    <3>1. commands'[i] = Order(t)
      BY <1>5, <2>2, QueueGrows
    <3> QED BY <1>2, <3>1, QueueGrows DEF Sent, TaskMoves
  <2> QED BY <2>1, <2>2
<1> QED BY <1>1, <1>3, <1>4, <1>5 DEF Protocol

-----------------------------------------------------------------------------
(* What the loop does when it publishes, and when it takes a command.       *)

\* A stream ends with the item that is published.
Closes(id, last) ==
  id \in DOMAIN streams /\ (last \/ Len(box[streams[id]]) >= StreamCapacity)

Published(id, last, left) ==
  /\ work' \in [Ids -> Nat] /\ reserved' \subseteq Ids /\ box' \in [Generators -> Seq(Items)]
  /\ DOMAIN streams' = IF Closes(id, last) THEN DOMAIN streams \ {id} ELSE DOMAIN streams
  /\ streams' = [x \in DOMAIN streams' |-> streams'[x]]
  /\ \A x \in DOMAIN streams' : streams'[x] = streams[x]
  /\ reserved' = IF Closes(id, last) THEN reserved \ {id} ELSE reserved
  /\ \/ work' = left /\ (last \/ ~Closes(id, last))
     \/ work' = [left EXCEPT ![id] = 0] /\ Closes(id, last)
  /\ \A c \in Generators : id \notin DOMAIN streams \/ c # streams[id] => box'[c] = box[c]
  /\ Closes(id, last) =>
       \E e \in Terminal : box'[streams[id]] \in {<<e>>, Append(box[streams[id]], e)}
  /\ id \in DOMAIN streams /\ ~Closes(id, last) =>
       box'[streams[id]] = Append(box[streams[id]], "token")

LEMMA PublishEffect ==
  ASSUME Shape, NEW id \in Ids, NEW last \in BOOLEAN, NEW left \in [Ids -> Nat], Publish(id, last, left)
  PROVE  Published(id, last, left)
<1> DEFINE c == streams[id]
           full == Len(box[c]) >= StreamCapacity
           item == IF last THEN "final" ELSE "token"
<1>0. streams = [x \in DOMAIN streams |-> streams[x]]
  BY DEF Shape
<1>1. CASE id \notin DOMAIN streams
  <2>1. work' = left /\ UNCHANGED <<streams, box, reserved>>
    BY <1>1 DEF Publish
  <2> QED BY <1>0, <1>1, <2>1 DEF Shape, Closes, Published
<1>2. CASE id \in DOMAIN streams
  <2>1. c \in Generators /\ box[c] \in Seq(Items)
    BY <1>2 DEF Shape, Readers
  <2>2. /\ box' = [box EXCEPT ![c] = IF full THEN <<"busy">> ELSE Append(box[c], item)]
        /\ work' = IF full THEN [left EXCEPT ![id] = 0] ELSE left
        /\ IF full \/ last
             THEN /\ streams' = [x \in DOMAIN streams \ {id} |-> streams[x]]
                  /\ reserved' = reserved \ {id}
             ELSE UNCHANGED <<streams, reserved>>
    BY <1>2 DEF Publish, Dropped, Restrict
  <2>3. item \in Items /\ "busy" \in Terminal /\ "final" \in Terminal /\ Terminal \subseteq Items
    BY DEF Items, Terminal
  <2>4. Closes(id, last) <=> full \/ last
    BY <1>2 DEF Closes
  <2>5. /\ box'[c] = IF full THEN <<"busy">> ELSE Append(box[c], item)
        /\ \A d \in Generators : d # c => box'[d] = box[d]
        /\ box' \in [Generators -> Seq(Items)]
    <3>1. (IF full THEN <<"busy">> ELSE Append(box[c], item)) \in Seq(Items)
      BY <2>1, <2>3
    <3> QED BY <2>1, <2>2, <3>1 DEF Shape
  <2>6. work' \in [Ids -> Nat] /\ reserved' \subseteq Ids
    BY <2>2 DEF Shape
  <2>7. /\ DOMAIN streams' = IF Closes(id, last) THEN DOMAIN streams \ {id} ELSE DOMAIN streams
        /\ streams' = [x \in DOMAIN streams' |-> streams'[x]]
        /\ \A x \in DOMAIN streams' : streams'[x] = streams[x]
        /\ reserved' = IF Closes(id, last) THEN reserved \ {id} ELSE reserved
    BY <1>0, <2>2, <2>4
  <2>8. \/ work' = left /\ (last \/ ~Closes(id, last))
        \/ work' = [left EXCEPT ![id] = 0] /\ Closes(id, last)
    BY <2>2, <2>4
  <2>9. Closes(id, last) => \E e \in Terminal : box'[c] \in {<<e>>, Append(box[c], e)}
    BY <2>3, <2>4, <2>5
  <2>10. ~Closes(id, last) => box'[c] = Append(box[c], "token")
    BY <2>4, <2>5
  <2> QED BY <1>2, <2>5, <2>6, <2>7, <2>8, <2>9, <2>10 DEF Published
<1> QED BY <1>1, <1>2

\* A command that is taken is answered, and its place goes to a blocked task.
LEMMA CommandEffect ==
  ASSUME Shape, Protocol, HandleCommand
  PROVE  LET cmd == Head(commands) IN
         /\ commands # <<>> /\ cmd = commands[1] /\ cmd \in Command /\ Sent(cmd)
         /\ commands' = Tail(commands) /\ commands' \in Seq(Command) /\ putters' \in Seq(Tasks)
         /\ pc' \in [Tasks -> Places]
         /\ \A t \in Tasks : \/ Awaits(t, cmd) /\ pc'[t] = Answer(cmd)
                             \/ ~Awaits(t, cmd) /\ pc'[t] = "woken" /\ pc[t] # "idle"
                             \/ ~Awaits(t, cmd) /\ pc'[t] = pc[t]
         /\ \A i \in 1 .. Len(putters') : \E j \in 1 .. Len(putters) : putters'[i] = putters[j]
<1> DEFINE cmd == Head(commands)
<1>1. /\ commands # <<>> /\ commands' = Tail(commands) /\ putters' = SubSeq(putters, 2, Len(putters))
      /\ pc' = [t \in Tasks |-> IF Awaits(t, cmd) THEN Answer(cmd)
                                ELSE IF t \in Woken(1) THEN "woken" ELSE pc[t]]
  BY DEF HandleCommand
<1>2. commands \in Seq(Command) /\ putters \in Seq(Tasks) /\ pc \in [Tasks -> Places]
  BY DEF Shape
<1>3. cmd = commands[1] /\ cmd \in Command /\ 1 \in 1 .. Len(commands) /\ commands' \in Seq(Command)
  BY <1>1, <1>2
<1>4. Sent(cmd)
  BY <1>3 DEF Protocol
<1>5. /\ putters' \in Seq(Tasks)
      /\ \A i \in 1 .. Len(putters') : \E j \in 1 .. Len(putters) : putters'[i] = putters[j]
  <2>1. putters' \in Seq(Tasks)
    BY <1>1, <1>2
  <2>2. ASSUME NEW i \in 1 .. Len(putters') PROVE i + 1 \in 1 .. Len(putters) /\ putters'[i] = putters[i + 1]
    BY <1>1, <1>2, <2>2
  <2> QED BY <2>1, <2>2
<1>6. \A t \in Woken(1) : t \in Tasks /\ pc[t] # "idle"
  <2>1. ASSUME NEW t \in Woken(1) PROVE \E j \in 1 .. Len(putters) : putters[j] = t
    BY <1>2, <2>1 DEF Woken
  <2> QED BY <1>2, <2>1 DEF Protocol
<1>7. Answer(cmd) \in Places /\ "woken" \in Places
  BY DEF Answer, Places
<1> HIDE DEF cmd
<1>8. pc' \in [Tasks -> Places]
  BY <1>1, <1>2, <1>7
<1>9. \A t \in Tasks : \/ Awaits(t, cmd) /\ pc'[t] = Answer(cmd)
                       \/ ~Awaits(t, cmd) /\ pc'[t] = "woken" /\ pc[t] # "idle"
                       \/ ~Awaits(t, cmd) /\ pc'[t] = pc[t]
  BY <1>1, <1>6
<1> QED BY <1>1, <1>3, <1>4, <1>5, <1>8, <1>9 DEF cmd

-----------------------------------------------------------------------------
(* The steps of tasks other than submitting, together.                      *)

\* What such a step does to the task's stream and to the reservations.
StreamMoves(t) ==
  /\ box' \in [Generators -> Seq(Items)]
  /\ \A c \in Generators : \/ box'[c] = box[c]
                           \/ /\ c = t /\ pc[t] = "reading" /\ box[t] # <<>> /\ box'[t] = Tail(box[t])
                              /\ pc'[t] \in {"added", "reading"} => Head(box[t]) \notin Terminal
  /\ pc'[t] \in {"added", "reading"} => pc[t] \in {"added", "reading"}
  /\ \/ reserved' = reserved
     \/ t \in Generators /\ pc[t] = "refused" /\ reserved' = reserved \ {rid[t]}

TaskSteps(t) ==
  \/ t \in Generators /\ GeneratorSteps(t)
  \/ t \in Deleters /\ Deletes(t)
  \/ t = Closer /\ (Close \/ Joined)
  \/ Resume(t)

LEMMA TaskStepsMove ==
  ASSUME Shape, Protocol, NEW t \in Tasks, TaskSteps(t)
  PROVE  TaskMoves(t) /\ StreamMoves(t)
<1>t. /\ Generators \subseteq Tasks /\ Deleters \subseteq Tasks /\ Closer \in Tasks
      /\ \A c \in Generators : c \notin Deleters /\ c # Closer
  BY TasksAreDistinct DEF Clients
<1>s. box \in [Generators -> Seq(Items)]
  BY DEF Shape
<1>1. CASE t \in Generators /\ GeneratorSteps(t)
  <2>1. TaskMoves(t)
    BY <1>1, GeneratorMoves
  <2>2. CASE Accepted(t)
    BY <2>1, <1>s, <1>t, <2>2 DEF Accepted, StreamMoves
  <2>3. CASE Refused(t)
    <3>1. pc'[t] \notin {"added", "reading"}
      BY <1>t, <2>3 DEF Refused, Shape
    <3> QED BY <1>1, <2>1, <1>s, <2>3, <3>1 DEF Refused, StreamMoves
  <2>4. CASE Disconnect(t)
    <3>1. pc'[t] \notin {"added", "reading"}
      <4>1. \E wanted : CancelIf(t, wanted)
        BY <2>4 DEF Disconnect, Cleanup
      <4> QED BY <1>t, <4>1, CancelPlaces
    <3> QED BY <2>1, <1>s, <2>4, <3>1 DEF Disconnect, StreamMoves
  <2>5. CASE Read(t)
    <3>1. box' = [box EXCEPT ![t] = Tail(box[t])] /\ box[t] # <<>> /\ pc[t] = "reading" /\ UNCHANGED reserved
      BY <2>5 DEF Read
    <3>2. box[t] \in Seq(Items)
      BY <1>1, <1>s
    <3>3. Tail(box[t]) \in Seq(Items)
      BY <3>1, <3>2
    <3>4. Head(box[t]) \in Terminal => pc'[t] \notin {"added", "reading"}
      <4>1. Head(box[t]) \in Terminal => \E wanted : CancelIf(t, wanted)
        BY <2>5 DEF Read, Cleanup
      <4> QED BY <1>t, <4>1, CancelPlaces
    <3> HIDE DEF StreamMoves
    <3> QED BY <1>1, <1>s, <3>1, <3>3, <3>4, <2>1 DEF StreamMoves
  <2> QED BY <1>1, <2>1, <2>2, <2>3, <2>4, <2>5 DEF GeneratorSteps
<1>2. CASE t \in Deleters /\ Deletes(t)
  <2>1. PICK id \in Ids : Delete(t, id)
    BY <1>2 DEF Deletes
  <2>2. TaskMoves(t)
    BY <1>2, <2>1, DeleteMoves
  <2>3. pc'[t] \notin {"added", "reading"}
    <3>1. CancelIf(t, Reserved(t))
      BY <2>1 DEF Delete
    <3> QED BY <3>1, CancelPlaces
  <2> QED BY <1>s, <2>1, <2>2, <2>3 DEF Delete, StreamMoves
<1>3. CASE t = Closer /\ (Close \/ Joined)
  <2>1. TaskMoves(t)
    BY <1>3, CloserMoves
  <2>2. UNCHANGED <<box, reserved>>
    BY <1>3 DEF Close, Joined
  <2>3. pc'[t] \notin {"added", "reading"}
    <3>1. Put(t) \/ \E x \in {"joining", "done"} : pc' = [pc EXCEPT ![t] = x]
      BY <1>3 DEF Close, Joined
    <3>2. CASE Put(t)
      BY <3>2, PutPlaces
    <3>3. CASE \E x \in {"joining", "done"} : pc' = [pc EXCEPT ![t] = x]
      BY <3>3 DEF Shape
    <3> QED BY <3>1, <3>2, <3>3
  <2> QED BY <1>s, <2>1, <2>2, <2>3 DEF StreamMoves
<1>4. CASE Resume(t)
  <2>1. TaskMoves(t)
    BY <1>4, ResumeMoves
  <2>2. pc'[t] \notin {"added", "reading"}
    BY <1>4, PutPlaces DEF Resume
  <2> QED BY <1>4, <1>s, <2>1, <2>2 DEF Resume, StreamMoves
<1> QED BY <1>1, <1>2, <1>3, <1>4 DEF TaskSteps


-----------------------------------------------------------------------------
(* The steps of the loop.                                                   *)

\* Those that only move the loop from one place to the next.
Turns == Wait \/ StartDraining \/ DrainDone \/ StepDone

LEMMA NextCases ==
  ASSUME Next
  PROVE  \/ \E t \in Tasks : TaskSteps(t)
         \/ \E c \in Generators, id \in Ids, prompt \in Prompts : Submit(c, id, prompt)
         \/ Turns \/ HandleCommand \/ StepReturns \/ StepReturnsErrors \/ StepFails
         \/ PublishOne \/ CloseEngine \/ StopCommands
<1>1. CASE \E c \in Generators : Submits(c)
  BY <1>1 DEF Submits
<1>2. CASE \E c \in Generators : Accepted(c) \/ Refused(c) \/ Read(c) \/ Disconnect(c)
  BY <1>2, TasksAreDistinct DEF TaskSteps, GeneratorSteps
<1>3. CASE \E c \in Deleters : Deletes(c)
  BY <1>3 DEF TaskSteps, Tasks, Clients
<1>4. CASE Close \/ Joined
  BY <1>4, TasksAreDistinct DEF TaskSteps
<1>5. CASE \E t \in Tasks : Resume(t)
  BY <1>5 DEF TaskSteps
<1>6. CASE Loop
  BY <1>6 DEF Loop, Turns
<1> QED BY <1>1, <1>2, <1>3, <1>4, <1>5, <1>6 DEF Next

LEMMA TurnEffect ==
  ASSUME Shape, OutputsOfEngine, Turns
  PROVE  /\ UNCHANGED <<pc, rid, commands, putters, reserved, streams, box, closing, failure,
                        outputs, work, pending>>
         /\ phase' \in {"top", "waiting", "draining", "stepping"} /\ outputs = {} /\ ~Stopped
<1>1. UNCHANGED <<pc, rid, commands, putters, reserved, streams, box, closing, failure, outputs, work, pending>>
  BY DEF Turns, Wait, StartDraining, DrainDone, StepDone, taskVars, queueVars, flags, engineVars
<1>2. phase' \in {"top", "waiting", "draining", "stepping"} /\ outputs = {} /\ ~Stopped
  BY DEF Turns, Wait, StartDraining, DrainDone, StepDone, OutputsOfEngine, Stopped
<1> QED BY <1>1, <1>2

\* What a command does to the engine and the streams.
Opens(cmd) ==
  /\ cmd.kind = "add" /\ ~Rejected(cmd)
  /\ cmd.id \in Ids /\ cmd.by \in Generators /\ rid[cmd.by] = cmd.id
  /\ streams' = [id \in DOMAIN streams \cup {cmd.id} |-> IF id = cmd.id THEN cmd.by ELSE streams[id]]
  /\ UNCHANGED <<reserved, box>>
  /\ \/ pending' = pending \cup {cmd.id} /\ work' = work
     \/ pending' = pending /\ work' = [work EXCEPT ![cmd.id] = Steps]

Turned(cmd) ==
  /\ cmd.kind = "add" /\ Rejected(cmd)
  /\ reserved' = reserved \ {cmd.id} /\ UNCHANGED <<streams, box, work, pending>>

Ends(cmd) ==
  /\ cmd.kind = "cancel" /\ cmd.id \in Active /\ pending' = pending
  /\ Publish(cmd.id, TRUE, [work EXCEPT ![cmd.id] = 0])

Passes(cmd) ==
  /\ cmd.kind # "add" /\ (cmd.kind = "cancel" => cmd.id \notin Active)
  /\ UNCHANGED <<reserved, streams, box, work, pending>>

LEMMA CommandCases ==
  ASSUME Shape, Protocol, HandleCommand
  PROVE  LET cmd == Head(commands) IN
         /\ UNCHANGED <<rid, closing, failure, outputs>> /\ phase = "draining"
         /\ phase' \in {"draining", "stopping"} /\ (phase' = "stopping" => closing)
         /\ Opens(cmd) \/ Turned(cmd) \/ Ends(cmd) \/ Passes(cmd)
<1> DEFINE cmd == Head(commands)
<1>1. /\ UNCHANGED <<rid, closing, failure, outputs>> /\ phase = "draining"
      /\ phase' = IF cmd.kind = "close" THEN "stopping" ELSE "draining"
      /\ CASE cmd.kind = "add" -> HandleAdd(cmd)
           [] cmd.kind = "cancel" -> HandleCancel(cmd)
           [] cmd.kind = "close" -> UNCHANGED <<reserved, streams, box, engineVars>>
  BY DEF HandleCommand, flags
<1>2. cmd \in Command /\ Sent(cmd)
  BY CommandEffect
<1> HIDE DEF cmd
<1>3. phase' = "stopping" => closing
  BY <1>1, <1>2 DEF Sent
<1>4. cmd.kind \in {"add", "cancel", "close"}
  BY <1>2 DEF Command
<1>5. Opens(cmd) \/ Turned(cmd) \/ Ends(cmd) \/ Passes(cmd)
  <2>1. CASE cmd.kind = "add"
    <3>1. HandleAdd(cmd)
      BY <1>1, <2>1
    <3>2. cmd.by \in Generators /\ cmd.id = rid[cmd.by] /\ cmd.id \in Ids
      BY <1>2, <2>1, TasksAreDistinct DEF Sent, Protocol
    <3> QED BY <2>1, <3>1, <3>2 DEF HandleAdd, Opens, Turned, engineVars
  <2>2. CASE cmd.kind = "cancel"
    <3>1. HandleCancel(cmd)
      BY <1>1, <2>2
    <3> QED BY <2>2, <3>1 DEF HandleCancel, Ends, Passes
  <2>3. CASE cmd.kind = "close"
    BY <1>1, <2>3 DEF Passes, engineVars
  <2> QED BY <1>4, <2>1, <2>2, <2>3
<1> QED BY <1>1, <1>3, <1>5 DEF cmd

\* The last drain answers every command it finds.
LEMMA StopEffect ==
  ASSUME Shape, Protocol, StopCommands
  PROVE  /\ pc' \in [Tasks -> Places] /\ commands' = <<>> /\ putters' \in Seq(Tasks)
         /\ \A t \in Tasks : \/ pc[t] = "adding" /\ pc'[t] = "refused"
                             \/ pc[t] = "answering" /\ pc'[t] = "done"
                             \/ pc[t] # "idle" /\ pc'[t] = "woken"
                             \/ pc'[t] = pc[t]
         /\ \A i \in 1 .. Len(putters') : \E j \in 1 .. Len(putters) : putters'[i] = putters[j]
         /\ UNCHANGED <<rid, streams, box, closing, failure, outputs, work, pending>>
         /\ reserved' = {} /\ phase = "ending" /\ phase' = "ended" /\ outputs = {}
<1> DEFINE n == Len(commands)
<1>1. /\ putters' = SubSeq(putters, n + 1, Len(putters)) /\ commands' = <<>>
      /\ pc' = [t \in Tasks |-> IF \E i \in DOMAIN commands : Awaits(t, commands[i]) THEN Refusal(t)
                                ELSE IF t \in Woken(n) THEN "woken" ELSE pc[t]]
      /\ UNCHANGED <<rid, streams, box, closing, failure, outputs, work, pending>>
      /\ reserved' = {} /\ phase = "ending" /\ phase' = "ended" /\ outputs = {}
  BY DEF StopCommands, flags, engineVars
<1>2. commands \in Seq(Command) /\ putters \in Seq(Tasks) /\ pc \in [Tasks -> Places] /\ n \in Nat
  BY DEF Shape
<1> HIDE DEF n
<1>3. /\ putters' \in Seq(Tasks)
      /\ \A i \in 1 .. Len(putters') : \E j \in 1 .. Len(putters) : putters'[i] = putters[j]
  <2>1. putters' \in Seq(Tasks) /\ Len(putters') \in Nat
    BY <1>1, <1>2
  <2>2. ASSUME NEW i \in 1 .. Len(putters') PROVE i + n \in 1 .. Len(putters) /\ putters'[i] = putters[i + n]
    BY <1>1, <1>2, <2>2
  <2> QED BY <2>1, <2>2
<1>4. \A t \in Woken(n) : pc[t] # "idle"
  <2>1. ASSUME NEW t \in Woken(n) PROVE \E j \in 1 .. Len(putters) : putters[j] = t
    BY <1>2, <2>1 DEF Woken
  <2> QED BY <2>1 DEF Protocol
<1>5. \A t \in Tasks : (\E i \in DOMAIN commands : Awaits(t, commands[i])) => pc[t] \in {"adding", "answering"}
  BY DEF Awaits
<1>6. \A t \in Tasks : pc[t] \in {"adding", "answering"} =>
        \/ pc[t] = "adding" /\ Refusal(t) = "refused"
        \/ pc[t] = "answering" /\ Refusal(t) = "done"
  BY DEF Refusal
<1>7. \A t \in Tasks : \/ pc[t] = "adding" /\ pc'[t] = "refused"
                       \/ pc[t] = "answering" /\ pc'[t] = "done"
                       \/ pc[t] # "idle" /\ pc'[t] = "woken"
                       \/ pc'[t] = pc[t]
  BY <1>1, <1>4, <1>5, <1>6
<1>8. pc' \in [Tasks -> Places]
  <2>1. \A t \in Tasks : pc'[t] \in Places
    BY <1>2, <1>7 DEF Places
  <2> QED BY <1>1, <2>1
<1> QED BY <1>1, <1>3, <1>7, <1>8


LEMMA PublishActive ==
  ASSUME Shape, NEW id \in Ids, NEW last \in BOOLEAN, NEW left \in [Ids -> Nat],
         Publish(id, last, left), last => left[id] = 0
  PROVE  Active' = {x \in Ids : left[x] > 0} \ (IF Closes(id, last) THEN {id} ELSE {})
<1>1. /\ work' \in [Ids -> Nat]
      /\ \/ work' = left /\ (last \/ ~Closes(id, last))
         \/ work' = [left EXCEPT ![id] = 0] /\ Closes(id, last)
  <2>1. Published(id, last, left)
    BY PublishEffect
  <2> QED BY <2>1 DEF Published
<1>2. CASE work' = left /\ (last \/ ~Closes(id, last))
  BY <1>2 DEF Active
<1>3. CASE work' = [left EXCEPT ![id] = 0] /\ Closes(id, last)
  BY <1>3 DEF Active
<1> QED BY <1>1, <1>2, <1>3

\* One output, as the loop publishes it.
PublishesOf(o) ==
  /\ o \in outputs /\ phase \in {"publishing", "ending"} /\ outputs' = outputs \ {o}
  /\ Publish(o.id, o.last, work)
  /\ UNCHANGED <<pc, rid, commands, putters, closing, failure, phase, pending>>

LEMMA PublishOneEffect == ASSUME PublishOne PROVE \E o \in outputs : PublishesOf(o)
  BY DEF PublishOne, PublishesOf, taskVars, queueVars, flags

-----------------------------------------------------------------------------
(* The first part of the invariant: shape and protocol.                     *)

Base == Shape /\ Protocol /\ OutputsOfEngine /\ StreamsMatchEngine /\ Opening

LEMMA WorkDone ==
  ASSUME Shape, NEW batch \in SUBSET Active
  PROVE  /\ [id \in Ids |-> IF id \in batch THEN work[id] - 1 ELSE work[id]] \in [Ids -> Nat]
         /\ [id \in Ids |-> IF id \in batch THEN 0 ELSE work[id]] \in [Ids -> Nat]
  BY DEF Shape, Active

LEMMA ShapeKept ==
  ASSUME Shape, Protocol, OutputsOfEngine, Next
  PROVE  Shape' /\ Protocol'
<1> USE DEF Shape
<1>1. ASSUME NEW t \in Tasks, TaskSteps(t) PROVE Shape' /\ Protocol'
  <2>1. TaskMoves(t) /\ StreamMoves(t)
    BY <1>1, TaskStepsMove
  <2>2. commands' \in Seq(Command) /\ putters' \in Seq(Tasks)
    BY <2>1, QueueGrows
  <2>3. reserved' \subseteq Ids
    BY <2>1 DEF StreamMoves
  <2>4. Readers' = Readers
    BY <2>1 DEF Readers, TaskMoves
  <2>5. Shape'
    BY <2>1, <2>2, <2>3, <2>4 DEF TaskMoves, StreamMoves
  <2> QED BY <2>1, <2>5, MovesProtocol
<1>2. ASSUME NEW c \in Generators, NEW id \in Ids, NEW prompt \in Prompts, Submit(c, id, prompt)
      PROVE  Shape' /\ Protocol'
  <2> DEFINE m == [kind |-> "add", id |-> id, prompt |-> prompt, by |-> c]
  <2>1. /\ commands' = Append(commands, m) /\ pc' = [pc EXCEPT ![c] = "adding"]
        /\ rid' = [rid EXCEPT ![c] = id] /\ pc[c] = "idle" /\ reserved' = reserved \cup {id}
        /\ UNCHANGED <<putters, streams, box, closing, failure, phase, outputs, work, pending>>
    BY <1>2 DEF Submit, flags, loopVars, engineVars
  <2>2. c \in Clients /\ c \in Tasks /\ c # Closer /\ m \in Command /\ m.kind = "add"
        /\ m.by = c /\ m.id = id /\ m.prompt \in Prompts
    BY TasksAreDistinct DEF Command
  <2> HIDE DEF m
  <2>3. pc' \in [Tasks -> Places] /\ pc'[c] # "idle" /\ \A t \in Tasks : pc[t] # "idle" => t # c /\ pc'[t] # "idle"
    BY <2>1, <2>2 DEF Places
  <2>4. rid' \in [Clients -> Ids \cup {NoId}] /\ rid'[c] = id
        /\ \A d \in Clients : pc[d] # "idle" => rid'[d] = rid[d]
    BY <2>1, <2>2
  <2>5. /\ commands' \in Seq(Command) /\ \A i \in 1 .. Len(commands') :
             commands'[i] = m \/ (i \in 1 .. Len(commands) /\ commands'[i] = commands[i])
    BY <2>1, <2>2
  <2>6. Shape'
    <3>1. Readers' = Readers
      BY <2>1 DEF Readers
    <3> QED BY <2>1, <2>2, <2>3, <2>4, <2>5, <3>1
  <2>7. /\ \A d \in Clients : pc'[d] # "idle" => rid'[d] \in Ids
        /\ pc'[Closer] # "idle" => closing'
        /\ \A i \in 1 .. Len(putters') : pc'[putters'[i]] # "idle"
    BY <2>1, <2>2, <2>3, <2>4, TasksAreDistinct DEF Protocol
  <2>8. ASSUME NEW i \in 1 .. Len(commands') PROVE Sent(commands[i])'
    <3>1. CASE commands'[i] = m
      BY <2>2, <2>3, <2>4, <3>1 DEF Sent
    <3>2. CASE i \in 1 .. Len(commands) /\ commands'[i] = commands[i]
      <4>1. Sent(commands[i]) /\ commands[i] \in Command
        BY <3>2 DEF Protocol
      <4>2. commands[i].by \in Tasks
        BY <4>1 DEF Command
      <4> QED BY <2>1, <2>3, <2>4, <3>2, <4>1, <4>2, TasksAreDistinct DEF Sent
    <3> QED BY <2>5, <3>1, <3>2
  <2> QED BY <2>6, <2>7, <2>8 DEF Protocol
<1>3. CASE Turns
  BY <1>3, TurnEffect DEF Protocol, Sent, Readers, Phases
<1>4. CASE HandleCommand
  <2> DEFINE cmd == Head(commands)
  <2>1. /\ cmd \in Command /\ Sent(cmd)
        /\ commands' = Tail(commands) /\ commands # <<>> /\ commands' \in Seq(Command) /\ putters' \in Seq(Tasks)
        /\ pc' \in [Tasks -> Places]
        /\ \A t \in Tasks : \/ Awaits(t, cmd) /\ pc'[t] = Answer(cmd)
                            \/ ~Awaits(t, cmd) /\ pc'[t] = "woken" /\ pc[t] # "idle"
                            \/ ~Awaits(t, cmd) /\ pc'[t] = pc[t]
        /\ \A i \in 1 .. Len(putters') : \E j \in 1 .. Len(putters) : putters'[i] = putters[j]
    BY <1>4, CommandEffect
  <2>2. /\ UNCHANGED <<rid, closing, failure, outputs>> /\ phase' \in Phases
        /\ Opens(cmd) \/ Turned(cmd) \/ Ends(cmd) \/ Passes(cmd)
    BY <1>4, CommandCases DEF Phases
  <2> HIDE DEF cmd
  <2>3. \A t \in Tasks : pc'[t] # "idle" <=> pc[t] # "idle"
    BY <2>1 DEF Awaits, Answer
  <2>4. /\ reserved' \subseteq Ids /\ pending' \subseteq Ids /\ work' \in [Ids -> Nat]
        /\ DOMAIN streams' \subseteq Ids /\ Readers' \subseteq Generators
        /\ streams' = [x \in DOMAIN streams' |-> streams'[x]] /\ box' \in [Generators -> Seq(Items)]
    <3>1. CASE Opens(cmd)
      <4>1. work' \in [Ids -> Nat]
        BY <3>1, ServiceLimits DEF Opens
      <4>2. pending' \subseteq Ids /\ DOMAIN streams' = DOMAIN streams \cup {cmd.id} /\ cmd.id \in Ids
            /\ reserved' \subseteq Ids /\ box' \in [Generators -> Seq(Items)]
            /\ streams' = [x \in DOMAIN streams' |-> streams'[x]]
            /\ \A x \in DOMAIN streams' : streams'[x] = IF x = cmd.id THEN cmd.by ELSE streams[x]
        BY <3>1 DEF Opens
      <4>3. Readers' \subseteq Generators
        <5>1. \A x \in DOMAIN streams : streams[x] \in Generators
          BY DEF Readers
        <5>2. \A x \in DOMAIN streams' : streams'[x] \in Generators
          BY <3>1, <4>2, <5>1 DEF Opens
        <5> QED BY <5>2 DEF Readers
      <4> QED BY <4>1, <4>2, <4>3
    <3>2. CASE Turned(cmd) \/ Passes(cmd)
      BY <3>2 DEF Turned, Passes, Readers
    <3>3. CASE Ends(cmd)
      <4>1. cmd.id \in Ids /\ [work EXCEPT ![cmd.id] = 0] \in [Ids -> Nat] /\ TRUE \in BOOLEAN
            /\ Publish(cmd.id, TRUE, [work EXCEPT ![cmd.id] = 0]) /\ pending' = pending
        BY <3>3 DEF Ends, Active
      <4>2. /\ work' \in [Ids -> Nat] /\ reserved' \subseteq Ids /\ box' \in [Generators -> Seq(Items)]
            /\ DOMAIN streams' \subseteq DOMAIN streams
            /\ streams' = [x \in DOMAIN streams' |-> streams'[x]]
            /\ \A x \in DOMAIN streams' : streams'[x] = streams[x]
        <5>1. Published(cmd.id, TRUE, [work EXCEPT ![cmd.id] = 0])
          <6> HIDE DEF Shape
          <6> QED BY <4>1, PublishEffect
        <5> QED BY <5>1 DEF Published
      <4> QED BY <4>1, <4>2 DEF Readers
    <3> QED BY <2>2, <3>1, <3>2, <3>3
  <2>5. Shape'
    BY <2>1, <2>2, <2>4
  <2>6. /\ \A d \in Clients : pc'[d] # "idle" => rid'[d] \in Ids
        /\ pc'[Closer] # "idle" => closing'
    BY <2>2, <2>3, TasksAreDistinct DEF Protocol
  <2>7. \A i \in 1 .. Len(putters') : pc'[putters'[i]] # "idle"
    <3>1. \A j \in 1 .. Len(putters) : putters[j] \in Tasks
      OBVIOUS
    <3>2. \A j \in 1 .. Len(putters) : pc'[putters[j]] # "idle"
      BY <2>3, <3>1 DEF Protocol
    <3> QED BY <2>1, <3>2
  <2>8. ASSUME NEW i \in 1 .. Len(commands') PROVE Sent(commands[i])'
    <3>1. i + 1 \in 1 .. Len(commands) /\ commands'[i] = commands[i + 1]
      BY <2>1
    <3>2. Sent(commands[i + 1]) /\ commands[i + 1] \in Command
      BY <3>1 DEF Protocol
    <3>3. Sent(commands'[i]) /\ commands'[i].by \in Tasks
      BY <3>1, <3>2 DEF Command
    <3> QED BY <2>2, <2>3, <3>3 DEF Sent
  <2> QED BY <2>5, <2>6, <2>7, <2>8 DEF Protocol
<1>5. CASE StepReturns
  <2>1. PICK batch \in SUBSET Active :
          /\ work' = [id \in Ids |-> IF id \in batch THEN work[id] - 1 ELSE work[id]]
          /\ outputs' = {[id |-> id, last |-> TRUE] : id \in pending}
                        \cup {[id |-> id, last |-> work'[id] = 0] : id \in {b \in batch : work'[b] < Outputs}}
    BY <1>5 DEF StepReturns
  <2>2. work' \in [Ids -> Nat]
    BY <2>1, WorkDone
  <2>3. outputs' \subseteq OutputItem
    <3>1. ASSUME NEW o \in outputs'
          PROVE  \E id \in Ids, last \in BOOLEAN : o = [id |-> id, last |-> last]
      <4>1. CASE \E id \in pending : o = [id |-> id, last |-> TRUE]
        BY <4>1
      <4>2. CASE \E id \in batch : o = [id |-> id, last |-> work'[id] = 0]
        <5>1. PICK id \in batch : o = [id |-> id, last |-> work'[id] = 0]
          BY <4>2
        <5>2. id \in Ids /\ (work'[id] = 0) \in BOOLEAN
          BY DEF Active
        <5> QED BY <5>1, <5>2
      <4> QED BY <2>1, <4>1, <4>2
    <3> QED BY <3>1 DEF OutputItem
  <2> QED BY <1>5, <2>2, <2>3 DEF StepReturns, Protocol, Sent, Readers, Phases, taskVars, queueVars, flags
<1>6. CASE StepReturnsErrors
  <2>1. outputs' \subseteq OutputItem /\ work' \in [Ids -> Nat]
    <3>1. PICK batch \in SUBSET Active :
            /\ work' = [id \in Ids |-> IF id \in batch THEN 0 ELSE work[id]]
            /\ outputs' = [id : batch, last : {TRUE}]
      BY <1>6 DEF StepReturnsErrors, ErrorOutputs
    <3>2. work' \in [Ids -> Nat]
      BY <3>1, WorkDone
    <3>3. batch \subseteq Ids
      BY DEF Active
    <3> QED BY <3>1, <3>2, <3>3 DEF OutputItem
  <2> QED BY <1>6, <2>1 DEF StepReturnsErrors, Protocol, Sent, Readers, Phases, taskVars, queueVars, flags
<1>7. CASE StepFails
  <2>1. /\ streams' = <<>> /\ phase' = "stopping"
        /\ box' = [c \in Generators |-> IF c \in Range(streams) THEN <<"failed">> ELSE box[c]]
        /\ UNCHANGED <<pc, rid, commands, putters, reserved, closing, outputs, work, pending>>
    BY <1>7 DEF StepFails, taskVars, queueVars, engineVars
  <2>2. DOMAIN streams' = {} /\ Readers' = {} /\ streams' = [x \in DOMAIN streams' |-> streams'[x]]
    BY <2>1 DEF Readers
  <2>3. box' \in [Generators -> Seq(Items)]
    <3>1. "failed" \in Items
      BY DEF Items, Terminal
    <3>2. <<"failed">> \in Seq(Items) /\ \A c \in Generators : box[c] \in Seq(Items)
      BY <3>1
    <3> QED BY <2>1, <3>2
  <2> QED BY <2>1, <2>2, <2>3 DEF Protocol, Sent, Phases
<1>8. CASE PublishOne
  <2>1. PICK o \in outputs : PublishesOf(o)
    BY <1>8, PublishOneEffect
  <2>2. o.id \in Ids /\ o.last \in BOOLEAN /\ Publish(o.id, o.last, work) /\ work \in [Ids -> Nat]
    BY <2>1 DEF PublishesOf, OutputItem
  <2>3. /\ work' \in [Ids -> Nat] /\ reserved' \subseteq Ids /\ box' \in [Generators -> Seq(Items)]
        /\ DOMAIN streams' \subseteq DOMAIN streams
        /\ streams' = [x \in DOMAIN streams' |-> streams'[x]]
        /\ \A x \in DOMAIN streams' : streams'[x] = streams[x]
    <3>1. Published(o.id, o.last, work)
      <4> HIDE DEF Shape
      <4> QED BY <2>2, PublishEffect
    <3> QED BY <3>1 DEF Published
  <2> QED BY <2>1, <2>3 DEF PublishesOf, Protocol, Sent, Readers
<1>9. CASE CloseEngine
  <2>1. outputs' \subseteq OutputItem /\ work' \in [Ids -> Nat]
    BY <1>9 DEF CloseEngine, CloseOutputs, OutputItem, Active
  <2> QED BY <1>9, <2>1 DEF CloseEngine, Protocol, Sent, Readers, Phases, taskVars, queueVars, flags
<1>10. CASE StopCommands
  <2>1. /\ pc' \in [Tasks -> Places] /\ commands' = <<>> /\ putters' \in Seq(Tasks)
        /\ \A t \in Tasks : pc'[t] # "idle" <=> pc[t] # "idle"
        /\ \A i \in 1 .. Len(putters') : \E j \in 1 .. Len(putters) : putters'[i] = putters[j]
        /\ UNCHANGED <<rid, streams, box, closing, failure, outputs, work, pending>>
        /\ reserved' = {} /\ phase' = "ended"
    BY <1>10, StopEffect
  <2>2. Shape'
    BY <2>1 DEF Readers, Phases
  <2>3. Protocol'
    BY <2>1, TasksAreDistinct DEF Protocol
  <2> QED BY <2>2, <2>3
<1> QED BY <1>1, <1>2, <1>3, <1>4, <1>5, <1>6, <1>7, <1>8, <1>9, <1>10, NextCases


-----------------------------------------------------------------------------
(* The second part: streams, the engine's requests and the loop's outputs.  *)

\* The requests whose final output the loop still has to publish.
Finishing == {id \in Ids : [id |-> id, last |-> TRUE] \in outputs}

LEMMA StreamsEquation ==
  StreamsMatchEngine <=> (~failure => DOMAIN streams = Active \cup pending \cup Finishing)
  BY DEF StreamsMatchEngine, Finishing

LEMMA FinalOutputs ==
  ASSUME NEW S, NEW o \in [id : S, last : {TRUE}]
  PROVE  o.id \in S /\ o.last /\ o = [id |-> o.id, last |-> TRUE]
<1>1. o.id \in S /\ o.last = TRUE
  OBVIOUS
<1>2. o = [id |-> o.id, last |-> o.last]
  OBVIOUS
<1> QED BY <1>1, <1>2

LEMMA OutputsKept ==
  ASSUME Shape, Protocol, OutputsOfEngine, StreamsMatchEngine, Next
  PROVE  OutputsOfEngine' /\ StreamsMatchEngine'
<1>s. ~failure => DOMAIN streams = Active \cup pending \cup Finishing
  BY StreamsEquation
<1>k. /\ Active \subseteq Ids /\ pending \subseteq Ids /\ work \in [Ids -> Nat]
      /\ \A id \in Ids : id \in Active <=> work[id] > 0
  BY DEF Shape, Active
<1>1. ASSUME NEW t \in Tasks, TaskSteps(t) PROVE OutputsOfEngine' /\ StreamsMatchEngine'
  <2>1. UNCHANGED <<streams, work, pending, phase, outputs, failure>>
    BY <1>1, TaskStepsMove DEF TaskMoves
  <2> QED BY <2>1 DEF OutputsOfEngine, StreamsMatchEngine, Active, Stopped
<1>2. ASSUME NEW c \in Generators, NEW id \in Ids, NEW prompt \in Prompts, Submit(c, id, prompt)
      PROVE  OutputsOfEngine' /\ StreamsMatchEngine'
  BY <1>2 DEF Submit, flags, loopVars, engineVars, OutputsOfEngine, StreamsMatchEngine, Active, Stopped
<1>3. CASE Turns
  <2>1. /\ UNCHANGED <<streams, failure, outputs, work, pending>>
        /\ outputs = {} /\ ~Stopped
    BY <1>3, TurnEffect
  <2> QED BY <2>1 DEF OutputsOfEngine, StreamsMatchEngine, Active
<1>4. CASE HandleCommand
  <2> DEFINE cmd == Head(commands)
  <2>1. /\ UNCHANGED <<failure, outputs>> /\ outputs = {} /\ ~failure
        /\ Opens(cmd) \/ Turned(cmd) \/ Ends(cmd) \/ Passes(cmd)
    BY <1>4, CommandCases DEF OutputsOfEngine, Stopped
  <2>2. Finishing = {} /\ Finishing' = {}
    BY <2>1 DEF Finishing
  <2> HIDE DEF cmd
  <2>3. CASE Opens(cmd)
    <3>1. /\ cmd.id \in Ids /\ cmd.id \notin Active \cup pending
          /\ DOMAIN streams' = DOMAIN streams \cup {cmd.id}
      BY <2>3 DEF Opens, Rejected
    <3>2. /\ Active' \cup pending' = Active \cup pending \cup {cmd.id}
          /\ Active' \cap pending' = {}
      <4>1. Steps > 0
        BY ServiceLimits
      <4>2. CASE pending' = pending \cup {cmd.id} /\ work' = work
        BY <3>1, <4>2 DEF Active, OutputsOfEngine
      <4>3. CASE pending' = pending /\ work' = [work EXCEPT ![cmd.id] = Steps]
        <5>1. Active' = Active \cup {cmd.id}
          BY <1>k, <3>1, <4>1, <4>3 DEF Active
        <5> QED BY <3>1, <4>3, <5>1 DEF OutputsOfEngine
      <4> QED BY <2>3, <4>2, <4>3 DEF Opens
    <3>3. StreamsMatchEngine'
      BY <1>s, <2>1, <2>2, <3>1, <3>2 DEF StreamsMatchEngine, Finishing
    <3> QED BY <2>1, <3>2, <3>3 DEF OutputsOfEngine
  <2>4. CASE Turned(cmd) \/ Passes(cmd)
    BY <2>1, <2>4 DEF Turned, Passes, OutputsOfEngine, StreamsMatchEngine, Active
  <2>5. CASE Ends(cmd)
    <3> DEFINE left == [work EXCEPT ![cmd.id] = 0]
    <3>0. cmd.id \in Ids /\ cmd.id \in Active /\ cmd.id \notin pending
      BY <1>k, <2>5 DEF Ends, OutputsOfEngine
    <3>1. /\ left \in [Ids -> Nat] /\ left[cmd.id] = 0 /\ Publish(cmd.id, TRUE, left)
          /\ {x \in Ids : left[x] > 0} = Active \ {cmd.id} /\ pending' = pending
      <4>1. Publish(cmd.id, TRUE, left) /\ pending' = pending
        BY <2>5 DEF Ends
      <4>2. left \in [Ids -> Nat] /\ left[cmd.id] = 0
        BY <1>k, <3>0
      <4>3. {x \in Ids : left[x] > 0} = Active \ {cmd.id}
        BY <1>k, <3>0
      <4> QED BY <4>1, <4>2, <4>3
    <3> HIDE DEF left
    <3>2. Published(cmd.id, TRUE, left) /\ TRUE \in BOOLEAN
      BY <3>0, <3>1, PublishEffect
    <3>3. Active' = Active \ {cmd.id}
      BY <3>0, <3>1, PublishActive
    <3>4. DOMAIN streams' = DOMAIN streams \ {cmd.id}
      BY <3>2 DEF Published, Closes
    <3>5. StreamsMatchEngine'
      BY <1>s, <2>1, <2>2, <3>0, <3>1, <3>3, <3>4 DEF StreamsMatchEngine, Finishing
    <3> QED BY <2>1, <3>0, <3>1, <3>3, <3>5 DEF OutputsOfEngine
  <2> QED BY <2>1, <2>3, <2>4, <2>5
<1>5. CASE StepReturns
  <2>1. PICK batch \in SUBSET Active :
          /\ work' = [id \in Ids |-> IF id \in batch THEN work[id] - 1 ELSE work[id]]
          /\ outputs' = {[id |-> id, last |-> TRUE] : id \in pending}
                        \cup {[id |-> id, last |-> work'[id] = 0] : id \in {b \in batch : work'[b] < Outputs}}
    BY <1>5 DEF StepReturns
  <2>2. /\ pending' = {} /\ phase' = "publishing" /\ ~failure /\ outputs = {}
        /\ UNCHANGED <<streams, failure>>
    BY <1>5 DEF StepReturns, flags, OutputsOfEngine, Stopped
  <2>3. \A id \in Ids : id \in Active' <=> id \in Active /\ ~(id \in batch /\ work'[id] = 0)
    BY <1>k, <2>1 DEF Active
  <2>4. \A o \in outputs' : \/ o.id \in pending /\ o.last
                            \/ o.id \in batch /\ o.last = (work'[o.id] = 0)
    BY <2>1
  <2>5. \A o, p \in outputs' : o.id = p.id => o = p
    <3>1. pending \cap batch = {}
      BY DEF OutputsOfEngine
    <3>2. \A o \in outputs' : \/ o.id \in pending /\ o = [id |-> o.id, last |-> TRUE]
                              \/ o.id \in batch /\ o = [id |-> o.id, last |-> work'[o.id] = 0]
      BY <2>1
    <3> QED BY <3>1, <3>2
  <2>6. Finishing' = pending \cup {b \in batch : work'[b] = 0}
    <3>1. 0 < Outputs
      BY ServiceLimits
    <3>2. ASSUME NEW b \in batch, work'[b] = 0 PROVE [id |-> b, last |-> TRUE] \in outputs'
      <4>1. [id |-> b, last |-> work'[b] = 0] \in outputs'
        BY <2>1, <3>1, <3>2
      <4>2. [id |-> b, last |-> work'[b] = 0] = [id |-> b, last |-> TRUE]
        BY <3>2
      <4> QED BY <4>1, <4>2
    <3>3. ASSUME NEW id \in Ids, [id |-> id, last |-> TRUE] \in outputs'
          PROVE  id \in pending \/ (id \in batch /\ work'[id] = 0)
      BY <2>4, <3>3
    <3>4. \A id \in pending : [id |-> id, last |-> TRUE] \in outputs'
      BY <2>1
    <3> QED BY <1>k, <3>2, <3>3, <3>4 DEF Finishing
  <2>7. StreamsMatchEngine'
    <3>1. Finishing = {}
      BY <2>2 DEF Finishing
    <3>2. DOMAIN streams' = Active' \cup pending' \cup Finishing'
      <4>1. Active' \subseteq Ids
        BY DEF Active
      <4> QED BY <1>k, <1>s, <2>2, <2>3, <2>6, <3>1, <4>1
    <3> QED BY <3>2 DEF StreamsMatchEngine, Finishing
  <2>8. \A o \in outputs' : IF o.last THEN o.id \notin Active' \cup pending' ELSE o.id \in Active'
    BY <1>k, <2>2, <2>3, <2>4 DEF OutputsOfEngine
  <2> QED BY <2>2, <2>5, <2>7, <2>8 DEF OutputsOfEngine
<1>6. CASE StepReturnsErrors
  <2>1. PICK batch \in SUBSET Active :
          /\ work' = [id \in Ids |-> IF id \in batch THEN 0 ELSE work[id]]
          /\ outputs' = [id : batch, last : {TRUE}]
    BY <1>6 DEF StepReturnsErrors, ErrorOutputs
  <2>2. /\ pending' = pending /\ phase' = "publishing" /\ ~failure /\ outputs = {}
        /\ UNCHANGED <<streams, failure>>
    BY <1>6 DEF StepReturnsErrors, flags, OutputsOfEngine, Stopped
  <2>3. Active' = Active \ batch
    BY <1>k, <2>1 DEF Active
  <2>4. Finishing = {} /\ Finishing' = batch
    BY <1>k, <2>1, <2>2 DEF Finishing
  <2>5. StreamsMatchEngine'
    BY <1>s, <2>2, <2>3, <2>4 DEF StreamsMatchEngine, Finishing
  <2>6. \A o \in outputs' : o.last /\ o.id \in batch /\ o = [id |-> o.id, last |-> TRUE]
    BY <2>1, FinalOutputs
  <2> QED BY <2>2, <2>3, <2>5, <2>6 DEF OutputsOfEngine
<1>7. CASE StepFails
  <2>1. UNCHANGED <<outputs, work, pending>> /\ failure' /\ phase' = "stopping" /\ phase = "stepping"
    BY <1>7 DEF StepFails, engineVars
  <2> QED BY <2>1 DEF OutputsOfEngine, StreamsMatchEngine, Active, Stopped
<1>8. CASE PublishOne
  <2>1. PICK o \in outputs : PublishesOf(o)
    BY <1>8, PublishOneEffect
  <2>2. /\ o.id \in Ids /\ o.last \in BOOLEAN /\ Publish(o.id, o.last, work)
        /\ outputs' = outputs \ {o} /\ UNCHANGED <<failure, phase, pending>>
        /\ phase \in {"publishing", "ending"}
    BY <2>1 DEF PublishesOf, Shape, OutputItem
  <2>3. Published(o.id, o.last, work)
    BY <1>k, <2>2, PublishEffect
  <2>4. o.last => work[o.id] = 0
    BY <1>k, <2>2 DEF OutputsOfEngine
  <2>5. Active' = Active \ (IF Closes(o.id, o.last) THEN {o.id} ELSE {})
    BY <1>k, <2>2, <2>4, PublishActive DEF Active
  <2>6. DOMAIN streams' = DOMAIN streams \ (IF Closes(o.id, o.last) THEN {o.id} ELSE {})
    BY <2>3 DEF Published
  <2>7. \A p \in outputs' : p \in outputs /\ p.id # o.id
    BY <2>2 DEF OutputsOfEngine
  <2>8. Finishing' = Finishing \ {o.id} /\ (o.id \in Finishing <=> o.last)
    <3>1. o = [id |-> o.id, last |-> o.last]
      BY <2>2 DEF Shape, OutputItem
    <3>2. \A id \in Ids : id # o.id =>
            ([id |-> id, last |-> TRUE] \in outputs' <=> [id |-> id, last |-> TRUE] \in outputs)
      BY <2>2, <3>1
    <3>3. [id |-> o.id, last |-> TRUE] \notin outputs'
      BY <2>7
    <3>4. o.id \in Finishing <=> o.last
      <4>1. [id |-> o.id, last |-> TRUE] \in outputs => o = [id |-> o.id, last |-> TRUE]
        BY DEF OutputsOfEngine
      <4>2. CASE o.last = TRUE
        BY <2>2, <3>1, <4>2 DEF Finishing
      <4>3. CASE o.last = FALSE
        <5>1. o # [id |-> o.id, last |-> TRUE]
          BY <4>3
        <5> QED BY <2>2, <4>1, <4>3, <5>1 DEF Finishing
      <4> QED BY <2>2, <4>2, <4>3
    <3> QED BY <3>2, <3>3, <3>4 DEF Finishing
  <2>9. ~failure => DOMAIN streams' = Active' \cup pending' \cup Finishing'
    <3> SUFFICES ASSUME ~failure PROVE DOMAIN streams' = Active' \cup pending' \cup Finishing'
      OBVIOUS
    <3>1. o.id \in DOMAIN streams
      BY <1>s, <2>8 DEF OutputsOfEngine
    <3>2. CASE o.last
      <4>1. Closes(o.id, o.last) /\ o.id \notin Active \cup pending
        BY <3>1, <3>2 DEF Closes, OutputsOfEngine
      <4> QED BY <1>s, <2>2, <2>5, <2>6, <2>8, <4>1
    <3>3. CASE ~o.last
      <4>1. o.id \in Active /\ o.id \notin pending /\ o.id \notin Finishing
        BY <2>8, <3>3 DEF OutputsOfEngine
      <4> QED BY <1>s, <2>2, <2>5, <2>6, <2>8, <4>1
    <3> QED BY <3>2, <3>3
  <2>10. StreamsMatchEngine'
    BY <2>2, <2>9 DEF StreamsMatchEngine, Finishing
  <2>11. \A p \in outputs' : IF p.last THEN p.id \notin Active' \cup pending' ELSE p.id \in Active'
    BY <2>2, <2>5, <2>7 DEF OutputsOfEngine
  <2>12. /\ Active' \cap pending' = {}
         /\ phase' \notin {"publishing", "ending"} => outputs' = {}
         /\ \A p, q \in outputs' : p.id = q.id => p = q
         /\ failure' => Stopped'
    BY <2>2, <2>5, <2>7 DEF OutputsOfEngine, Stopped
  <2> QED BY <2>10, <2>11, <2>12 DEF OutputsOfEngine
<1>9. CASE CloseEngine
  <2>1. /\ work' = [id \in Ids |-> 0] /\ pending' = {} /\ phase' = "ending" /\ phase = "stopping"
        /\ outputs' = [id : Active \cup pending, last : {TRUE}] /\ UNCHANGED <<streams, failure>>
    BY <1>9 DEF CloseEngine, CloseOutputs, flags
  <2>2. Active' = {}
    BY <2>1 DEF Active
  <2>3. Finishing = {} /\ Finishing' = Active \cup pending
    BY <1>k, <2>1 DEF Finishing, OutputsOfEngine
  <2>4. StreamsMatchEngine'
    BY <1>s, <2>1, <2>2, <2>3 DEF StreamsMatchEngine, Finishing
  <2>5. \A o \in outputs' : o.last /\ o = [id |-> o.id, last |-> TRUE]
    BY <2>1, FinalOutputs
  <2> QED BY <2>1, <2>2, <2>4, <2>5 DEF OutputsOfEngine, Stopped
<1>10. CASE StopCommands
  <2>1. /\ UNCHANGED <<streams, failure, outputs, work, pending>>
        /\ phase' = "ended" /\ outputs = {}
    BY <1>10, StopEffect
  <2> QED BY <2>1 DEF OutputsOfEngine, StreamsMatchEngine, Active, Stopped
<1> QED BY <1>1, <1>2, <1>3, <1>4, <1>5, <1>6, <1>7, <1>8, <1>9, <1>10, NextCases


-----------------------------------------------------------------------------
(* The third part: what each reader finds.                                  *)

LEMMA PublishOpening ==
  ASSUME Shape, StreamsOfReaders, LastIsTerminal,
         NEW id \in Ids, NEW last, NEW left, Published(id, last, left)
  PROVE  /\ \A c \in Generators : c \notin Readers => c \notin Readers' /\ box'[c] = box[c]
         /\ \A c \in Generators : c \in Readers \ Readers' => Ended(c)'
         /\ LastIsTerminal'
         /\ DOMAIN streams' \subseteq DOMAIN streams /\ \A x \in DOMAIN streams' : streams'[x] = streams[x]
<1>1. /\ DOMAIN streams' = IF Closes(id, last) THEN DOMAIN streams \ {id} ELSE DOMAIN streams
      /\ \A x \in DOMAIN streams' : streams'[x] = streams[x]
      /\ \A c \in Generators : id \notin DOMAIN streams \/ c # streams[id] => box'[c] = box[c]
      /\ Closes(id, last) =>
           \E e \in Terminal : box'[streams[id]] \in {<<e>>, Append(box[streams[id]], e)}
      /\ id \in DOMAIN streams /\ ~Closes(id, last) =>
           box'[streams[id]] = Append(box[streams[id]], "token")
  BY DEF Published
<1>2. /\ \A c \in Generators : c \in Readers <=> \E x \in DOMAIN streams : streams[x] = c
      /\ \A c \in Generators : c \in Readers' <=> \E x \in DOMAIN streams' : streams'[x] = c
      /\ \A x \in DOMAIN streams : streams[x] \in Generators /\ box[streams[x]] \in Seq(Items)
  BY DEF Readers, Shape
<1>3. \A x, y \in DOMAIN streams : streams[x] = streams[y] => x = y
  BY DEF StreamsOfReaders
<1>4. /\ \A c \in Generators : c \in Readers' => c \in Readers
      /\ \A c \in Generators : c \in Readers \ Readers' => Closes(id, last) /\ c = streams[id]
      /\ Closes(id, last) => id \in DOMAIN streams /\ streams[id] \notin Readers'
  BY <1>1, <1>2, <1>3 DEF Closes
<1>5. \A c \in Generators : c \notin Readers => box'[c] = box[c]
  BY <1>1, <1>2
<1>6. ASSUME Closes(id, last), NEW e \in Terminal, NEW c \in Generators, c = streams[id],
             box'[c] \in {<<e>>, Append(box[c], e)}
      PROVE  Ended(c)' /\ \A i \in 1 .. Len(box'[c]) : box'[c][i] \in Terminal => i = Len(box'[c])
  <2>1. \A i \in 1 .. Len(box[c]) : box[c][i] \notin Terminal
    BY <1>2, <1>4, <1>6 DEF LastIsTerminal, Ended
  <2>2. box[c] \in Seq(Items) /\ Len(box[c]) \in Nat
    BY <1>2, <1>4, <1>6
  <2>3. CASE box'[c] = <<e>>
    BY <2>3 DEF Ended
  <2>4. CASE box'[c] = Append(box[c], e)
    <3>1. /\ Len(box'[c]) = Len(box[c]) + 1 /\ box'[c][Len(box[c]) + 1] = e
          /\ \A i \in 1 .. Len(box[c]) : box'[c][i] = box[c][i]
          /\ DOMAIN box'[c] = 1 .. Len(box[c]) + 1
      BY <2>2, <2>4
    <3> QED BY <2>1, <2>2, <3>1 DEF Ended
  <2> QED BY <1>6, <2>3, <2>4
<1>7. ASSUME NEW c \in Generators, c \in Readers \ Readers' PROVE Ended(c)'
  BY <1>1, <1>4, <1>6, <1>7
<1>8. ASSUME NEW c \in Generators
      PROVE  /\ \A i \in 1 .. Len(box'[c]) : box'[c][i] \in Terminal => i = Len(box'[c])
             /\ c \in Readers' => ~Ended(c)'
  <2>1. CASE box'[c] = box[c]
    <3>1. Ended(c)' => Ended(c)
      BY <2>1 DEF Ended
    <3> QED BY <1>4, <2>1, <3>1 DEF LastIsTerminal
  <2>2. CASE Closes(id, last) /\ c = streams[id]
    BY <1>1, <1>4, <1>6, <2>2
  <2>3. CASE id \in DOMAIN streams /\ ~Closes(id, last) /\ c = streams[id]
    <3>1. box'[c] = Append(box[c], "token") /\ box[c] \in Seq(Items) /\ "token" \notin Terminal
      BY <1>1, <1>2, <2>3 DEF Terminal
    <3>2. ~Ended(c)
      BY <1>2, <2>3 DEF LastIsTerminal
    <3>3. \A i \in 1 .. Len(box'[c]) : box'[c][i] \notin Terminal
      <4>1. \A i \in 1 .. Len(box[c]) : box[c][i] \notin Terminal
        BY <3>1, <3>2 DEF Ended
      <4> QED BY <3>1, <4>1
    <3>4. box'[c] \in Seq(Items)
      BY <3>1 DEF Items
    <3> QED BY <3>3, <3>4 DEF Ended
  <2> QED BY <1>1, <2>1, <2>2, <2>3
<1> QED BY <1>1, <1>4, <1>5, <1>7, <1>8 DEF LastIsTerminal

\* The queue after its first command is taken.
LEMMA CommandTaken ==
  ASSUME Shape, SubmitsOnce, commands # <<>>, commands' = Tail(commands)
  PROVE  /\ \A c \in Generators : AddQueued(c)' => AddQueued(c)
         /\ \A c \in Generators : IsAdd(1, c) => AddQueued(c) /\ ~AddQueued(c)'
         /\ SubmitsOnce'
         /\ \A i \in 1 .. Len(commands') : i + 1 \in 1 .. Len(commands) /\ commands'[i] = commands[i + 1]
<1>1. /\ Len(commands) \in Nat \ {0} /\ Len(commands') = Len(commands) - 1
      /\ \A i \in 1 .. Len(commands') : commands'[i] = commands[i + 1]
  BY DEF Shape
<1>2. \A i \in 1 .. Len(commands') : i + 1 \in 1 .. Len(commands)
  BY <1>1
<1>3. \A i \in 1 .. Len(commands'), c \in Generators : IsAdd(i, c)' => IsAdd(i + 1, c)
  BY <1>1 DEF IsAdd
<1>4. \A c \in Generators : AddQueued(c)' => AddQueued(c)
  BY <1>2, <1>3 DEF AddQueued
<1>5. ASSUME NEW c \in Generators, IsAdd(1, c) PROVE AddQueued(c) /\ ~AddQueued(c)'
  <2>1. 1 \in 1 .. Len(commands)
    BY <1>1
  <2>2. ASSUME NEW i \in 1 .. Len(commands'), IsAdd(i, c)' PROVE FALSE
    <3>1. IsAdd(i + 1, c) /\ i + 1 \in 1 .. Len(commands) /\ i + 1 # 1
      BY <1>2, <1>3, <2>2
    <3> QED BY <1>5, <2>1, <3>1 DEF SubmitsOnce
  <2> QED BY <1>5, <2>1, <2>2 DEF AddQueued
<1>6. ASSUME NEW c \in Generators, NEW i \in 1 .. Len(commands'), NEW j \in 1 .. Len(commands'),
             IsAdd(i, c)', IsAdd(j, c)'
      PROVE  i = j
  <2>1. IsAdd(i + 1, c) /\ IsAdd(j + 1, c) /\ i + 1 \in 1 .. Len(commands) /\ j + 1 \in 1 .. Len(commands)
    BY <1>2, <1>3, <1>6
  <2> QED BY <2>1 DEF SubmitsOnce
<1> QED BY <1>1, <1>2, <1>4, <1>5, <1>6 DEF SubmitsOnce


LEMMA TaskOpening ==
  ASSUME Shape, Protocol, Opening, NEW t \in Tasks, TaskSteps(t)
  PROVE  Opening'
<1>1. TaskMoves(t) /\ StreamMoves(t)
  BY TaskStepsMove
<1>2. /\ pc'[t] \notin Unopened /\ (\A u \in Tasks \ {t} : pc'[u] = pc[u])
      /\ streams' = streams /\ \A c \in Clients : c # t \/ pc[c] # "idle" => rid'[c] = rid[c]
  BY <1>1 DEF TaskMoves
<1>3. /\ \A c \in Generators : \/ box'[c] = box[c]
                               \/ /\ c = t /\ pc[t] = "reading" /\ box[t] # <<>> /\ box'[t] = Tail(box[t])
                                  /\ pc'[t] \in {"added", "reading"} => Head(box[t]) \notin Terminal
      /\ pc'[t] \in {"added", "reading"} => pc[t] \in {"added", "reading"}
  BY <1>1 DEF StreamMoves
<1>4. \A c \in Generators : c \in Tasks /\ c \in Clients /\ box[c] \in Seq(Items)
  BY TasksAreDistinct DEF Shape
<1>5. Readers' = Readers /\ \A id \in DOMAIN streams : streams[id] \in Generators
  BY <1>2 DEF Readers, Shape
<1>6. StreamsOfReaders'
  BY <1>2, <1>4, <1>5 DEF Opening, StreamsOfReaders, Unopened
<1>7. /\ \A c \in Generators : AddQueued(c)' => AddQueued(c)
      /\ \A c \in Generators, i \in 1 .. Len(commands') : IsAdd(i, c)' => i \in 1 .. Len(commands) /\ IsAdd(i, c)
  <2>1. /\ Order(t).kind # "add"
        /\ \A i \in 1 .. Len(commands') : i \in 1 .. Len(commands) \/ commands'[i] = Order(t)
        /\ \A i \in 1 .. Len(commands) : commands'[i] = commands[i]
    BY <1>1, QueueGrows
  <2>2. \A c \in Generators, i \in 1 .. Len(commands') : IsAdd(i, c)' => i \in 1 .. Len(commands) /\ IsAdd(i, c)
    BY <2>1 DEF IsAdd
  <2> QED BY <2>2 DEF AddQueued
<1>8. NotYetOpen'
  <2>1. ASSUME NEW c \in Generators, pc'[c] \in Unopened \/ AddQueued(c)'
        PROVE  box'[c] = <<>> /\ c \notin Readers'
    <3>1. pc[c] \in Unopened \/ AddQueued(c)
      BY <1>2, <1>4, <1>7, <2>1
    <3>2. box[c] = <<>> /\ c \notin Readers
      BY <3>1 DEF Opening, NotYetOpen
    <3> QED BY <1>3, <1>5, <3>2
  <2>2. ASSUME NEW c \in Generators, AddQueued(c)'
        PROVE  pc'[c] \notin {"idle", "added", "reading", "refused"}
    <3>1. pc[c] \notin {"idle", "added", "reading", "refused"}
      BY <1>7, <2>2 DEF Opening, NotYetOpen
    <3> QED BY <1>2, <1>3, <1>4, <3>1 DEF Unopened
  <2> QED BY <2>1, <2>2 DEF NotYetOpen
<1>9. SubmitsOnce'
  BY <1>7 DEF Opening, SubmitsOnce
<1>10. LastIsTerminal'
  <2>1. ASSUME NEW c \in Generators
        PROVE  /\ \A i \in 1 .. Len(box'[c]) : box'[c][i] \in Terminal => i = Len(box'[c])
               /\ c \in Readers' => ~Ended(c)'
    <3>1. /\ \A i \in 1 .. Len(box[c]) : box[c][i] \in Terminal => i = Len(box[c])
          /\ c \in Readers => ~Ended(c)
      BY DEF Opening, LastIsTerminal
    <3>2. CASE box'[c] = box[c]
      BY <1>5, <3>1, <3>2 DEF Ended
    <3>3. CASE box[c] # <<>> /\ box'[c] = Tail(box[c])
      <4>1. /\ Len(box[c]) \in Nat \ {0} /\ Len(box'[c]) = Len(box[c]) - 1
            /\ DOMAIN box'[c] = 1 .. Len(box'[c]) /\ DOMAIN box[c] = 1 .. Len(box[c])
            /\ \A i \in 1 .. Len(box'[c]) : box'[c][i] = box[c][i + 1] /\ i + 1 \in 1 .. Len(box[c])
        BY <1>4, <3>3
      <4>2. \A i \in 1 .. Len(box'[c]) : box'[c][i] \in Terminal => i = Len(box'[c])
        BY <3>1, <4>1
      <4>3. Ended(c)' => Ended(c)
        BY <4>1 DEF Ended
      <4> QED BY <1>5, <3>1, <4>2, <4>3
    <3> QED BY <1>3, <3>2, <3>3
  <2> QED BY <2>1 DEF LastIsTerminal
<1>11. EndedWhenClosed'
  <2>1. ASSUME NEW c \in Generators, pc'[c] \in {"added", "reading"}, c \notin Readers' PROVE Ended(c)'
    <3>1. Ended(c)
      BY <1>2, <1>3, <1>4, <1>5, <2>1 DEF Opening, EndedWhenClosed
    <3>2. CASE box'[c] = box[c]
      BY <3>1, <3>2 DEF Ended
    <3>3. CASE c = t /\ pc[c] = "reading" /\ box[c] # <<>> /\ box'[c] = Tail(box[c])
               /\ (pc'[c] \in {"added", "reading"} => Head(box[c]) \notin Terminal)
      <4>2. PICK i \in 1 .. Len(box[c]) : box[c][i] \in Terminal
        BY <1>4, <3>1 DEF Ended
      <4>3. i # 1
        BY <1>4, <2>1, <3>3, <4>2
      <4>4. i - 1 \in DOMAIN box'[c] /\ box'[c][i - 1] = box[c][i]
        BY <1>4, <3>3, <4>2, <4>3
      <4> QED BY <4>2, <4>4 DEF Ended
    <3> QED BY <1>3, <3>2, <3>3
  <2> QED BY <2>1 DEF EndedWhenClosed
<1> QED BY <1>6, <1>8, <1>9, <1>10, <1>11 DEF Opening


LEMMA CommandOpening ==
  ASSUME Shape, Protocol, OutputsOfEngine, StreamsMatchEngine, Opening, HandleCommand
  PROVE  Opening'
<1> DEFINE cmd == Head(commands)
<1>1. /\ commands # <<>> /\ cmd = commands[1] /\ commands' = Tail(commands)
      /\ \A t \in Tasks : \/ Awaits(t, cmd) /\ pc'[t] = Answer(cmd)
                          \/ ~Awaits(t, cmd) /\ pc'[t] = "woken" /\ pc[t] # "idle"
                          \/ ~Awaits(t, cmd) /\ pc'[t] = pc[t]
  BY CommandEffect
<1>2. /\ UNCHANGED rid /\ outputs = {} /\ ~failure
      /\ Opens(cmd) \/ Turned(cmd) \/ Ends(cmd) \/ Passes(cmd)
  BY CommandCases DEF OutputsOfEngine, Stopped
<1>3. /\ \A c \in Generators : AddQueued(c)' => AddQueued(c)
      /\ \A c \in Generators : IsAdd(1, c) => AddQueued(c) /\ ~AddQueued(c)'
      /\ SubmitsOnce'
  BY <1>1, CommandTaken DEF Opening
<1> HIDE DEF cmd
<1>4. \A c \in Generators : c \in Tasks
  BY TasksAreDistinct
<1>5. \A c \in Generators : cmd.kind = "add" /\ cmd.by = c <=> IsAdd(1, c)
  BY <1>1 DEF IsAdd
<1>6. \A c \in Generators : pc'[c] \in Unopened => pc[c] \in Unopened
  BY <1>1, <1>4 DEF Awaits, Answer, Unopened
<1>7. ASSUME NEW c \in Generators, AddQueued(c)'
      PROVE  pc'[c] \notin {"idle", "added", "reading", "refused"}
  <2>1. /\ AddQueued(c) /\ ~IsAdd(1, c)
        /\ pc[c] \notin {"idle", "added", "reading", "refused"}
    BY <1>3, <1>7 DEF Opening, NotYetOpen
  <2>2. Awaits(c, cmd) => Answer(cmd) = "done"
    BY <1>5, <2>1 DEF Awaits, Answer
  <2> QED BY <1>1, <1>4, <2>1, <2>2
<1>8. \A c \in Generators : pc'[c] \in {"added", "reading"} =>
        pc'[c] = pc[c] \/ (IsAdd(1, c) /\ ~Rejected(cmd))
  BY <1>1, <1>4, <1>5 DEF Awaits, Answer
<1>9. \A id \in DOMAIN streams : streams[id] \in Generators
  BY DEF Shape, Readers
<1>10. CASE Opens(cmd)
  <2>1. /\ cmd.kind = "add" /\ ~Rejected(cmd) /\ cmd.id \in Ids /\ cmd.by \in Generators /\ rid[cmd.by] = cmd.id
        /\ DOMAIN streams' = DOMAIN streams \cup {cmd.id} /\ box' = box
        /\ \A id \in DOMAIN streams' : streams'[id] = IF id = cmd.id THEN cmd.by ELSE streams[id]
    BY <1>10 DEF Opens
  <2>2. IsAdd(1, cmd.by) /\ AddQueued(cmd.by)
    BY <1>3, <1>5, <2>1
  <2>3. box[cmd.by] = <<>> /\ cmd.by \notin Readers /\ pc[cmd.by] \notin {"idle", "added", "reading", "refused"}
    BY <2>1, <2>2 DEF Opening, NotYetOpen
  <2>4. pc'[cmd.by] \notin Unopened
    <3>1. CASE Awaits(cmd.by, cmd)
      BY <1>1, <1>4, <2>1, <3>1 DEF Answer, Unopened
    <3>2. CASE ~Awaits(cmd.by, cmd)
      <4>1. pc[cmd.by] # "adding"
        BY <2>1, <3>2 DEF Awaits
      <4> QED BY <1>1, <1>4, <2>1, <2>3, <3>2, <4>1 DEF Unopened
    <3> QED BY <3>1, <3>2
  <2>5. cmd.id \notin DOMAIN streams
    <3>1. DOMAIN streams = Active \cup pending
      BY <1>2 DEF StreamsMatchEngine
    <3> QED BY <2>1, <3>1 DEF Rejected
  <2>6. \A c \in Generators : c \in Readers' <=> c \in Readers \/ c = cmd.by
    BY <2>1, <2>5 DEF Readers
  <2>7. StreamsOfReaders'
    <3>1. ASSUME NEW id \in DOMAIN streams' PROVE rid'[streams'[id]] = id /\ pc'[streams'[id]] \notin Unopened
      <4>1. CASE id = cmd.id
        BY <1>2, <2>1, <2>4, <4>1
      <4>2. CASE id # cmd.id
        <5>1. id \in DOMAIN streams /\ streams'[id] = streams[id]
          BY <2>1, <4>2
        <5> QED BY <1>2, <1>6, <1>9, <5>1 DEF Opening, StreamsOfReaders
      <4> QED BY <4>1, <4>2
    <3> QED BY <3>1 DEF StreamsOfReaders
  <2>8. NotYetOpen'
    <3>1. ASSUME NEW c \in Generators, pc'[c] \in Unopened \/ AddQueued(c)'
          PROVE  box'[c] = <<>> /\ c \notin Readers'
      <4>1. c # cmd.by /\ (pc[c] \in Unopened \/ AddQueued(c))
        BY <1>3, <1>6, <2>2, <2>4, <3>1
      <4> QED BY <2>1, <2>6, <4>1 DEF Opening, NotYetOpen
    <3> QED BY <1>7, <3>1 DEF NotYetOpen
  <2>9. LastIsTerminal'
    <3>1. ~Ended(cmd.by)
      BY <2>3 DEF Ended
    <3>2. \A c \in Generators : Ended(c)' <=> Ended(c)
      BY <2>1 DEF Ended
    <3> QED BY <2>1, <2>6, <3>1, <3>2 DEF Opening, LastIsTerminal
  <2>10. EndedWhenClosed'
    <3>1. ASSUME NEW c \in Generators, pc'[c] \in {"added", "reading"}, c \notin Readers' PROVE Ended(c)'
      <4>1. c \notin Readers /\ c # cmd.by
        BY <2>6, <3>1
      <4>2. pc'[c] = pc[c]
        BY <1>5, <1>8, <3>1, <4>1
      <4>3. Ended(c)
        BY <3>1, <4>1, <4>2 DEF Opening, EndedWhenClosed
      <4> QED BY <2>1, <4>3 DEF Ended
    <3> QED BY <3>1 DEF EndedWhenClosed
  <2> QED BY <1>3, <2>7, <2>8, <2>9, <2>10 DEF Opening
<1>11. CASE Turned(cmd) \/ Passes(cmd)
  <2>1. streams' = streams /\ box' = box /\ Readers' = Readers
    BY <1>11 DEF Turned, Passes, Readers
  <2>2. \A c \in Generators : pc'[c] \in {"added", "reading"} => pc'[c] = pc[c]
    BY <1>5, <1>8, <1>11 DEF Turned, Passes
  <2>3. \A c \in Generators : Ended(c)' <=> Ended(c)
    BY <2>1 DEF Ended
  <2>4. StreamsOfReaders'
    BY <1>2, <1>6, <1>9, <2>1 DEF Opening, StreamsOfReaders
  <2>5. NotYetOpen'
    BY <1>3, <1>6, <1>7, <2>1 DEF Opening, NotYetOpen
  <2>6. LastIsTerminal' /\ EndedWhenClosed'
    BY <2>1, <2>2, <2>3 DEF Opening, LastIsTerminal, EndedWhenClosed
  <2> QED BY <1>3, <2>4, <2>5, <2>6 DEF Opening
<1>12. CASE Ends(cmd)
  <2>1. /\ cmd.id \in Ids /\ TRUE \in BOOLEAN /\ [work EXCEPT ![cmd.id] = 0] \in [Ids -> Nat]
        /\ Publish(cmd.id, TRUE, [work EXCEPT ![cmd.id] = 0]) /\ cmd.kind = "cancel"
    BY <1>12 DEF Ends, Active, Shape
  <2>2. Published(cmd.id, TRUE, [work EXCEPT ![cmd.id] = 0])
    BY <2>1, PublishEffect
  <2>3. /\ \A c \in Generators : c \notin Readers => c \notin Readers' /\ box'[c] = box[c]
        /\ \A c \in Generators : c \in Readers \ Readers' => Ended(c)'
        /\ LastIsTerminal'
        /\ DOMAIN streams' \subseteq DOMAIN streams /\ \A x \in DOMAIN streams' : streams'[x] = streams[x]
    BY <2>1, <2>2, PublishOpening DEF Opening
  <2>4. StreamsOfReaders'
    BY <1>2, <1>6, <1>9, <2>3 DEF Opening, StreamsOfReaders
  <2>5. NotYetOpen'
    BY <1>3, <1>6, <1>7, <2>3 DEF Opening, NotYetOpen
  <2>6. EndedWhenClosed'
    <3>1. ASSUME NEW c \in Generators, pc'[c] \in {"added", "reading"}, c \notin Readers', c \notin Readers
          PROVE  Ended(c)'
      <4>1. pc'[c] = pc[c]
        BY <1>5, <1>8, <2>1, <3>1
      <4>2. Ended(c)
        BY <3>1, <4>1 DEF Opening, EndedWhenClosed
      <4> QED BY <2>3, <3>1, <4>2 DEF Ended
    <3> QED BY <2>3, <3>1 DEF EndedWhenClosed
  <2> QED BY <1>3, <2>3, <2>4, <2>5, <2>6 DEF Opening
<1> QED BY <1>2, <1>10, <1>11, <1>12

LEMMA OpeningKept ==
  ASSUME Shape, Protocol, OutputsOfEngine, StreamsMatchEngine, Opening, Next
  PROVE  Opening'
<1>t. \A c \in Generators : c \in Tasks /\ c \in Clients
  BY TasksAreDistinct
<1>r. \A id \in DOMAIN streams : streams[id] \in Generators /\ streams[id] \in Tasks
  BY <1>t DEF Shape, Readers
<1>q. ASSUME UNCHANGED <<commands, pc, rid, streams, box>> PROVE Opening'
  BY <1>q DEF Opening, StreamsOfReaders, NotYetOpen, SubmitsOnce, LastIsTerminal, EndedWhenClosed,
              AddQueued, IsAdd, Readers, Ended
<1>1. ASSUME NEW t \in Tasks, TaskSteps(t) PROVE Opening'
  BY <1>1, TaskOpening
<1>2. ASSUME NEW c \in Generators, NEW id \in Ids, NEW prompt \in Prompts, Submit(c, id, prompt)
      PROVE  Opening'
  <2> DEFINE m == [kind |-> "add", id |-> id, prompt |-> prompt, by |-> c]
  <2>1. /\ commands' = Append(commands, m) /\ pc' = [pc EXCEPT ![c] = "adding"]
        /\ rid' = [rid EXCEPT ![c] = id] /\ pc[c] = "idle" /\ UNCHANGED <<streams, box>>
    BY <1>2 DEF Submit
  <2>2. commands \in Seq(Command) /\ m \in Command /\ m.by = c
    BY <1>t DEF Shape, Command
  <2> HIDE DEF m
  <2>3. /\ Len(commands') = Len(commands) + 1 /\ Len(commands) \in Nat
        /\ commands'[Len(commands) + 1] = m
        /\ \A i \in 1 .. Len(commands) : commands'[i] = commands[i]
    BY <2>1, <2>2
  <2>4. pc'[c] = "adding" /\ \A t \in Tasks \ {c} : pc'[t] = pc[t]
    BY <1>t, <2>1 DEF Shape
  <2>5. \A d \in Clients \ {c} : rid'[d] = rid[d]
    BY <2>1 DEF Shape
  <2>6. box[c] = <<>> /\ c \notin Readers /\ ~AddQueued(c) /\ Readers' = Readers
    BY <2>1 DEF Opening, NotYetOpen, Unopened, Readers
  <2>7. \A d \in Generators, i \in 1 .. Len(commands') : IsAdd(i, d)' =>
          (i \in 1 .. Len(commands) /\ IsAdd(i, d)) \/ (d = c /\ i = Len(commands) + 1)
    BY <2>2, <2>3 DEF IsAdd
  <2>8. \A d \in Generators \ {c} : AddQueued(d)' => AddQueued(d)
    BY <2>7 DEF AddQueued
  <2>9. StreamsOfReaders'
    <3>1. \A x \in DOMAIN streams : streams[x] # c
      BY <2>6 DEF Readers
    <3> QED BY <1>r, <1>t, <2>1, <2>4, <2>5, <3>1 DEF Opening, StreamsOfReaders
  <2>10. NotYetOpen'
    BY <1>t, <2>1, <2>4, <2>6, <2>8 DEF Opening, NotYetOpen
  <2>11. SubmitsOnce'
    BY <2>6, <2>7 DEF Opening, SubmitsOnce, AddQueued
  <2>12. \A d \in Generators : Ended(d)' <=> Ended(d)
    BY <2>1 DEF Ended
  <2>13. LastIsTerminal' /\ EndedWhenClosed'
    BY <1>t, <2>1, <2>4, <2>6, <2>12 DEF Opening, LastIsTerminal, EndedWhenClosed
  <2> QED BY <2>9, <2>10, <2>11, <2>13 DEF Opening
<1>3. CASE Turns
  BY <1>3, <1>q, TurnEffect
<1>4. CASE HandleCommand
  BY <1>4, CommandOpening
<1>5. CASE StepReturns \/ StepReturnsErrors \/ CloseEngine
  BY <1>5, <1>q DEF StepReturns, StepReturnsErrors, CloseEngine, taskVars, queueVars
<1>6. CASE StepFails
  <2>1. /\ streams' = <<>> /\ UNCHANGED <<pc, rid, commands>>
        /\ box' = [c \in Generators |-> IF c \in Readers THEN <<"failed">> ELSE box[c]]
    BY <1>6 DEF StepFails, taskVars, queueVars, Range, Readers
  <2>2. DOMAIN streams' = {} /\ Readers' = {}
    BY <2>1 DEF Readers
  <2>3. ASSUME NEW c \in Generators
        PROVE  /\ c \in Readers => Ended(c)'
               /\ c \notin Readers => (Ended(c)' <=> Ended(c))
               /\ \A i \in 1 .. Len(box'[c]) : box'[c][i] \in Terminal => i = Len(box'[c])
    BY <2>1 DEF Ended, Terminal, Opening, LastIsTerminal
  <2>4. \A c \in Generators : AddQueued(c)' <=> AddQueued(c)
    BY <2>1 DEF AddQueued, IsAdd
  <2>5. StreamsOfReaders' /\ LastIsTerminal' /\ EndedWhenClosed'
    BY <2>1, <2>2, <2>3 DEF Opening, StreamsOfReaders, LastIsTerminal, EndedWhenClosed
  <2>6. NotYetOpen'
    BY <2>1, <2>2, <2>4 DEF Opening, NotYetOpen
  <2>7. SubmitsOnce'
    BY <2>1 DEF Opening, SubmitsOnce, IsAdd
  <2> QED BY <2>5, <2>6, <2>7 DEF Opening
<1>7. CASE PublishOne
  <2>1. PICK o \in outputs : PublishesOf(o)
    BY <1>7, PublishOneEffect
  <2>2. /\ o.id \in Ids /\ o.last \in BOOLEAN /\ Publish(o.id, o.last, work) /\ work \in [Ids -> Nat]
        /\ UNCHANGED <<pc, rid, commands>>
    BY <2>1 DEF PublishesOf, Shape, OutputItem
  <2>3. Published(o.id, o.last, work)
    BY <2>2, PublishEffect
  <2>4. /\ \A c \in Generators : c \notin Readers => c \notin Readers' /\ box'[c] = box[c]
        /\ \A c \in Generators : c \in Readers \ Readers' => Ended(c)'
        /\ LastIsTerminal'
        /\ DOMAIN streams' \subseteq DOMAIN streams /\ \A x \in DOMAIN streams' : streams'[x] = streams[x]
    BY <2>2, <2>3, PublishOpening DEF Opening
  <2>5. \A c \in Generators : AddQueued(c)' <=> AddQueued(c)
    BY <2>2 DEF AddQueued, IsAdd
  <2>6. StreamsOfReaders'
    BY <2>2, <2>4 DEF Opening, StreamsOfReaders
  <2>7. NotYetOpen'
    BY <2>2, <2>4, <2>5 DEF Opening, NotYetOpen
  <2>8. SubmitsOnce'
    BY <2>2 DEF Opening, SubmitsOnce, IsAdd
  <2>9. EndedWhenClosed'
    <3>1. \A c \in Generators : box'[c] = box[c] => (Ended(c)' <=> Ended(c))
      BY DEF Ended
    <3> QED BY <2>2, <2>4, <3>1 DEF Opening, EndedWhenClosed
  <2> QED BY <2>4, <2>6, <2>7, <2>8, <2>9 DEF Opening
<1>8. CASE StopCommands
  <2>1. /\ commands' = <<>> /\ UNCHANGED <<rid, streams, box>>
        /\ \A t \in Tasks : \/ pc[t] = "adding" /\ pc'[t] = "refused"
                            \/ pc[t] = "answering" /\ pc'[t] = "done"
                            \/ pc[t] # "idle" /\ pc'[t] = "woken"
                            \/ pc'[t] = pc[t]
    BY <1>8, StopEffect
  <2>2. Readers' = Readers /\ \A c \in Generators : ~AddQueued(c)' /\ (Ended(c)' <=> Ended(c))
    BY <2>1 DEF Readers, AddQueued, Ended
  <2>3. \A t \in Tasks : /\ pc'[t] \in Unopened => pc[t] \in Unopened
                         /\ pc'[t] \in {"added", "reading"} => pc[t] = pc'[t]
    BY <2>1 DEF Unopened
  <2>4. StreamsOfReaders'
    BY <1>r, <2>1, <2>3 DEF Opening, StreamsOfReaders
  <2>5. NotYetOpen'
    BY <1>t, <2>1, <2>2, <2>3 DEF Opening, NotYetOpen
  <2>6. SubmitsOnce'
    BY <2>1 DEF SubmitsOnce
  <2>7. LastIsTerminal' /\ EndedWhenClosed'
    BY <1>t, <2>1, <2>2, <2>3 DEF Opening, LastIsTerminal, EndedWhenClosed
  <2> QED BY <2>4, <2>5, <2>6, <2>7 DEF Opening
<1> QED BY <1>1, <1>2, <1>3, <1>4, <1>5, <1>6, <1>7, <1>8, NextCases


-----------------------------------------------------------------------------
(* The invariant, and what it says of streams and readers.                  *)

LEMMA BaseInit == Init => Base
<1> SUFFICES ASSUME Init PROVE Base
  OBVIOUS
<1>1. Shape
  <2>1. DOMAIN streams = {} /\ Readers = {} /\ streams = [id \in DOMAIN streams |-> streams[id]]
    BY DEF Init, Readers
  <2>2. commands \in Seq(Command) /\ putters \in Seq(Tasks) /\ box \in [Generators -> Seq(Items)]
    BY DEF Init
  <2>3. "idle" \in Places /\ "top" \in Phases
    BY DEF Places, Phases
  <2> QED BY <2>1, <2>2, <2>3 DEF Init, Shape
<1>2. Protocol
  BY TasksAreDistinct DEF Init, Protocol
<1>3. OutputsOfEngine /\ StreamsMatchEngine
  BY DEF Init, OutputsOfEngine, StreamsMatchEngine, Active
<1>4. Opening
  <2>1. Readers = {} /\ \A c \in Generators : ~AddQueued(c) /\ ~Ended(c)
    BY DEF Init, Readers, AddQueued, Ended
  <2> QED BY <2>1, TasksAreDistinct
          DEF Init, Opening, StreamsOfReaders, NotYetOpen, SubmitsOnce, LastIsTerminal, EndedWhenClosed
<1> QED BY <1>1, <1>2, <1>3, <1>4 DEF Base

LEMMA BaseStutters == ASSUME Base, UNCHANGED vars PROVE Base'
<1>1. UNCHANGED <<commands, putters, reserved, streams, box, pc, rid, closing, failure, phase,
                  outputs, work, pending>>
  BY DEF vars
<1>2. Shape' /\ Protocol'
  BY <1>1 DEF Base, Shape, Protocol, Sent, Readers
<1>3. OutputsOfEngine' /\ StreamsMatchEngine'
  BY <1>1 DEF Base, OutputsOfEngine, StreamsMatchEngine, Active, Stopped
<1>4. Opening'
  BY <1>1 DEF Base, Opening, StreamsOfReaders, NotYetOpen, SubmitsOnce, LastIsTerminal, EndedWhenClosed,
              AddQueued, IsAdd, Readers, Ended
<1> QED BY <1>2, <1>3, <1>4 DEF Base

\* Commands belong to tasks that have begun, the loop's outputs to requests the
\* engine has or has just ended, and streams to readers that await their end
\* (_command, _publish, _run).
THEOREM BaseHolds == Spec => []Base
<1>1. Init => Base
  BY BaseInit
<1>2. Base /\ [Next]_vars => Base'
  <2>1. ASSUME Base, Next PROVE Base'
    BY <2>1, ShapeKept, OutputsKept, OpeningKept DEF Base
  <2> QED BY <2>1, BaseStutters
<1> QED BY <1>1, <1>2, PTL DEF Spec

\* The engine works for a request exactly when a stream is open for it
\* (_command, _publish).
THEOREM StreamsAgree == Spec => []StreamsMatchEngine
<1>1. Base => StreamsMatchEngine
  BY DEF Base
<1> QED BY <1>1, BaseHolds, PTL

\* A reader's stream is registered until its one terminal item is queued
\* (_publish, _run).
THEOREM ReadersEnd == Spec => []OpenUntilTerminal
<1>1. Base => OpenUntilTerminal
  <2> SUFFICES ASSUME Base, NEW c \in Generators, pc[c] \in {"added", "reading"}
               PROVE  /\ IsOpen(c) <=> ~Ended(c)
                      /\ \A i \in DOMAIN box[c] : box[c][i] \in Terminal => i = Len(box[c])
    BY DEF OpenUntilTerminal
  <2>1. c \in Readers <=> IsOpen(c)
    BY DEF Base, Opening, StreamsOfReaders, Readers, IsOpen
  <2>2. c \in Readers <=> ~Ended(c)
    BY DEF Base, Opening, LastIsTerminal, EndedWhenClosed
  <2>3. DOMAIN box[c] = 1 .. Len(box[c])
    BY DEF Base, Shape
  <2> QED BY <2>1, <2>2, <2>3 DEF Base, Opening, LastIsTerminal
<1> QED BY <1>1, BaseHolds, PTL


-----------------------------------------------------------------------------
(* Reservations.                                                            *)

\* An accepted prompt is never turned down: its id is not the engine's.
LEMMA NoneTurned ==
  ASSUME AllValid, Base, ReservedForWork, HandleCommand
  PROVE  ~Turned(Head(commands))
<1> DEFINE cmd == Head(commands)
<1>1. cmd = commands[1] /\ cmd \in Command /\ Sent(cmd) /\ phase = "draining" /\ commands # <<>>
  BY CommandEffect DEF Base, HandleCommand
<1>2. 1 \in 1 .. Len(commands)
  BY <1>1 DEF Base, Shape
<1> SUFFICES ASSUME Turned(cmd) PROVE FALSE
  OBVIOUS
<1> HIDE DEF cmd
<1>3. cmd.kind = "add" /\ cmd.prompt # "invalid"
  BY <1>1 DEF Turned, Sent, AllValid
<1>4. cmd.id \notin DOMAIN streams
  BY <1>1, <1>2, <1>3 DEF ReservedForWork
<1>5. Active \cup pending \subseteq DOMAIN streams
  BY <1>1 DEF Base, OutputsOfEngine, Stopped, StreamsMatchEngine
<1> QED BY <1>3, <1>4, <1>5 DEF Turned, Rejected

\* The stream of a closed request takes its reservation along, and nothing else.
LEMMA PublishReserved ==
  ASSUME Shape, ReservedForWork, phase # "ended", NEW id \in Ids, NEW last \in BOOLEAN, NEW left,
         Published(id, last, left), Active' \subseteq Active, pending' = pending,
         Closes(id, last) => id \notin Active' \cup pending
  PROVE  /\ IsFiniteSet(reserved') /\ Cardinality(reserved') <= MaxPending
         /\ DOMAIN streams' \subseteq reserved' /\ Active' \cup pending' \subseteq reserved'
         /\ \A i \in 1 .. Len(commands) : commands[i].kind = "add" =>
              commands[i].id \in reserved' /\ commands[i].id \notin DOMAIN streams'
<1>1. /\ DOMAIN streams' = IF Closes(id, last) THEN DOMAIN streams \ {id} ELSE DOMAIN streams
      /\ reserved' = IF Closes(id, last) THEN reserved \ {id} ELSE reserved
  BY DEF Published
<1>2. IsFiniteSet(reserved') /\ Cardinality(reserved') <= MaxPending
  <2>1. IsFiniteSet(reserved) /\ Cardinality(reserved) <= MaxPending /\ reserved' \subseteq reserved
    BY <1>1 DEF ReservedForWork
  <2>2. /\ IsFiniteSet(reserved') /\ Cardinality(reserved') <= Cardinality(reserved)
        /\ Cardinality(reserved) \in Nat /\ Cardinality(reserved') \in Nat
    BY <2>1, FS_Subset, FS_CardinalityType
  <2> QED BY <2>1, <2>2, ServiceLimits
<1>3. DOMAIN streams' \subseteq reserved' /\ Active' \cup pending' \subseteq reserved'
  BY <1>1 DEF ReservedForWork
<1>4. \A i \in 1 .. Len(commands) : commands[i].kind = "add" =>
        commands[i].id \in reserved' /\ commands[i].id \notin DOMAIN streams'
  <2>1. Closes(id, last) => id \in DOMAIN streams
    BY DEF Closes
  <2> QED BY <1>1, <2>1 DEF ReservedForWork
<1> QED BY <1>2, <1>3, <1>4

\* When the loop or a task leaves the queue, the streams and the work alone.
LEMMA ReservedUnchanged ==
  ASSUME ReservedForWork, phase # "ended",
         UNCHANGED <<reserved, commands, pc, pending>>,
         DOMAIN streams' \subseteq DOMAIN streams, Active' \subseteq Active
  PROVE  ReservedForWork'
  BY DEF ReservedForWork

LEMMA ReservedKept ==
  ASSUME AllValid, Base, ReservedForWork, Next
  PROVE  ReservedForWork'
<1> SUFFICES ASSUME phase' # "ended" PROVE ReservedForWork'
  BY DEF ReservedForWork
<1>b. Shape /\ Protocol /\ OutputsOfEngine /\ StreamsMatchEngine /\ Opening
  BY DEF Base
<1>n. Len(commands) \in Nat /\ commands \in Seq(Command)
  BY <1>b DEF Shape
<1>1. ASSUME NEW t \in Tasks, TaskSteps(t) PROVE ReservedForWork'
  <2>1. TaskMoves(t) /\ StreamMoves(t)
    BY <1>1, <1>b, TaskStepsMove
  <2>2. UNCHANGED <<streams, work, pending, phase>> /\ pc'[t] # "refused" /\ \A u \in Tasks \ {t} : pc'[u] = pc[u]
    BY <2>1 DEF TaskMoves, Unopened
  <2>3. reserved' = reserved
    BY <2>1, <2>2 DEF StreamMoves, ReservedForWork
  <2>4. \A i \in 1 .. Len(commands') : commands'[i].kind = "add" =>
          i \in 1 .. Len(commands) /\ commands'[i] = commands[i]
    BY <1>b, <2>1, QueueGrows
  <2>5. \A c \in Generators : pc'[c] # "refused"
    BY <2>2, TasksAreDistinct DEF ReservedForWork
  <2>6. Active' = Active
    BY <2>2 DEF Active
  <2> QED BY <2>2, <2>3, <2>4, <2>5, <2>6 DEF ReservedForWork
<1>2. ASSUME NEW c \in Generators, NEW id \in Ids, NEW prompt \in Prompts, Submit(c, id, prompt)
      PROVE  ReservedForWork'
  <2> DEFINE m == [kind |-> "add", id |-> id, prompt |-> prompt, by |-> c]
  <2>1. /\ commands' = Append(commands, m) /\ pc' = [pc EXCEPT ![c] = "adding"]
        /\ reserved' = reserved \cup {id} /\ id \notin reserved /\ Cardinality(reserved) < MaxPending
        /\ UNCHANGED <<streams, work, pending, phase>>
    BY <1>2 DEF Submit, loopVars, engineVars
  <2>2. m \in Command /\ m.kind = "add" /\ m.id = id
    BY TasksAreDistinct DEF Command
  <2> HIDE DEF m
  <2>3. /\ Len(commands') = Len(commands) + 1 /\ commands'[Len(commands) + 1] = m
        /\ \A i \in 1 .. Len(commands) : commands'[i] = commands[i]
    BY <1>n, <2>1, <2>2
  <2>4. IsFiniteSet(reserved') /\ Cardinality(reserved') <= MaxPending
    <3>1. IsFiniteSet(reserved) /\ Cardinality(reserved) \in Nat
      BY <2>1, FS_CardinalityType DEF ReservedForWork
    <3>2. IsFiniteSet(reserved') /\ Cardinality(reserved') = Cardinality(reserved) + 1
      BY <2>1, <3>1, FS_AddElement
    <3> QED BY <2>1, <3>1, <3>2, ServiceLimits
  <2>5. \A i \in 1 .. Len(commands') :
          (i \in 1 .. Len(commands) /\ commands'[i] = commands[i]) \/ (i = Len(commands) + 1 /\ commands'[i] = m)
    BY <1>n, <2>3
  <2>6. /\ DOMAIN streams \subseteq reserved /\ Active \cup pending \subseteq reserved
        /\ \A i \in 1 .. Len(commands) : commands[i].kind = "add" =>
             commands[i].id \in reserved /\ commands[i].id \notin DOMAIN streams
    BY <2>1 DEF ReservedForWork
  <2>7. \A i \in 1 .. Len(commands') : commands'[i].kind = "add" =>
          commands'[i].id \in reserved' /\ commands'[i].id \notin DOMAIN streams'
    BY <2>1, <2>2, <2>5, <2>6
  <2>8. \A i, j \in 1 .. Len(commands') :
          commands'[i].kind = "add" /\ commands'[j].kind = "add" /\ commands'[i].id = commands'[j].id => i = j
    BY <2>1, <2>2, <2>5, <2>6 DEF ReservedForWork
  <2>9. \A d \in Generators : pc'[d] # "refused"
    BY <1>b, <2>1, TasksAreDistinct DEF ReservedForWork, Shape
  <2>10. Active' = Active
    BY <2>1 DEF Active
  <2> QED BY <2>1, <2>4, <2>6, <2>7, <2>8, <2>9, <2>10 DEF ReservedForWork
<1>3. CASE Turns
  <2>1. UNCHANGED <<reserved, commands, pc, pending, streams, work>> /\ phase # "ended"
    BY <1>3, <1>b, TurnEffect DEF Stopped
  <2> QED BY <2>1, ReservedUnchanged DEF Active
<1>4. CASE HandleCommand
  <2> DEFINE cmd == Head(commands)
  <2>1. /\ commands # <<>> /\ cmd = commands[1] /\ cmd \in Command /\ commands' = Tail(commands)
        /\ \A t \in Tasks : \/ Awaits(t, cmd) /\ pc'[t] = Answer(cmd)
                            \/ ~Awaits(t, cmd) /\ pc'[t] = "woken" /\ pc[t] # "idle"
                            \/ ~Awaits(t, cmd) /\ pc'[t] = pc[t]
    BY <1>4, <1>b, CommandEffect
  <2>2. phase = "draining" /\ (Opens(cmd) \/ Turned(cmd) \/ Ends(cmd) \/ Passes(cmd))
    BY <1>4, <1>b, CommandCases
  <2>3. ~Turned(cmd)
    BY <1>4, NoneTurned
  <2>4. /\ 1 \in 1 .. Len(commands)
        /\ \A i \in 1 .. Len(commands') : i + 1 \in 1 .. Len(commands) /\ i + 1 # 1 /\ commands'[i] = commands[i + 1]
    BY <1>n, <2>1
  <2> HIDE DEF cmd
  <2>5. /\ IsFiniteSet(reserved) /\ Cardinality(reserved) <= MaxPending
        /\ DOMAIN streams \subseteq reserved /\ Active \cup pending \subseteq reserved
        /\ \A i \in 1 .. Len(commands) : commands[i].kind = "add" =>
             commands[i].id \in reserved /\ commands[i].id \notin DOMAIN streams
        /\ \A i, j \in 1 .. Len(commands) :
             commands[i].kind = "add" /\ commands[j].kind = "add" /\ commands[i].id = commands[j].id => i = j
        /\ \A c \in Generators : pc[c] # "refused"
    BY <2>2 DEF ReservedForWork
  <2>6. /\ \A i, j \in 1 .. Len(commands') :
             commands'[i].kind = "add" /\ commands'[j].kind = "add" /\ commands'[i].id = commands'[j].id => i = j
    BY <2>4, <2>5
  <2>7. \A c \in Generators : pc'[c] # "refused"
    <3>1. cmd.kind = "add" => ~Rejected(cmd)
      BY <2>2, <2>3 DEF Opens, Ends, Passes
    <3>2. cmd.kind \in {"add", "cancel", "close"}
      BY <2>1 DEF Command
    <3>3. \A t \in Tasks : Awaits(t, cmd) => Answer(cmd) # "refused"
      BY <3>1 DEF Awaits, Answer
    <3> QED BY <2>1, <2>5, <3>3, TasksAreDistinct
  <2>8. CASE Opens(cmd)
    <3>1. /\ cmd.kind = "add" /\ reserved' = reserved /\ DOMAIN streams' = DOMAIN streams \cup {cmd.id}
          /\ Active' \cup pending' \subseteq Active \cup pending \cup {cmd.id}
      BY <1>b, <2>8 DEF Opens, Active, Shape
    <3>2. cmd.id \in reserved
      BY <2>1, <2>4, <2>5, <3>1
    <3>3. \A i \in 1 .. Len(commands') : commands'[i].kind = "add" =>
            commands'[i].id \in reserved' /\ commands'[i].id \notin DOMAIN streams'
      <4>1. \A i \in 1 .. Len(commands) : i # 1 /\ commands[i].kind = "add" => commands[i].id # cmd.id
        BY <2>1, <2>4, <2>5, <3>1
      <4> QED BY <2>4, <2>5, <3>1, <4>1
    <3> QED BY <2>5, <2>6, <2>7, <3>1, <3>2, <3>3 DEF ReservedForWork
  <2>9. CASE Ends(cmd)
    <3> DEFINE left == [work EXCEPT ![cmd.id] = 0]
    <3>1. /\ cmd.id \in Ids /\ left \in [Ids -> Nat] /\ Publish(cmd.id, TRUE, left) /\ pending' = pending
          /\ cmd.id \in Active /\ cmd.id \notin pending /\ TRUE \in BOOLEAN /\ left[cmd.id] = 0
          /\ {x \in Ids : left[x] > 0} \subseteq Active \ {cmd.id}
      <4>1. Publish(cmd.id, TRUE, left) /\ pending' = pending /\ cmd.id \in Active
        BY <2>9 DEF Ends
      <4>2. cmd.id \in Ids /\ cmd.id \notin pending /\ work \in [Ids -> Nat]
        BY <1>b, <4>1 DEF Active, OutputsOfEngine, Shape
      <4>3. left \in [Ids -> Nat] /\ left[cmd.id] = 0
        BY <4>2
      <4>4. {x \in Ids : left[x] > 0} \subseteq Active \ {cmd.id}
        BY <4>2 DEF Active
      <4> QED BY <4>1, <4>2, <4>3, <4>4
    <3> HIDE DEF left
    <3>2. Published(cmd.id, TRUE, left)
      BY <1>b, <3>1, PublishEffect
    <3>3. Active' \subseteq Active \ {cmd.id}
      <4>1. Active' = {x \in Ids : left[x] > 0} \ (IF Closes(cmd.id, TRUE) THEN {cmd.id} ELSE {})
        BY <1>b, <3>1, PublishActive
      <4> QED BY <3>1, <4>1
    <3>4. /\ IsFiniteSet(reserved') /\ Cardinality(reserved') <= MaxPending
          /\ DOMAIN streams' \subseteq reserved' /\ Active' \cup pending' \subseteq reserved'
          /\ \A i \in 1 .. Len(commands) : commands[i].kind = "add" =>
               commands[i].id \in reserved' /\ commands[i].id \notin DOMAIN streams'
      BY <1>b, <2>2, <3>1, <3>2, <3>3, PublishReserved
    <3> QED BY <2>4, <2>6, <2>7, <3>4 DEF ReservedForWork
  <2>10. CASE Passes(cmd)
    <3>1. UNCHANGED <<reserved, streams, pending>> /\ Active' = Active
      BY <2>10 DEF Passes, Active
    <3> QED BY <2>4, <2>5, <2>6, <2>7, <3>1 DEF ReservedForWork
  <2> QED BY <2>2, <2>3, <2>8, <2>9, <2>10
<1>5. CASE StepReturns \/ StepReturnsErrors \/ CloseEngine
  <2>1. /\ UNCHANGED <<reserved, commands, pc, streams>> /\ phase # "ended"
        /\ pending' = {} \/ pending' = pending
    BY <1>5 DEF StepReturns, StepReturnsErrors, CloseEngine, taskVars, queueVars
  <2>2. Active' \subseteq Active
    <3>1. CASE StepReturns
      <4>1. PICK batch \in SUBSET Active :
              work' = [id \in Ids |-> IF id \in batch THEN work[id] - 1 ELSE work[id]]
        BY <3>1 DEF StepReturns
      <4> QED BY <4>1 DEF Active
    <3>2. CASE StepReturnsErrors
      <4>1. PICK batch \in SUBSET Active :
              work' = [id \in Ids |-> IF id \in batch THEN 0 ELSE work[id]]
        BY <3>2 DEF StepReturnsErrors
      <4> QED BY <4>1 DEF Active
    <3>3. CASE CloseEngine
      BY <3>3 DEF CloseEngine, Active
    <3> QED BY <1>5, <3>1, <3>2, <3>3
  <2> QED BY <2>1, <2>2 DEF ReservedForWork
<1>6. CASE StepFails
  <2>1. UNCHANGED <<reserved, commands, pc, pending, work>> /\ phase # "ended" /\ streams' = <<>>
    BY <1>6 DEF StepFails, taskVars, queueVars, engineVars
  <2>2. DOMAIN streams' \subseteq DOMAIN streams
    BY <2>1
  <2> QED BY <2>1, <2>2, ReservedUnchanged DEF Active
<1>7. CASE PublishOne
  <2>1. PICK o \in outputs : PublishesOf(o)
    BY <1>7, PublishOneEffect
  <2>2. /\ o.id \in Ids /\ o.last \in BOOLEAN /\ Publish(o.id, o.last, work) /\ work \in [Ids -> Nat]
        /\ UNCHANGED <<pc, commands, pending>> /\ phase # "ended" /\ {x \in Ids : work[x] > 0} = Active
        /\ o.last => work[o.id] = 0
    BY <1>b, <2>1 DEF PublishesOf, Shape, OutputItem, OutputsOfEngine, Active
  <2>3. Published(o.id, o.last, work)
    BY <1>b, <2>2, PublishEffect
  <2>4. Active' = Active \ (IF Closes(o.id, o.last) THEN {o.id} ELSE {}) /\ o.id \notin pending
    BY <1>b, <2>2, PublishActive DEF OutputsOfEngine
  <2>5. /\ IsFiniteSet(reserved') /\ Cardinality(reserved') <= MaxPending
        /\ DOMAIN streams' \subseteq reserved' /\ Active' \cup pending' \subseteq reserved'
        /\ \A i \in 1 .. Len(commands) : commands[i].kind = "add" =>
             commands[i].id \in reserved' /\ commands[i].id \notin DOMAIN streams'
    BY <1>b, <2>2, <2>3, <2>4, PublishReserved
  <2> QED BY <2>2, <2>5 DEF ReservedForWork
<1>8. CASE StopCommands
  BY <1>8 DEF StopCommands
<1> QED BY <1>1, <1>2, <1>3, <1>4, <1>5, <1>6, <1>7, <1>8, NextCases


-----------------------------------------------------------------------------
(* Clients that leave.                                                      *)

\* A generator that stops without a command has nothing in the queue and no
\* stream.
LEMMA NothingLeftBehind ==
  ASSUME Base, ReservedForWork, GoneClients, Running, NEW c \in Generators, TaskSteps(c), pc'[c] = "done"
  PROVE  ~AddQueued(c) /\ c \notin Readers
<1>b. Shape /\ Protocol /\ Opening /\ c \in Tasks /\ c \in Clients /\ pc \in [Tasks -> Places]
  BY TasksAreDistinct DEF Base, Shape
<1>p. phase # "ended"
  BY DEF GoneClients, Stopped
<1>a. /\ AddQueued(c) => pc[c] \notin {"idle", "added", "reading", "refused"} /\ c \notin Readers
      /\ pc[c] \in Unopened => c \notin Readers
  BY <1>b DEF Opening, NotYetOpen
<1>r. c \in Readers => IsOpen(c) /\ rid[c] \in reserved
  BY <1>b, <1>p DEF Opening, StreamsOfReaders, Readers, IsOpen, ReservedForWork
<1>o. AddQueued(c) => rid[c] \in reserved
  <2> SUFFICES ASSUME NEW i \in 1 .. Len(commands), IsAdd(i, c) PROVE rid[c] \in reserved
    BY DEF AddQueued
  <2>1. Sent(commands[i]) /\ commands[i].kind = "add" /\ commands[i].by = c
    BY <1>b DEF Protocol, IsAdd
  <2>2. commands[i].id = rid[c]
    BY <2>1 DEF Sent
  <2> QED BY <1>p, <2>1, <2>2 DEF ReservedForWork
<1>c. ASSUME NEW wanted, CancelIf(c, wanted) PROVE ~wanted
  <2>1. ~Put(c)
    BY <1>b, PutPlaces
  <2> QED BY <1>c, <2>1 DEF CancelIf
<1>1. CASE Accepted(c)
  BY <1>1, <1>b DEF Accepted
<1>2. CASE Refused(c)
  <2>1. pc[c] = "refused"
    BY <1>2 DEF Refused
  <2> QED BY <1>a, <2>1 DEF Unopened
<1>3. CASE Read(c)
  <2>1. pc[c] = "reading" /\ box[c] # <<>> /\ UNCHANGED rid
    BY <1>3 DEF Read
  <2>2. Head(box[c]) \in Terminal
    BY <1>3, <1>b, <2>1 DEF Read
  <2>3. Ended(c)
    <3>1. box[c] \in Seq(Items)
      BY <1>b DEF Shape
    <3>2. 1 \in DOMAIN box[c] /\ box[c][1] = Head(box[c])
      BY <2>1, <3>1
    <3> QED BY <2>2, <3>2 DEF Ended
  <2> QED BY <1>a, <1>b, <2>1, <2>3 DEF Opening, LastIsTerminal
<1>4. CASE Disconnect(c)
  <2>1. Reserved(c) <=> rid[c] \in reserved
    BY <1>4 DEF Disconnect, Reserved, Running
  <2>2. CASE pc[c] \in {"adding", "added", "refused"} /\ CancelIf(c, Reserved(c))
    <3>1. rid[c] \notin reserved
      BY <1>c, <2>1, <2>2
    <3> QED BY <1>o, <1>r, <3>1
  <2>3. CASE pc[c] = "reading" /\ Cleanup(c)
    <3>1. ~(IsOpen(c) /\ Reserved(c))
      BY <1>c, <2>3 DEF Cleanup
    <3> QED BY <1>a, <1>r, <2>1, <2>3, <3>1
  <2> QED BY <1>4, <2>2, <2>3 DEF Disconnect
<1>5. CASE Resume(c)
  BY <1>5, <1>b, PutPlaces DEF Resume
<1> QED BY <1>1, <1>2, <1>3, <1>4, <1>5, TasksAreDistinct DEF TaskSteps, GeneratorSteps

LEMMA GoneKept ==
  ASSUME AllValid, Base, ReservedForWork, GoneClients, Next
  PROVE  GoneClients'
<1>b. Shape /\ Protocol /\ OutputsOfEngine /\ StreamsMatchEngine /\ Opening
  BY DEF Base
<1>n. Len(commands) \in Nat /\ commands \in Seq(Command)
  BY <1>b DEF Shape
<1>t. \A c \in Generators : c \in Tasks /\ c \in Clients
  BY TasksAreDistinct
<1>g. Running => \A c \in Generators :
        /\ pc[c] = "adding" => AddQueued(c)
        /\ pc[c] = "done" => ~AddQueued(c) /\ (c \in Readers => rid[c] \notin Active)
        /\ \A i, j \in 1 .. Len(commands) :
             commands[i].kind = "cancel" /\ commands[i].by = c /\ IsAdd(j, c) => j < i
  BY DEF GoneClients
\* The loop works on; the tasks and the queue stay as they are.
<1>q. ASSUME UNCHANGED <<commands, pc, rid>>, Running' => Running, Stopped' => ~Running',
             \A c \in Generators : c \in Readers' => c \in Readers, Active' \subseteq Active
      PROVE  GoneClients'
  <2>1. \A c \in Generators : AddQueued(c)' <=> AddQueued(c)
    BY <1>q DEF AddQueued, IsAdd
  <2> QED BY <1>g, <1>q, <2>1 DEF GoneClients, IsAdd
<1>1. ASSUME NEW t \in Tasks, TaskSteps(t) PROVE GoneClients'
  <2>1. TaskMoves(t)
    BY <1>1, <1>b, TaskStepsMove
  <2>2. /\ UNCHANGED <<streams, work, phase, failure>> /\ (closing => closing')
        /\ pc'[t] \notin Unopened /\ \A u \in Tasks \ {t} : pc'[u] = pc[u]
        /\ \A c \in Clients : c # t \/ pc[c] # "idle" => rid'[c] = rid[c]
    BY <2>1 DEF TaskMoves
  <2>3. /\ Order(t).kind # "add" /\ Order(t).by = t
        /\ Len(commands') \in Nat
        /\ \A i \in 1 .. Len(commands) : i \in 1 .. Len(commands') /\ commands'[i] = commands[i]
        /\ \A i \in 1 .. Len(commands') :
             i \in 1 .. Len(commands) \/ (i > Len(commands) /\ commands'[i] = Order(t))
    BY <1>b, <2>1, QueueGrows
  <2>4. \A c \in Generators, i \in 1 .. Len(commands') : IsAdd(i, c)' <=> i \in 1 .. Len(commands) /\ IsAdd(i, c)
    BY <2>3 DEF IsAdd
  <2>5. \A c \in Generators : AddQueued(c)' <=> AddQueued(c)
    BY <2>3, <2>4 DEF AddQueued
  <2>6. Readers' = Readers /\ Active' = Active /\ (Running' => Running) /\ (Stopped' <=> Stopped)
    BY <2>2 DEF Readers, Active, Running, Stopped
  <2>7. Stopped' => ~Running'
    BY <2>6 DEF GoneClients
  <2>8. ASSUME Running', NEW c \in Generators
        PROVE  /\ pc'[c] = "adding" => AddQueued(c)'
               /\ pc'[c] = "done" => ~AddQueued(c)' /\ (c \in Readers' => rid'[c] \notin Active')
               /\ \A i, j \in 1 .. Len(commands') :
                    commands'[i].kind = "cancel" /\ commands'[i].by = c /\ IsAdd(j, c)' => j < i
    <3>1. Running
      BY <2>6, <2>8
    <3>2. pc'[c] = "adding" => AddQueued(c)'
      BY <1>g, <1>t, <2>2, <2>5, <3>1 DEF Unopened
    <3>3. CASE c = t /\ pc'[c] = "done"
      <4>1. ~AddQueued(c) /\ c \notin Readers
        BY <1>1, <3>1, <3>3, NothingLeftBehind
      <4> QED BY <4>1, <2>4, <2>5, <2>6, <1>g, <2>3, <3>1, <3>2, <3>3 DEF AddQueued
    <3>4. CASE c # t \/ pc'[c] # "done"
      <4>1. pc'[c] = "done" => pc[c] = "done" /\ rid'[c] = rid[c]
        BY <1>t, <2>2, <3>4
      <4>2. \A i, j \in 1 .. Len(commands') :
              commands'[i].kind = "cancel" /\ commands'[i].by = c /\ IsAdd(j, c)' => j < i
        BY <1>g, <1>n, <2>3, <2>4, <3>1
      <4> QED BY <1>g, <2>5, <2>6, <3>1, <3>2, <4>1, <4>2
    <3> QED BY <3>3, <3>4
  <2> QED BY <2>7, <2>8 DEF GoneClients
<1>2. ASSUME NEW c \in Generators, NEW id \in Ids, NEW prompt \in Prompts, Submit(c, id, prompt)
      PROVE  GoneClients'
  <2> DEFINE m == [kind |-> "add", id |-> id, prompt |-> prompt, by |-> c]
  <2>1. /\ commands' = Append(commands, m) /\ pc' = [pc EXCEPT ![c] = "adding"]
        /\ rid' = [rid EXCEPT ![c] = id] /\ pc[c] = "idle"
        /\ UNCHANGED <<streams, work, phase, closing, failure>>
    BY <1>2 DEF Submit, loopVars, engineVars, flags
  <2>2. m \in Command /\ m.kind = "add" /\ m.by = c
    BY <1>t DEF Command
  <2> HIDE DEF m
  <2>3. /\ Len(commands') = Len(commands) + 1 /\ commands'[Len(commands) + 1] = m
        /\ \A i \in 1 .. Len(commands) : commands'[i] = commands[i]
    BY <1>n, <2>1, <2>2
  <2>4. pc'[c] = "adding" /\ \A d \in Generators \ {c} : pc'[d] = pc[d] /\ rid'[d] = rid[d]
    BY <1>b, <1>t, <2>1 DEF Shape
  <2>5. \A d \in Generators, i \in 1 .. Len(commands') : IsAdd(i, d)' <=>
          (i \in 1 .. Len(commands) /\ IsAdd(i, d)) \/ (d = c /\ i = Len(commands) + 1)
    BY <1>n, <2>2, <2>3 DEF IsAdd
  <2>6. AddQueued(c)' /\ \A d \in Generators \ {c} : AddQueued(d)' <=> AddQueued(d)
    <3>1. Len(commands) + 1 \in 1 .. Len(commands') /\ \A i \in 1 .. Len(commands) : i \in 1 .. Len(commands')
      BY <1>n, <2>3
    <3> QED BY <2>5, <3>1 DEF AddQueued
  <2>7. Readers' = Readers /\ Active' = Active /\ (Running' <=> Running) /\ (Stopped' <=> Stopped)
    BY <2>1 DEF Readers, Active, Running, Stopped
  <2>8. \A i \in 1 .. Len(commands) : commands[i].by # c
    BY <1>b, <2>1 DEF Protocol, Sent
  <2>9. ASSUME Running, NEW d \in Generators, NEW i \in 1 .. Len(commands'), NEW j \in 1 .. Len(commands'),
               commands'[i].kind = "cancel", commands'[i].by = d, IsAdd(j, d)'
        PROVE  j < i
    <3>1. i \in 1 .. Len(commands) /\ commands'[i] = commands[i]
      BY <1>n, <2>2, <2>3, <2>9
    <3>2. d # c
      BY <2>8, <2>9, <3>1
    <3> QED BY <1>g, <2>5, <2>9, <3>1, <3>2
  <2>10. Stopped' => ~Running'
    BY <2>7 DEF GoneClients
  <2> QED BY <1>g, <2>4, <2>6, <2>7, <2>9, <2>10 DEF GoneClients
<1>3. CASE Turns
  <2>1. UNCHANGED <<commands, pc, rid, streams, work, closing, failure>> /\ ~Stopped'
    BY <1>3, <1>b, TurnEffect DEF Stopped
  <2> QED BY <1>q, <2>1 DEF Running, Readers, Active
<1>4. CASE HandleCommand
  <2> DEFINE cmd == Head(commands)
  <2>1. /\ commands # <<>> /\ cmd = commands[1] /\ cmd \in Command /\ Sent(cmd) /\ commands' = Tail(commands)
        /\ \A t \in Tasks : \/ Awaits(t, cmd) /\ pc'[t] = Answer(cmd)
                            \/ ~Awaits(t, cmd) /\ pc'[t] = "woken" /\ pc[t] # "idle"
                            \/ ~Awaits(t, cmd) /\ pc'[t] = pc[t]
    BY <1>4, <1>b, CommandEffect
  <2>2. /\ UNCHANGED <<rid, closing, failure, outputs>> /\ phase = "draining"
        /\ phase' \in {"draining", "stopping"} /\ (phase' = "stopping" => closing)
        /\ Opens(cmd) \/ Turned(cmd) \/ Ends(cmd) \/ Passes(cmd)
    BY <1>4, <1>b, CommandCases
  <2>3. /\ \A c \in Generators : AddQueued(c)' => AddQueued(c)
        /\ \A i \in 1 .. Len(commands') : i + 1 \in 1 .. Len(commands) /\ commands'[i] = commands[i + 1]
        /\ 1 \in 1 .. Len(commands) /\ Len(commands') = Len(commands) - 1
    BY <1>b, <1>n, <2>1, CommandTaken DEF Opening
  <2>4. ~Turned(cmd)
    BY <1>4, NoneTurned
  <2> HIDE DEF cmd
  <2>5. (Stopped' => ~Running') /\ (Running' => Running)
    BY <2>2 DEF Stopped, Running
  <2>6. \A c \in Generators : IsAdd(1, c) <=> cmd.kind = "add" /\ cmd.by = c
    BY <2>1 DEF IsAdd
  <2>7. \A c \in Generators, i \in 1 .. Len(commands') : IsAdd(i, c)' <=> IsAdd(i + 1, c)
    BY <2>3 DEF IsAdd
  <2>8. ASSUME Running, NEW c \in Generators, pc'[c] = "adding" PROVE AddQueued(c)'
    <3>1. pc[c] = "adding" /\ ~Awaits(c, cmd)
      BY <1>t, <2>1, <2>8 DEF Answer
    <3>2. PICK j \in 1 .. Len(commands) : IsAdd(j, c)
      BY <1>g, <2>8, <3>1 DEF AddQueued
    <3>3. j # 1
      BY <2>6, <3>1, <3>2 DEF Awaits
    <3>4. j - 1 \in 1 .. Len(commands') /\ (j - 1) + 1 = j
      BY <1>n, <2>3, <3>2, <3>3
    <3> QED BY <2>7, <3>2, <3>4 DEF AddQueued
  <2>9. ASSUME Running, NEW c \in Generators, NEW i \in 1 .. Len(commands'), NEW j \in 1 .. Len(commands'),
               commands'[i].kind = "cancel", commands'[i].by = c, IsAdd(j, c)'
        PROVE  j < i
    <3>1. /\ commands[i + 1].kind = "cancel" /\ commands[i + 1].by = c /\ IsAdd(j + 1, c)
          /\ i + 1 \in 1 .. Len(commands) /\ j + 1 \in 1 .. Len(commands)
      BY <2>3, <2>7, <2>9
    <3>2. j + 1 < i + 1
      BY <1>g, <2>9, <3>1
    <3> QED BY <1>n, <2>3, <3>2
  <2>10. /\ \A c \in Generators : c \in Readers' => c \in Readers \/ IsAdd(1, c)
         /\ Active' \subseteq Active \/ (Opens(cmd) /\ Active' \subseteq Active \cup {cmd.id})
         /\ cmd.kind = "cancel" => cmd.id \notin Active'
    <3>1. CASE Opens(cmd)
      <4>1. \A c \in Generators : c \in Readers' => c \in Readers \/ c = cmd.by
        BY <3>1 DEF Opens, Readers
      <4>2. Active' \subseteq Active \cup {cmd.id} /\ cmd.kind = "add"
        BY <1>b, <3>1 DEF Opens, Active, Shape
      <4> QED BY <2>6, <3>1, <4>1, <4>2
    <3>2. CASE Passes(cmd)
      BY <3>2 DEF Passes, Readers, Active
    <3>3. CASE Ends(cmd)
      <4> DEFINE left == [work EXCEPT ![cmd.id] = 0]
      <4>1. Publish(cmd.id, TRUE, left) /\ cmd.id \in Active
        BY <3>3 DEF Ends
      <4>2. cmd.id \in Ids /\ TRUE \in BOOLEAN /\ work \in [Ids -> Nat]
        BY <1>b, <4>1 DEF Active, Shape
      <4>3. left \in [Ids -> Nat] /\ left[cmd.id] = 0
        BY <4>2
      <4>4. {x \in Ids : left[x] > 0} \subseteq Active \ {cmd.id}
        BY <4>2 DEF Active
      <4> HIDE DEF left
      <4>5. Published(cmd.id, TRUE, left)
        BY <1>b, <4>1, <4>2, <4>3, PublishEffect
      <4>6. Active' \subseteq Active \ {cmd.id}
        <5>1. Active' = {x \in Ids : left[x] > 0} \ (IF Closes(cmd.id, TRUE) THEN {cmd.id} ELSE {})
          BY <1>b, <4>1, <4>2, <4>3, PublishActive
        <5> QED BY <4>4, <5>1
      <4>7. \A c \in Generators : c \in Readers' => c \in Readers
        BY <1>b, <4>2, <4>5, PublishOpening DEF Opening
      <4> QED BY <4>6, <4>7
    <3> QED BY <2>2, <2>4, <3>1, <3>2, <3>3
  <2>11. ASSUME Running, NEW c \in Generators, pc'[c] = "done"
         PROVE  ~AddQueued(c)' /\ (c \in Readers' => rid'[c] \notin Active')
    <3>1. CASE pc[c] = "done"
      <4>1. ~AddQueued(c) /\ (c \in Readers => rid[c] \notin Active)
        BY <1>g, <2>11, <3>1
      <4>2. ~IsAdd(1, c)
        BY <2>3, <4>1 DEF AddQueued
      <4>3. Opens(cmd) => cmd.id \notin DOMAIN streams
        <5>1. Active \cup pending = DOMAIN streams
          BY <1>b, <2>2 DEF OutputsOfEngine, Stopped, StreamsMatchEngine
        <5> QED BY <5>1 DEF Opens, Rejected
      <4>4. c \in Readers => rid[c] \in DOMAIN streams
        BY <1>b DEF Opening, StreamsOfReaders, Readers
      <4> QED BY <2>2, <2>3, <2>10, <4>1, <4>2, <4>3, <4>4
    <3>2. CASE pc[c] # "done"
      <4>1. Awaits(c, cmd) /\ Answer(cmd) = "done"
        BY <1>t, <2>1, <2>11, <3>2
      <4>2. cmd.kind = "cancel" /\ cmd.by = c
        BY <4>1 DEF Awaits, Answer
      <4>3. cmd.id = rid[c]
        BY <2>1, <4>2 DEF Sent
      <4>4. ~AddQueued(c)'
        <5> SUFFICES ASSUME NEW j \in 1 .. Len(commands'), IsAdd(j, c)' PROVE FALSE
          BY DEF AddQueued
        <5>1. IsAdd(j + 1, c) /\ j + 1 \in 1 .. Len(commands)
          BY <2>3, <2>7
        <5>2. j + 1 < 1
          BY <1>g, <2>1, <2>3, <2>11, <4>2, <5>1
        <5> QED BY <1>n, <2>3, <5>2
      <4> QED BY <2>2, <2>10, <4>2, <4>3, <4>4
    <3> QED BY <3>1, <3>2
  <2> QED BY <2>5, <2>8, <2>9, <2>11 DEF GoneClients
<1>5. CASE StepReturns \/ StepReturnsErrors
  <2>1. UNCHANGED <<commands, pc, rid, streams, closing, failure>> /\ ~Stopped'
    BY <1>5 DEF StepReturns, StepReturnsErrors, taskVars, queueVars, flags, Stopped
  <2>2. Active' \subseteq Active
    <3>1. CASE StepReturns
      <4>1. PICK batch \in SUBSET Active :
              work' = [id \in Ids |-> IF id \in batch THEN work[id] - 1 ELSE work[id]]
        BY <3>1 DEF StepReturns
      <4> QED BY <4>1 DEF Active
    <3>2. CASE StepReturnsErrors
      <4>1. PICK batch \in SUBSET Active :
              work' = [id \in Ids |-> IF id \in batch THEN 0 ELSE work[id]]
        BY <3>2 DEF StepReturnsErrors
      <4> QED BY <4>1 DEF Active
    <3> QED BY <1>5, <3>1, <3>2
  <2> QED BY <1>q, <2>1, <2>2 DEF Running, Readers
<1>6. CASE StepFails
  BY <1>6 DEF StepFails, GoneClients, Running
<1>7. CASE PublishOne
  <2>1. PICK o \in outputs : PublishesOf(o)
    BY <1>7, PublishOneEffect
  <2>2. /\ o.id \in Ids /\ o.last \in BOOLEAN /\ Publish(o.id, o.last, work) /\ work \in [Ids -> Nat]
        /\ UNCHANGED <<pc, rid, commands, closing, failure, phase>> /\ {x \in Ids : work[x] > 0} = Active
        /\ o.last => work[o.id] = 0
    BY <1>b, <2>1 DEF PublishesOf, Shape, OutputItem, OutputsOfEngine, Active
  <2>3. Active' \subseteq Active
    BY <1>b, <2>2, PublishActive
  <2>4. Published(o.id, o.last, work)
    BY <1>b, <2>2, PublishEffect
  <2>5. \A c \in Generators : c \in Readers' => c \in Readers
    BY <1>b, <2>2, <2>4, PublishOpening DEF Opening
  <2>6. (Running' <=> Running) /\ (Stopped' <=> Stopped)
    BY <2>2 DEF Running, Stopped
  <2> QED BY <1>q, <2>2, <2>3, <2>5, <2>6 DEF GoneClients
<1>8. CASE CloseEngine \/ StopCommands
  <2>1. Stopped /\ UNCHANGED <<closing, failure>>
    BY <1>8 DEF CloseEngine, StopCommands, Stopped, flags
  <2> QED BY <2>1 DEF GoneClients, Running
<1> QED BY <1>1, <1>2, <1>3, <1>4, <1>5, <1>6, <1>7, <1>8, NextCases

\* When no prompt is turned down, the engine works only under a reservation
\* and within the bound on them (submit, _command, _publish).
THEOREM WorkReserved == ASSUME AllValid PROVE Spec => []WorkIsReserved
<1>1. Init => Base /\ ReservedForWork
  <2>1. Init => ReservedForWork
    <3> SUFFICES ASSUME Init PROVE ReservedForWork
      OBVIOUS
    <3>1. IsFiniteSet(reserved) /\ Cardinality(reserved) = 0 /\ DOMAIN streams = {}
      BY FS_EmptySet DEF Init
    <3> QED BY <3>1, ServiceLimits, TasksAreDistinct DEF Init, ReservedForWork, Active
  <2> QED BY <2>1, BaseInit
<1>2. Base /\ ReservedForWork /\ [Next]_vars => (Base /\ ReservedForWork)'
  <2>1. ASSUME Base, ReservedForWork, Next PROVE (Base /\ ReservedForWork)'
    BY <2>1, ShapeKept, OutputsKept, OpeningKept, ReservedKept DEF Base
  <2>2. ASSUME Base, ReservedForWork, UNCHANGED vars PROVE (Base /\ ReservedForWork)'
    BY <2>2, BaseStutters DEF ReservedForWork, vars, Active
  <2> QED BY <2>1, <2>2
<1>3. Base /\ ReservedForWork => WorkIsReserved
  <2> SUFFICES ASSUME Base, ReservedForWork, phase # "ended"
               PROVE  Active \cup pending \subseteq reserved /\ Cardinality(Active \cup pending) <= MaxPending
    BY DEF WorkIsReserved
  <2>1. IsFiniteSet(reserved) /\ Cardinality(reserved) <= MaxPending /\ Active \cup pending \subseteq reserved
    BY DEF ReservedForWork
  <2>2. /\ IsFiniteSet(Active \cup pending) /\ Cardinality(Active \cup pending) <= Cardinality(reserved)
        /\ Cardinality(reserved) \in Nat /\ Cardinality(Active \cup pending) \in Nat
    BY <2>1, FS_Subset, FS_CardinalityType
  <2> QED BY <2>1, <2>2, ServiceLimits
<1> QED BY <1>1, <1>2, <1>3, PTL DEF Spec

\* When no prompt is turned down, a client that has gone leaves no request
\* running while the service runs (submit, cancel, RequestStream.events).
THEOREM GoneRelease == ASSUME AllValid PROVE Spec => []DisconnectReleases
<1> DEFINE Inv == Base /\ ReservedForWork /\ GoneClients
<1>1. Init => Inv
  <2> SUFFICES ASSUME Init PROVE ReservedForWork /\ GoneClients
    BY BaseInit
  <2>1. IsFiniteSet(reserved) /\ Cardinality(reserved) = 0 /\ DOMAIN streams = {}
    BY FS_EmptySet DEF Init
  <2>2. ReservedForWork
    BY <2>1, ServiceLimits, TasksAreDistinct DEF Init, ReservedForWork, Active
  <2>3. GoneClients
    BY TasksAreDistinct DEF Init, GoneClients, Stopped
  <2> QED BY <2>2, <2>3
<1>2. Inv /\ [Next]_vars => Inv'
  <2>1. ASSUME Inv, Next PROVE Inv'
    BY <2>1, ShapeKept, OutputsKept, OpeningKept, ReservedKept, GoneKept DEF Base
  <2>2. ASSUME Inv, UNCHANGED vars PROVE Inv'
    <3>1. Base' /\ ReservedForWork'
      BY <2>2, BaseStutters DEF ReservedForWork, vars, Active
    <3>2. GoneClients'
      BY <2>2 DEF vars, GoneClients, Stopped, Running, AddQueued, IsAdd, Readers, Active
    <3> QED BY <3>1, <3>2
  <2> QED BY <2>1, <2>2
<1>3. Inv => DisconnectReleases
  BY DEF GoneClients, DisconnectReleases, Running, Readers, IsOpen
<1> QED BY <1>1, <1>2, <1>3, PTL DEF Spec


=============================================================================
