---------------------------- MODULE ActualWorkers ----------------------------
(***************************************************************************)
(* One tenant's gateway to Actual: the forked workers, the map entry that  *)
(* says which one to use, the queue in front of each, and the requests and *)
(* replies on the IPC channel (adapters/actual/client.ts and worker.ts).   *)
(*                                                                         *)
(* Every structure here is keyed by tenant and tenants share none of it,   *)
(* so one tenant is the whole story. Each callback of the parent, with the *)
(* promise continuations it releases, is one action; the worker handles a  *)
(* request in two steps because its handler awaits the Actual engine.      *)
(***************************************************************************)
EXTENDS Integers, Sequences, FiniteSets

CONSTANTS
  Callers,       \* the concurrent users of withActual, withActualBatch, syncActual
  Closer,        \* closeAllActual, as it reaches this tenant
  MaxRequests,   \* requests one withActual callback may make
  Timeouts,      \* the kinds of request whose timer may win: a subset of Kinds
  OpenMayFail,   \* whether the budget may refuse to open
  MayClose,      \* whether the process shuts down during the run
  MaxWorkers,    \* bound on the workers forked
  MaxOps,        \* bound on the operations asked for
  MaxCrashes     \* bound on the workers that die unasked

Actors == Callers \cup {Closer}
Workers == 1 .. MaxWorkers
Kinds == {"open", "call", "shutdown"}   \* "call" stands for call, batch and sync

ASSUME GatewayAssumption ==
  /\ Closer \notin Callers
  /\ Timeouts \subseteq Kinds
  /\ OpenMayFail \in BOOLEAN /\ MayClose \in BOOLEAN
  /\ MaxRequests \in Nat \ {0} /\ MaxWorkers \in Nat \ {0}
  /\ MaxOps \in Nat /\ MaxCrashes \in Nat

VARIABLES
  parent,    \* the main process: "up" or "down"
  entry,     \* the tenant's entry in the workers map
  process,   \* per worker: "unborn", "alive", "dead", "gone" (its exit event ran)
  killed,    \* workers child.kill() was called on
  budget,    \* per worker, its budget: "closed", "opening" or "open"
  inbox,     \* per worker, requests on their way to it
  handling,  \* per worker, requests whose handler has started
  outbox,    \* per worker, replies on their way back
  pending,   \* per worker, the ids sendRequest waits for
  nextId,    \* per worker, the next request id
  line,      \* per worker, its serialiser: whoever is at the head holds it
  actor,     \* per actor, where its operation stands
  ops,       \* operations asked for so far (bounded)
  crashes    \* workers that died unasked so far (bounded)

vars == <<parent, entry, process, killed, budget, inbox, handling, outbox, pending,
          nextId, line, actor, ops, crashes>>
channel == <<inbox, handling, outbox>>

NoWorker == 0
Request == [id : Nat, kind : Kinds]
Reply == [id : Nat, ok : BOOLEAN]

\* "opening" awaits its own open, "lined" is in the serialiser between requests,
\* "waiting" awaits the reply to its request, "done" is a close that returned.
Idle == [at |-> "idle", worker |-> NoWorker, id |-> 0, sent |-> 0]
Closed == [Idle EXCEPT !.at = "done"]
Lined(w, sent) == [at |-> "lined", worker |-> w, id |-> 0, sent |-> sent]
Over(a) == IF a = Closer THEN Closed ELSE Idle
Actor == [at : {"idle", "opening", "lined", "waiting", "done"},
          worker : Workers \cup {NoWorker}, id : Nat, sent : Nat]

MainIsUp == parent = "up"
Running(w) == process[w] = "alive"
Held(w, a) == line[w] # <<>> /\ Head(line[w]) = a

(***************************************************************************)
(* sendRequest: the id is pending before the message leaves. A worker that *)
(* has exited never sees it: the channel reports an error on the child     *)
(* object, which has no listener for it, or the message is lost.           *)
(***************************************************************************)
Sent(w, kind) ==
  /\ nextId' = [nextId EXCEPT ![w] = @ + 1]
  /\ pending' = [pending EXCEPT ![w] = @ \cup {nextId[w]}]
  /\ IF Running(w)
     THEN /\ inbox' = [inbox EXCEPT ![w] = Append(@, [id |-> nextId[w], kind |-> kind])]
          /\ UNCHANGED parent
     ELSE /\ parent' \in {"up", "down"}
          /\ UNCHANGED inbox

(***************************************************************************)
(* withActual, withActualBatch, syncActual                                 *)
(***************************************************************************)
CountOp ==
  /\ ops < MaxOps
  /\ ops' = ops + 1

\* getOrSpawnWorker finds an entry: join that worker's queue, open or not.
Join(a) ==
  /\ MainIsUp
  /\ actor[a].at = "idle"
  /\ entry # NoWorker
  /\ CountOp
  /\ line' = [line EXCEPT ![entry] = Append(@, a)]
  /\ actor' = [actor EXCEPT ![a] = Lined(entry, 0)]
  /\ UNCHANGED <<parent, entry, process, killed, budget, channel, pending, nextId, crashes>>

\* It finds none: fork, enter the worker in the map, ask it to open.
EnteredLate(w) == entry
Entered(w) == w

Spawn(a) ==
  /\ MainIsUp
  /\ actor[a].at = "idle"
  /\ entry = NoWorker
  /\ CountOp
  /\ \E w \in Workers :
       /\ process[w] = "unborn"
       /\ \A v \in 1 .. w - 1 : process[v] # "unborn"
       /\ process' = [process EXCEPT ![w] = "alive"]
       /\ entry' = Entered(w)
       /\ nextId' = [nextId EXCEPT ![w] = 2]
       /\ pending' = [pending EXCEPT ![w] = {1}]
       /\ inbox' = [inbox EXCEPT ![w] = <<[id |-> 1, kind |-> "open"]>>]
       /\ actor' = [actor EXCEPT ![a] =
                      [at |-> "opening", worker |-> w, id |-> 1, sent |-> 0]]
  /\ UNCHANGED <<parent, killed, budget, handling, outbox, line, crashes>>

SendUnheld(w, a) == TRUE
MaySend(w, a) == Held(w, a)

KindOf(a) == IF a = Closer THEN "shutdown" ELSE "call"

Send(a) ==
  LET w == actor[a].worker IN
  /\ MainIsUp
  /\ actor[a].at = "lined"
  /\ MaySend(w, a)
  /\ actor[a].sent < (IF a = Closer THEN 1 ELSE MaxRequests)
  /\ Sent(w, KindOf(a))
  /\ actor' = [actor EXCEPT ![a] = [at |-> "waiting", worker |-> w, id |-> nextId[w],
                                    sent |-> @.sent + 1]]
  /\ UNCHANGED <<entry, process, killed, budget, handling, outbox, line, ops, crashes>>

\* The callback returns after its last reply.
Finish(a) ==
  LET w == actor[a].worker IN
  /\ MainIsUp
  /\ actor[a].at = "lined"
  /\ actor[a].sent > 0
  /\ Held(w, a)
  /\ line' = [line EXCEPT ![w] = Tail(@)]
  /\ actor' = [actor EXCEPT ![a] = Idle]
  /\ UNCHANGED <<parent, entry, process, killed, budget, channel, pending, nextId,
                 ops, crashes>>

\* closeActual: take the entry as it is now and queue behind its callers.
JoinedLast(w) == Append(line[w], Closer)

Close ==
  /\ MainIsUp
  /\ MayClose
  /\ actor[Closer].at = "idle"
  /\ IF entry = NoWorker
     THEN /\ actor' = [actor EXCEPT ![Closer] = Closed]
          /\ UNCHANGED line
     ELSE /\ actor' = [actor EXCEPT ![Closer] = Lined(entry, 0)]
          /\ line' = [line EXCEPT ![entry] = JoinedLast(entry)]
  /\ UNCHANGED <<parent, entry, process, killed, budget, channel, pending, nextId,
                 ops, crashes>>

(***************************************************************************)
(* What a reply, a timer or an exit event releases in the parent           *)
(***************************************************************************)
\* The serialiser runs the next function whether this one failed or not.
StayedInLine(l, ok) == IF ok THEN Tail(l) ELSE l
LeftLine(l, ok) == Tail(l)

\* Killed unless it has already exited, so far as the parent has been told.
KilledToo(w) == IF process[w] = "gone" THEN killed ELSE killed \cup {w}

\* The request of actor a is answered. A refused open drops the entry and kills
\* the worker; so does a close, whatever its answer.
Answered(a, ok) ==
  LET w == actor[a].worker IN
  \/ /\ actor[a].at = "opening" /\ ok
     /\ line' = [line EXCEPT ![w] = Append(@, a)]
     /\ actor' = [actor EXCEPT ![a] = Lined(w, 0)]
     /\ UNCHANGED <<entry, killed>>
  \/ /\ actor[a].at = "opening" /\ ~ok
     /\ actor' = [actor EXCEPT ![a] = Idle]
     /\ entry' = NoWorker
     /\ killed' = KilledToo(w)
     /\ UNCHANGED line
  \/ /\ actor[a].at = "waiting" /\ a # Closer /\ ok
     /\ actor' = [actor EXCEPT ![a] = Lined(w, @.sent)]
     /\ UNCHANGED <<entry, killed, line>>
  \/ /\ actor[a].at = "waiting" /\ a # Closer /\ ~ok
     /\ actor' = [actor EXCEPT ![a] = Idle]
     /\ line' = [line EXCEPT ![w] = LeftLine(@, ok)]
     /\ UNCHANGED <<entry, killed>>
  \/ /\ actor[a].at = "waiting" /\ a = Closer
     /\ actor' = [actor EXCEPT ![a] = Closed]
     /\ line' = [line EXCEPT ![w] = Tail(@)]
     /\ entry' = NoWorker
     /\ killed' = KilledToo(w)

\* A reply arrives: the actor whose id it carries goes on, if one still waits.
Deliver(w) ==
  LET reply == Head(outbox[w]) IN
  /\ MainIsUp
  /\ outbox[w] # <<>>
  /\ outbox' = [outbox EXCEPT ![w] = Tail(@)]
  /\ pending' = [pending EXCEPT ![w] = @ \ {reply.id}]
  /\ IF reply.id \in pending[w]
     THEN \E a \in Actors :
            /\ actor[a].worker = w /\ actor[a].id = reply.id
            /\ Answered(a, reply.ok)
     ELSE UNCHANGED <<entry, killed, line, actor>>
  /\ UNCHANGED <<parent, process, budget, inbox, handling, nextId, ops, crashes>>

KindAwaited(a) == IF actor[a].at = "opening" THEN "open" ELSE KindOf(a)

\* A timer wins: the request is forgotten here, though the worker still has it.
Timeout(a) ==
  LET w == actor[a].worker IN
  /\ MainIsUp
  /\ actor[a].at \in {"opening", "waiting"}
  /\ KindAwaited(a) \in Timeouts
  /\ pending' = [pending EXCEPT ![w] = @ \ {actor[a].id}]
  /\ Answered(a, FALSE)
  /\ UNCHANGED <<parent, process, budget, channel, nextId, ops, crashes>>

\* The exit event: the entry goes, whichever worker it names by now, and every
\* request still waiting on this worker is refused, in one step.
WaitsOn(a, w) == actor[a].at \in {"opening", "waiting"} /\ actor[a].worker = w
RefusedAfterClear(w) == {}
Refused(w) == {a \in Actors : WaitsOn(a, w)}

EntryAfterExit(w) == NoWorker

Exited(w) ==
  /\ MainIsUp
  /\ process[w] = "dead"
  /\ process' = [process EXCEPT ![w] = "gone"]
  /\ entry' = EntryAfterExit(w)
  /\ pending' = [pending EXCEPT ![w] = {}]
  /\ actor' = [a \in Actors |-> IF a \in Refused(w) THEN Over(a) ELSE actor[a]]
  /\ line' = [line EXCEPT ![w] =
                IF \E a \in Refused(w) : Held(w, a) THEN LeftLine(@, FALSE) ELSE @]
  /\ outbox' = [outbox EXCEPT ![w] = <<>>]
  /\ UNCHANGED <<parent, killed, budget, inbox, handling, nextId, ops, crashes>>

(***************************************************************************)
(* The worker                                                              *)
(***************************************************************************)
\* A message is received: its handler starts at once, beside any other.
Receive(w) ==
  LET request == Head(inbox[w]) IN
  /\ Running(w)
  /\ inbox[w] # <<>>
  /\ inbox' = [inbox EXCEPT ![w] = Tail(@)]
  /\ handling' = [handling EXCEPT ![w] = @ \cup {request}]
  /\ budget' = [budget EXCEPT ![w] =
                  IF request.kind = "open" /\ @ = "closed" THEN "opening" ELSE @]
  /\ UNCHANGED <<parent, entry, process, killed, outbox, pending, nextId, line, actor,
                 ops, crashes>>

ReplyTo(request, ok) == [id |-> request.id, ok |-> ok]

Replies(w, request, ok) ==
  /\ request \in handling[w]
  /\ Running(w)
  /\ outbox' = [outbox EXCEPT ![w] = Append(@, ReplyTo(request, ok))]

\* open ends: the budget is there, or it is not, or its facts cannot be read.
EndOpen(w, request, ok) ==
  /\ request.kind = "open"
  /\ Replies(w, request, ok)
  /\ ok \/ OpenMayFail
  /\ handling' = [handling EXCEPT ![w] = @ \ {request}]
  /\ budget' \in IF ok THEN {[budget EXCEPT ![w] = "open"]}
                       ELSE {budget, [budget EXCEPT ![w] = "open"]}
  /\ UNCHANGED <<parent, entry, process, killed, inbox, pending, nextId, line, actor,
                 ops, crashes>>

EndCall(w, request, ok) ==
  /\ request.kind = "call"
  /\ Replies(w, request, ok)
  /\ handling' = [handling EXCEPT ![w] = @ \ {request}]
  /\ UNCHANGED <<parent, entry, process, killed, budget, inbox, pending, nextId, line,
                 actor, ops, crashes>>

\* A worker that has died: nothing it was doing goes on.
Dead(w) ==
  /\ process' = [process EXCEPT ![w] = "dead"]
  /\ inbox' = [inbox EXCEPT ![w] = <<>>]
  /\ handling' = [handling EXCEPT ![w] = {}]
  /\ budget' = [budget EXCEPT ![w] = "closed"]

\* shutdown replies, and exits once the reply has left, even if it failed.
EndShutdown(w, request, ok) ==
  /\ request.kind = "shutdown"
  /\ Replies(w, request, ok)
  /\ Dead(w)
  /\ UNCHANGED <<parent, entry, killed, pending, nextId, line, actor, ops, crashes>>

\* The signal takes effect.
Killed(w) ==
  /\ Running(w) /\ w \in killed
  /\ Dead(w)
  /\ UNCHANGED <<parent, entry, killed, outbox, pending, nextId, line, actor, ops, crashes>>

Crash(w) ==
  /\ Running(w)
  /\ crashes < MaxCrashes
  /\ crashes' = crashes + 1
  /\ Dead(w)
  /\ UNCHANGED <<parent, entry, killed, outbox, pending, nextId, line, actor, ops>>

Init ==
  /\ parent = "up"
  /\ entry = NoWorker
  /\ process = [w \in Workers |-> "unborn"]
  /\ killed = {}
  /\ budget = [w \in Workers |-> "closed"]
  /\ inbox = [w \in Workers |-> <<>>]
  /\ handling = [w \in Workers |-> {}]
  /\ outbox = [w \in Workers |-> <<>>]
  /\ pending = [w \in Workers |-> {}]
  /\ nextId = [w \in Workers |-> 1]
  /\ line = [w \in Workers |-> <<>>]
  /\ actor = [a \in Actors |-> Idle]
  /\ ops = 0
  /\ crashes = 0

Proceeds(a) == Send(a) \/ Finish(a)
EndsOne(w) == \E request \in handling[w], ok \in BOOLEAN :
                \/ EndOpen(w, request, ok)
                \/ EndCall(w, request, ok)
                \/ EndShutdown(w, request, ok)

Next ==
  \/ \E a \in Callers : Join(a) \/ Spawn(a)
  \/ Close
  \/ \E a \in Actors : Send(a) \/ Finish(a) \/ Timeout(a)
  \/ \E w \in Workers :
       Deliver(w) \/ Exited(w) \/ Receive(w) \/ EndsOne(w) \/ Killed(w) \/ Crash(w)

\* The parent's callbacks run and its timers fire; nothing obliges a worker to
\* answer, to die or to stay alive.
Fairness ==
  /\ \A a \in Actors : WF_vars(Proceeds(a)) /\ WF_vars(Timeout(a))
  /\ \A w \in Workers : WF_vars(Deliver(w)) /\ WF_vars(Exited(w))

Spec == Init /\ [][Next]_vars
FairSpec == Spec /\ Fairness

(***************************************************************************)
(* Properties                                                              *)
(***************************************************************************)

\* Type invariant: the map entry, the queues, the pending ids and the messages
\* keep the shapes client.ts and protocol.ts declare.
TypeOK ==
  /\ parent \in {"up", "down"}
  /\ entry \in Workers \cup {NoWorker}
  /\ process \in [Workers -> {"unborn", "alive", "dead", "gone"}]
  /\ killed \subseteq Workers
  /\ budget \in [Workers -> {"closed", "opening", "open"}]
  /\ inbox \in [Workers -> Seq(Request)]
  /\ handling \in [Workers -> SUBSET Request]
  /\ outbox \in [Workers -> Seq(Reply)]
  /\ pending \in [Workers -> SUBSET Nat]
  /\ nextId \in [Workers -> Nat]
  /\ line \in [Workers -> Seq(Actors)]
  /\ actor \in [Actors -> Actor]
  /\ ops \in Nat
  /\ crashes \in Nat

\* Nobody waits on a promise the parent has forgotten, and no promise is kept
\* for somebody who has gone: an id is pending exactly while one actor awaits
\* it, across replies, late replies, timeouts, crashes and refused opens.
EveryWaitIsPending ==
  /\ \A a \in Actors, w \in Workers : WaitsOn(a, w) => actor[a].id \in pending[w]
  /\ \A w \in Workers : \A id \in pending[w] :
       Cardinality({a \in Actors : WaitsOn(a, w) /\ actor[a].id = id}) = 1

\* The queue of a worker holds exactly the operations that have joined it and
\* not settled, each once, and only its head has a request outstanding.
LineIsKept ==
  \A w \in Workers :
    /\ \A a \in Actors :
         Cardinality({i \in 1 .. Len(line[w]) : line[w][i] = a}) =
           (IF actor[a].worker = w /\ actor[a].at \in {"lined", "waiting"} THEN 1 ELSE 0)
    /\ \A a \in Actors : actor[a].at = "waiting" /\ actor[a].worker = w => Held(w, a)

\* The next call after a worker's exit is told of it spawns a fresh one: the
\* map never goes on naming a worker whose exit event has run.
EntryIsNotGone == entry # NoWorker => process[entry] # "gone"

\* One process at a time owns the tenant's dataDir.
Owners == {w \in Workers : Running(w) /\ budget[w] # "closed"}
SingleOwner == Cardinality(Owners) <= 1

\* A worker the parent has neither in its map nor signalled would never end.
NoOrphanWorker == \A w \in Workers : Running(w) => w = entry \/ w \in killed
MapIsTrue == EntryIsNotGone /\ NoOrphanWorker

\* docs/architecture.md:18: a single process owns the tenant's dataDir, and it is
\* the one the map names or one that has been told to die.
EntryIsTheOwner == SingleOwner /\ MapIsTrue

\* The Actual engine never has two operations of the tenant in progress.
CallsAt(w) == {r \in handling[w] : r.kind = "call"}
OneCallAtATime == \A w \in Workers : Cardinality(CallsAt(w)) <= 1

\* main.ts:173: a call that was there first, and that somebody still waits for,
\* finishes before its worker is asked to release the dataDir.
CloseWaitsForCallers ==
  \A w \in Workers : \A s \in {r \in handling[w] : r.kind = "shutdown"} :
    \A r \in CallsAt(w) : r.id < s.id => r.id \notin pending[w]

\* No operation is lost between its line, its worker and its answer: a caller that
\* waits is awaited by a live promise, stands in the line once and holds its head
\* while it is served, and a close lets the callers before it finish.
EveryCallIsKept == EveryWaitIsPending /\ LineIsKept /\ CloseWaitsForCallers

\* Every operation is answered, with a result or an error, whatever the worker
\* does, as long as the main process is there.
CallersAreAnswered ==
  \A a \in Actors : actor[a].at \in {"opening", "lined", "waiting"}
                      ~> (actor[a].at \in {"idle", "done"} \/ parent = "down")
==============================================================================
