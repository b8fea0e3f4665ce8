------------------------- MODULE ActualWorkersProofs -------------------------
(***************************************************************************)
(* What holds of a tenant's gateway for every set of callers and every     *)
(* bound: no waiting caller is forgotten, the serialiser is a queue of     *)
(* those it serves, a close lets the calls before it end, the engine runs  *)
(* one call at a time unless a call can time out, and the dataDir has one  *)
(* owner unless an open can fail or the process closes.                    *)
(***************************************************************************)
EXTENDS ActualWorkers, FiniteSetTheorems, SequenceTheorems, TLAPS

(***************************************************************************)
(* The inductive invariant                                                 *)
(***************************************************************************)
In(s) == {s[i] : i \in 1 .. Len(s)}
NoRepeats(s) == \A i, j \in 1 .. Len(s) : s[i] = s[j] => i = j

Queued(w) == {a \in Actors : actor[a].worker = w /\ actor[a].at \in {"lined", "waiting"}}
Requests(w) == In(inbox[w]) \cup handling[w]

\* The line of a worker is a queue of its operations, and only its head waits.
Lines ==
  \A w \in Workers :
    /\ NoRepeats(line[w])
    /\ In(line[w]) = Queued(w)
    /\ \A a \in Actors : actor[a].at = "waiting" /\ actor[a].worker = w => Held(w, a)

\* Operations and the map speak of workers that were forked, and what was never
\* forked has nothing going on.
Placed ==
  /\ \A a \in Actors : actor[a].at \in {"opening", "lined", "waiting"} =>
       actor[a].worker \in Workers /\ process[actor[a].worker] # "unborn"
  /\ entry # NoWorker => process[entry] # "unborn"
  /\ \A w \in Workers : process[w] = "unborn" =>
       pending[w] = {} /\ inbox[w] = <<>> /\ handling[w] = {} /\ outbox[w] = <<>>
  /\ \A w \in Workers : process[w] # "unborn" => nextId[w] >= 2

\* An id is pending exactly while one operation awaits it, and 1 is the open's.
Awaited ==
  /\ \A a \in Actors, w \in Workers : WaitsOn(a, w) => actor[a].id \in pending[w]
  /\ \A w \in Workers : \A id \in pending[w] :
       id < nextId[w] /\ \E a \in Actors : WaitsOn(a, w) /\ actor[a].id = id
  /\ \A w \in Workers, a, b \in Actors :
       WaitsOn(a, w) /\ WaitsOn(b, w) /\ actor[a].id = actor[b].id => a = b
  /\ \A a \in Actors : /\ actor[a].at = "opening" => actor[a].id = 1
                       /\ actor[a].at = "waiting" => actor[a].id >= 2

\* What travels carries an id that was given out.
Numbered ==
  \A w \in Workers :
    /\ \A r \in Requests(w) : r.id < nextId[w] /\ (r.kind = "open" <=> r.id = 1)
    /\ \A m \in In(outbox[w]) : m.id < nextId[w]

\* A call older than a shutdown is not waited for, on its way or being handled.
LastToGo ==
  \A w \in Workers : \A s, r \in Requests(w) :
    s.kind = "shutdown" /\ r.kind = "call" /\ r.id < s.id => r.id \notin pending[w]

IInv == TypeOK /\ Lines /\ Placed /\ Awaited /\ Numbered /\ LastToGo

(***************************************************************************)
(* Sequences                                                               *)
(***************************************************************************)
LEMMA AppendIn ==
  ASSUME NEW S, NEW s \in Seq(S), NEW e \in S
  PROVE  /\ Append(s, e) \in Seq(S)
         /\ Append(s, e) # <<>>
         /\ In(Append(s, e)) = In(s) \cup {e}
         /\ NoRepeats(s) /\ e \notin In(s) => NoRepeats(Append(s, e))
         /\ Head(Append(s, e)) = IF s = <<>> THEN e ELSE Head(s)
<1> DEFINE t == Append(s, e)
<1>1. /\ t \in Seq(S) /\ t # <<>> /\ Len(t) = Len(s) + 1 /\ Len(s) \in Nat
      /\ \A i \in 1 .. Len(s) : t[i] = s[i]
      /\ t[Len(s) + 1] = e
  BY AppendProperties, LenProperties
<1>2. In(t) = In(s) \cup {e}
  <2>1. ASSUME NEW i \in 1 .. Len(t)  PROVE t[i] \in In(s) \cup {e}
    <3>1. i \in 1 .. Len(s) \/ i = Len(s) + 1  BY <1>1
    <3> QED  BY <3>1, <1>1 DEF In
  <2>2. ASSUME NEW i \in 1 .. Len(s)  PROVE s[i] \in In(t)
    <3>1. i \in 1 .. Len(t) /\ s[i] = t[i]  BY <1>1
    <3> QED  BY <3>1 DEF In
  <2>3. e \in In(t)
    <3>1. Len(s) + 1 \in 1 .. Len(t)  BY <1>1
    <3> QED  BY <3>1, <1>1 DEF In
  <2> QED  BY <2>1, <2>2, <2>3 DEF In
<1>3. ASSUME NoRepeats(s), e \notin In(s)  PROVE NoRepeats(t)
  <2> SUFFICES ASSUME NEW i \in 1 .. Len(t), NEW j \in 1 .. Len(t), t[i] = t[j]  PROVE i = j
    BY DEF NoRepeats
  <2>1. \A k \in 1 .. Len(s) : s[k] # e  BY <1>3 DEF In
  <2> QED  BY <1>1, <1>3, <2>1 DEF NoRepeats
<1>4. Head(t) = IF s = <<>> THEN e ELSE Head(s)  BY HeadTailAppend
<1> HIDE DEF t
<1> QED  BY <1>1, <1>2, <1>3, <1>4 DEF t

LEMMA TailIn ==
  ASSUME NEW S, NEW s \in Seq(S), s # <<>>
  PROVE  /\ Tail(s) \in Seq(S) /\ Head(s) \in S
         /\ In(s) = In(Tail(s)) \cup {Head(s)}
         /\ NoRepeats(s) => NoRepeats(Tail(s)) /\ Head(s) \notin In(Tail(s))
<1> DEFINE t == Tail(s)
<1>1. /\ t \in Seq(S) /\ Head(s) \in S /\ Len(t) = Len(s) - 1 /\ Len(s) \in Nat \ {0}
      /\ \A i \in 1 .. Len(t) : t[i] = s[i + 1]
      /\ Head(s) = s[1]
  BY HeadTailProperties, EmptySeq, LenProperties
<1>2. In(s) = In(t) \cup {Head(s)}
  <2>1. ASSUME NEW i \in 1 .. Len(s)  PROVE s[i] \in In(t) \cup {Head(s)}
    <3>1. CASE i = 1  BY <3>1, <1>1
    <3>2. CASE i # 1
      <4>1. i - 1 \in 1 .. Len(t) /\ t[i - 1] = s[i]  BY <3>2, <1>1
      <4> QED  BY <4>1 DEF In
    <3> QED  BY <3>1, <3>2
  <2>2. ASSUME NEW i \in 1 .. Len(t)  PROVE t[i] \in In(s)
    <3>1. i + 1 \in 1 .. Len(s) /\ t[i] = s[i + 1]  BY <1>1
    <3> QED  BY <3>1 DEF In
  <2>3. Head(s) \in In(s)
    <3>1. 1 \in 1 .. Len(s)  BY <1>1
    <3> QED  BY <3>1, <1>1 DEF In
  <2> QED  BY <2>1, <2>2, <2>3 DEF In
<1>3. ASSUME NoRepeats(s)  PROVE NoRepeats(t) /\ Head(s) \notin In(t)
  <2>1. \A i \in 1 .. Len(t) : t[i] = s[i + 1] /\ i + 1 \in 1 .. Len(s)  BY <1>1
  <2>2. NoRepeats(t)
    <3> SUFFICES ASSUME NEW i \in 1 .. Len(t), NEW j \in 1 .. Len(t), t[i] = t[j]
                 PROVE  i = j
      BY DEF NoRepeats
    <3>1. i + 1 = j + 1  BY <2>1, <1>3 DEF NoRepeats
    <3> QED  BY <3>1
  <2>3. \A i \in 1 .. Len(t) : t[i] # s[1]
    <3> SUFFICES ASSUME NEW i \in 1 .. Len(t), t[i] = s[1]  PROVE FALSE  OBVIOUS
    <3>1. i + 1 = 1  BY <2>1, <1>1, <1>3 DEF NoRepeats
    <3> QED  BY <3>1
  <2> QED  BY <2>2, <2>3, <1>1 DEF In
<1> HIDE DEF t
<1> QED  BY <1>1, <1>2, <1>3 DEF t

LEMMA MessagesTyped ==
  ASSUME TypeOK, NEW w \in Workers
  PROVE  Requests(w) \subseteq Request /\ In(outbox[w]) \subseteq Reply
<1>1. inbox[w] \in Seq(Request) /\ handling[w] \subseteq Request /\ outbox[w] \in Seq(Reply)
  BY DEF TypeOK
<1>2. \A i \in 1 .. Len(inbox[w]) : inbox[w][i] \in Request  BY <1>1, ElementOfSeq
<1>3. \A i \in 1 .. Len(outbox[w]) : outbox[w][i] \in Reply  BY <1>1, ElementOfSeq
<1> QED  BY <1>1, <1>2, <1>3 DEF Requests, In

LEMMA EmptyIn == In(<<>>) = {} /\ NoRepeats(<<>>)
BY DEF In, NoRepeats

\* Whoever holds a line stands in it, and leaves it when its head is dropped.
LEMMA HolderLeaves ==
  ASSUME TypeOK, Lines, NEW w \in Workers, NEW a \in Actors, Held(w, a)
  PROVE  /\ Tail(line[w]) \in Seq(Actors)
         /\ NoRepeats(Tail(line[w]))
         /\ In(Tail(line[w])) = Queued(w) \ {a}
         /\ a \in Queued(w)
         /\ \A b \in Actors : actor[b].at = "waiting" /\ actor[b].worker = w => b = a
<1>1. line[w] \in Seq(Actors) /\ line[w] # <<>> /\ Head(line[w]) = a
  BY DEF TypeOK, Held
<1>2. /\ Tail(line[w]) \in Seq(Actors)
      /\ In(line[w]) = In(Tail(line[w])) \cup {a}
      /\ NoRepeats(Tail(line[w])) /\ a \notin In(Tail(line[w]))
  BY <1>1, TailIn DEF Lines
<1>3. In(line[w]) = Queued(w)  BY DEF Lines
<1>4. \A b \in Actors : actor[b].at = "waiting" /\ actor[b].worker = w => b = a
  BY DEF Lines, Held
<1> QED  BY <1>2, <1>3, <1>4

(***************************************************************************)
(* The inductive invariant holds at first, and each step keeps it          *)
(***************************************************************************)
LEMMA IdleIsActor ==
  /\ Idle \in Actor /\ Idle.at = "idle"
  /\ Closed \in Actor /\ Closed.at = "done"
  /\ \A w \in Workers, n \in Nat :
       /\ Lined(w, n) \in Actor
       /\ Lined(w, n).at = "lined" /\ Lined(w, n).worker = w
  /\ \A a : Over(a) \in Actor /\ Over(a).at \in {"idle", "done"}
BY DEF Idle, Closed, Lined, Over, Actor

LEMMA InitInvariant == Init => IInv
<1> SUFFICES ASSUME Init PROVE IInv  OBVIOUS
<1>1. TypeOK
  BY IdleIsActor, GatewayAssumption DEF Init, TypeOK, NoWorker
<1>2. \A a \in Actors : actor[a].at = "idle"
  BY IdleIsActor DEF Init
<1>3. Lines
  BY <1>2, EmptyIn DEF Init, Lines, Queued
<1>4. Placed
  BY <1>2 DEF Init, Placed, NoWorker
<1>5. Awaited
  BY <1>2 DEF Init, Awaited, WaitsOn
<1>6. Numbered /\ LastToGo
  BY EmptyIn DEF Init, Numbered, LastToGo, Requests
<1> QED  BY <1>1, <1>3, <1>4, <1>5, <1>6 DEF IInv

\* An answer moves one operation only: out of its wait, and if it ends there,
\* out of its line.
LEMMA AnsweredKeepsLines ==
  ASSUME IInv, NEW a \in Actors, NEW w \in Workers, WaitsOn(a, w),
         NEW ok \in BOOLEAN, Answered(a, ok)
  PROVE  /\ actor' \in [Actors -> Actor]
         /\ line' \in [Workers -> Seq(Actors)]
         /\ killed' \subseteq Workers
         /\ entry' \in {entry, NoWorker}
         /\ \A b \in Actors \ {a} : actor'[b] = actor[b]
         /\ actor'[a].at \in {"idle", "done", "lined"}
         /\ actor'[a].at = "lined" => actor'[a].worker = w
         /\ Lines'
<1> USE DEF WaitsOn
<1>1. TypeOK /\ Lines /\ actor[a].worker = w /\ actor[a] \in Actor /\ actor[a].sent \in Nat
  BY DEF IInv, TypeOK, Actor
<1>2. killed' \subseteq Workers /\ entry' \in {entry, NoWorker}
  BY <1>1 DEF Answered, KilledToo, TypeOK
<1>3. CASE actor[a].at = "opening" /\ ok
  <2>1. /\ line' = [line EXCEPT ![w] = Append(@, a)]
        /\ actor' = [actor EXCEPT ![a] = Lined(w, 0)]
    BY <1>1, <1>3 DEF Answered
  <2>2. /\ actor' \in [Actors -> Actor] /\ actor'[a] = Lined(w, 0)
        /\ actor'[a].at = "lined" /\ actor'[a].worker = w
        /\ \A b \in Actors \ {a} : actor'[b] = actor[b]
    BY <2>1, <1>1, IdleIsActor DEF TypeOK
  <2>3. a \notin In(line[w])
    BY <1>1, <1>3 DEF Lines, Queued
  <2>4. /\ line'[w] \in Seq(Actors) /\ In(line'[w]) = In(line[w]) \cup {a}
        /\ NoRepeats(line'[w])
        /\ \A b \in Actors : Held(w, b) => Held(w, b)'
    <3>1. line'[w] = Append(line[w], a) /\ line[w] \in Seq(Actors)
      BY <2>1, <1>1 DEF TypeOK
    <3>2. NoRepeats(line[w])  BY <1>1 DEF Lines
    <3> QED  BY <3>1, <3>2, <2>3, AppendIn DEF Held
  <2>5. line' \in [Workers -> Seq(Actors)] /\ \A v \in Workers \ {w} : line'[v] = line[v]
    BY <2>1, <2>4, <1>1 DEF TypeOK
  <2>6. ASSUME NEW v \in Workers
        PROVE  /\ NoRepeats(line'[v])
               /\ In(line'[v]) = Queued(v)'
               /\ \A b \in Actors : actor'[b].at = "waiting" /\ actor'[b].worker = v => Held(v, b)'
    <3>1. CASE v = w
      <4>1. Queued(w)' = Queued(w) \cup {a}
        BY <2>2, <1>1 DEF Queued
      <4>2. In(line'[w]) = Queued(w)'
        BY <2>4, <4>1, <1>1 DEF Lines
      <4>3. \A b \in Actors : actor'[b].at = "waiting" /\ actor'[b].worker = w => Held(w, b)'
        BY <2>2, <2>4, <1>1 DEF Lines
      <4> QED BY <3>1, <2>4, <4>2, <4>3
    <3>2. CASE v # w
      <4>1. Queued(v)' = Queued(v)
        BY <2>2, <3>2, <1>1 DEF Queued
      <4>2. line'[v] = line[v]
        BY <2>5, <3>2
      <4>3. \A b \in Actors : actor'[b].at = "waiting" /\ actor'[b].worker = v => Held(v, b)'
        BY <2>2, <3>2, <4>2, <1>1 DEF Lines, Held
      <4> QED BY <4>1, <4>2, <4>3, <1>1 DEF Lines
    <3> QED BY <3>1, <3>2
  <2>7. Lines'
    BY <2>6 DEF Lines
  <2> QED  BY <1>2, <2>2, <2>5, <2>7
<1>4. CASE actor[a].at = "opening" /\ ~ok
  <2>1. line' = line /\ actor' = [actor EXCEPT ![a] = Idle]
    BY <1>4 DEF Answered
  <2>2. /\ actor' \in [Actors -> Actor]
        /\ actor'[a].at = "idle"
        /\ \A b \in Actors \ {a} : actor'[b] = actor[b]
    BY <2>1, <1>1, IdleIsActor DEF TypeOK
  <2>3. Lines'
    BY <2>1, <2>2, <1>1, <1>4 DEF Lines, Queued, Held
  <2> QED  BY <1>1, <1>2, <2>1, <2>2, <2>3 DEF TypeOK
<1>5. CASE actor[a].at = "waiting" /\ a # Closer /\ ok
  <2>1. line' = line /\ actor' = [actor EXCEPT ![a] = Lined(w, @.sent)]
    BY <1>1, <1>5 DEF Answered
  <2>2. /\ actor' \in [Actors -> Actor]
        /\ actor'[a].at = "lined" /\ actor'[a].worker = w
        /\ \A b \in Actors \ {a} : actor'[b] = actor[b]
    BY <2>1, <1>1, IdleIsActor DEF TypeOK
  <2>3. Lines'
    BY <2>1, <2>2, <1>1, <1>5 DEF Lines, Queued, Held
  <2> QED  BY <1>1, <1>2, <2>1, <2>2, <2>3 DEF TypeOK
<1>6. CASE actor[a].at = "waiting" /\ (a = Closer \/ ~ok)
  <2>1. /\ line' = [line EXCEPT ![w] = Tail(@)]
        /\ actor' \in {[actor EXCEPT ![a] = Idle], [actor EXCEPT ![a] = Closed]}
    BY <1>1, <1>6 DEF Answered, LeftLine
  <2>2. /\ actor' \in [Actors -> Actor]
        /\ actor'[a].at \in {"idle", "done"}
        /\ \A b \in Actors \ {a} : actor'[b] = actor[b]
    <3>1. ASSUME NEW left \in {Idle, Closed}, actor' = [actor EXCEPT ![a] = left]
          PROVE  /\ actor' \in [Actors -> Actor]
                 /\ actor'[a].at \in {"idle", "done"}
                 /\ \A b \in Actors \ {a} : actor'[b] = actor[b]
      BY <3>1, <1>1, IdleIsActor DEF TypeOK
    <3> QED  BY <2>1, <3>1
  <2>3. Held(w, a)
    BY <1>1, <1>6 DEF Lines
  <2>4. /\ line'[w] \in Seq(Actors) /\ In(line'[w]) = Queued(w) \ {a}
        /\ NoRepeats(line'[w])
        /\ \A b \in Actors : actor[b].at = "waiting" /\ actor[b].worker = w => b = a
    BY <2>1, <2>3, <1>1, HolderLeaves DEF TypeOK
  <2>5. line' \in [Workers -> Seq(Actors)] /\ \A v \in Workers \ {w} : line'[v] = line[v]
    BY <2>1, <2>4, <1>1 DEF TypeOK
  <2>6. Lines'
    <3>1. Queued(w)' = Queued(w) \ {a}  BY <2>2 DEF Queued
    <3>2. \A v \in Workers \ {w} : Queued(v)' = Queued(v)
      BY <2>2, <1>1 DEF Queued
    <3>3. \A b \in Actors : actor'[b].at = "waiting" =>
            b # a /\ actor'[b] = actor[b] /\ actor'[b].worker # w
      BY <2>2, <2>4
    <3> QED  BY <3>1, <3>2, <3>3, <2>4, <2>5, <1>1, ZenonT(40) DEF Lines, Held
  <2> QED  BY <1>2, <2>2, <2>5, <2>6
<1> QED  BY <1>3, <1>4, <1>5, <1>6

LEMMA AnsweredKeepsInvariant ==
  ASSUME IInv, NEW a \in Actors, NEW w \in Workers, WaitsOn(a, w),
         NEW ok \in BOOLEAN, Answered(a, ok),
         pending' = [pending EXCEPT ![w] = @ \ {actor[a].id}],
         UNCHANGED <<parent, process, budget, inbox, handling, nextId, ops, crashes>>,
         outbox' \in [Workers -> Seq(Reply)],
         \A v \in Workers : In(outbox'[v]) \subseteq In(outbox[v]),
         \A v \in Workers : process[v] = "unborn" => outbox'[v] = <<>>
  PROVE  IInv'
<1>1. TypeOK /\ Placed /\ Awaited /\ Numbered /\ LastToGo
  BY DEF IInv
<1>2. /\ actor' \in [Actors -> Actor] /\ line' \in [Workers -> Seq(Actors)]
      /\ killed' \subseteq Workers /\ entry' \in {entry, NoWorker}
      /\ \A b \in Actors \ {a} : actor'[b] = actor[b]
      /\ actor'[a].at \in {"idle", "done", "lined"}
      /\ actor'[a].at = "lined" => actor'[a].worker = w
      /\ Lines'
  BY AnsweredKeepsLines
<1>3. /\ pending' \in [Workers -> SUBSET Nat]
      /\ \A v \in Workers : pending'[v] = IF v = w THEN pending[w] \ {actor[a].id}
                                                   ELSE pending[v]
  BY <1>1 DEF TypeOK
<1>4. TypeOK'
  BY <1>1, <1>2, <1>3 DEF TypeOK
<1>5. Placed'
  <2>1. w \in Workers /\ process[w] # "unborn"  BY <1>1 DEF Placed, WaitsOn
  <2>2. \A b \in Actors : actor'[b].at \in {"opening", "lined", "waiting"} =>
          actor'[b].worker \in Workers /\ process[actor'[b].worker] # "unborn"
    BY <1>1, <1>2, <2>1 DEF Placed
  <2>3. \A v \in Workers : process[v] = "unborn" => pending'[v] = {}
    BY <1>1, <1>3 DEF Placed
  <2> QED  BY <1>1, <1>2, <2>2, <2>3 DEF Placed
<1>6. \A b \in Actors, v \in Workers :
        WaitsOn(b, v)' <=> WaitsOn(b, v) /\ b # a
  BY <1>2 DEF WaitsOn
<1>7. Awaited'
  <2>1. ASSUME NEW b \in Actors, NEW v \in Workers, WaitsOn(b, v)'
        PROVE  actor'[b].id \in pending'[v]
    <3>1. WaitsOn(b, v) /\ b # a /\ actor'[b] = actor[b]  BY <1>2, <1>6, <2>1
    <3>2. v = w => actor[b].id # actor[a].id  BY <3>1, <1>1 DEF Awaited
    <3>3. actor[b].id \in pending[v]  BY <3>1, <1>1 DEF Awaited
    <3> QED  BY <3>1, <3>2, <3>3, <1>3
  <2>2. ASSUME NEW v \in Workers, NEW id \in pending'[v]
        PROVE  id < nextId'[v] /\ \E b \in Actors : WaitsOn(b, v)' /\ actor'[b].id = id
    <3>1. id \in pending[v] /\ (v = w => id # actor[a].id)  BY <1>3, <2>2
    <3>2. PICK b \in Actors : WaitsOn(b, v) /\ actor[b].id = id  BY <3>1, <1>1 DEF Awaited
    <3>3. b # a  BY <3>1, <3>2 DEF WaitsOn
    <3>4. WaitsOn(b, v)' /\ actor'[b].id = id  BY <3>2, <3>3, <1>2, <1>6
    <3> QED  BY <3>1, <3>4, <1>1 DEF Awaited
  <2>3. \A v \in Workers, b, c \in Actors :
          WaitsOn(b, v)' /\ WaitsOn(c, v)' /\ actor'[b].id = actor'[c].id => b = c
    <3>1. \A b \in Actors, v \in Workers :
            WaitsOn(b, v)' => WaitsOn(b, v) /\ actor'[b] = actor[b]
      BY <1>2, <1>6
    <3> QED  BY <3>1, <1>1, ZenonT(40) DEF Awaited
  <2>4. \A b \in Actors : /\ actor'[b].at = "opening" => actor'[b].id = 1
                          /\ actor'[b].at = "waiting" => actor'[b].id >= 2
    BY <1>1, <1>2 DEF Awaited
  <2> QED  BY <2>1, <2>2, <2>3, <2>4 DEF Awaited
<1>8. Numbered' /\ LastToGo'
  BY <1>1, <1>3 DEF Numbered, LastToGo, Requests
<1> QED  BY <1>2, <1>4, <1>5, <1>7, <1>8 DEF IInv

LEMMA TimeoutKeeps ==
  ASSUME IInv, NEW a \in Actors, Timeout(a)
  PROVE  IInv'
<1>1. actor[a].worker \in Workers  BY DEF IInv, Placed, Timeout
<1>2. WaitsOn(a, actor[a].worker)  BY DEF Timeout, WaitsOn
<1>3. outbox' = outbox  BY DEF Timeout, channel
<1> QED  BY <1>1, <1>2, <1>3, AnsweredKeepsInvariant DEF Timeout, channel, IInv, TypeOK, Placed

LEMMA DeliverKeeps ==
  ASSUME IInv, NEW w \in Workers, Deliver(w)
  PROVE  IInv'
<1> DEFINE reply == Head(outbox[w])
<1>1. TypeOK  BY DEF IInv
<1>2. outbox[w] \in Seq(Reply) /\ outbox[w] # <<>>  BY <1>1 DEF TypeOK, Deliver
<1>3. reply \in Reply /\ Tail(outbox[w]) \in Seq(Reply)
      /\ In(Tail(outbox[w])) \subseteq In(outbox[w])
  BY <1>2, TailIn
<1>4. /\ outbox' \in [Workers -> Seq(Reply)]
      /\ \A v \in Workers : In(outbox'[v]) \subseteq In(outbox[v])
      /\ \A v \in Workers : process[v] = "unborn" => outbox'[v] = <<>>
  BY <1>1, <1>2, <1>3 DEF Deliver, TypeOK, IInv, Placed
<1>5. CASE reply.id \in pending[w]
  <2>1. PICK a \in Actors : actor[a].worker = w /\ actor[a].id = reply.id /\ Answered(a, reply.ok)
    BY <1>5 DEF Deliver
  <2>2. WaitsOn(a, w)  BY <2>1 DEF Answered, WaitsOn
  <2>3. reply.ok \in BOOLEAN  BY <1>3 DEF Reply
  <2>4. pending' = [pending EXCEPT ![w] = @ \ {actor[a].id}]  BY <2>1 DEF Deliver
  <2>5. UNCHANGED <<parent, process, budget, inbox, handling, nextId, ops, crashes>>
    BY DEF Deliver
  <2> HIDE DEF reply
  <2> QED  BY <2>1, <2>2, <2>3, <2>4, <2>5, <1>4, AnsweredKeepsInvariant
<1>6. CASE reply.id \notin pending[w]
  <2>1. pending' = pending /\ UNCHANGED <<entry, killed, line, actor>>
    BY <1>6, <1>1 DEF Deliver, TypeOK
  <2>2. UNCHANGED <<parent, process, budget, inbox, handling, nextId, ops, crashes>>
    BY DEF Deliver
  <2>3. TypeOK' /\ Placed'  BY <2>1, <2>2, <1>4 DEF IInv, TypeOK, Placed
  <2>4. Lines' /\ Awaited'
    BY <2>1, <2>2 DEF IInv, Lines, Queued, Held, Awaited, WaitsOn
  <2>5. Numbered' /\ LastToGo'
    BY <2>1, <2>2, <1>4 DEF IInv, Numbered, LastToGo, Requests
  <2> QED  BY <2>3, <2>4, <2>5 DEF IInv
<1> QED  BY <1>5, <1>6

\* A step that leaves the waiting operations, the pending ids and the counter
\* alone leaves what ties them together.
LEMMA SameWaiters ==
  ASSUME Awaited, pending' = pending, nextId' = nextId,
         \A b \in Actors :
           actor[b].at \in {"opening", "waiting"} \/ actor'[b].at \in {"opening", "waiting"}
             => actor'[b] = actor[b]
  PROVE  Awaited'
<1>1. \A b \in Actors, v \in Workers :
        (WaitsOn(b, v)' <=> WaitsOn(b, v)) /\ (WaitsOn(b, v) => actor'[b] = actor[b])
  BY DEF WaitsOn
<1>2. \A b \in Actors : /\ actor'[b].at = "opening" => actor'[b].id = 1
                        /\ actor'[b].at = "waiting" => actor'[b].id >= 2
  BY DEF Awaited
<1>3. \A b \in Actors, v \in Workers : WaitsOn(b, v)' => actor'[b].id \in pending'[v]
  BY <1>1 DEF Awaited
<1>4. \A v \in Workers : \A id \in pending'[v] :
        id < nextId'[v] /\ \E b \in Actors : WaitsOn(b, v)' /\ actor'[b].id = id
  BY <1>1 DEF Awaited
<1>5. ASSUME NEW v \in Workers, NEW b \in Actors, NEW c \in Actors,
             WaitsOn(b, v)', WaitsOn(c, v)', actor'[b].id = actor'[c].id
      PROVE  b = c
  <2>1. WaitsOn(b, v) /\ WaitsOn(c, v) /\ actor[b].id = actor[c].id
    BY <1>1, <1>5
  <2> QED  BY <2>1 DEF Awaited
<1> QED  BY <1>2, <1>3, <1>4, <1>5 DEF Awaited

\* An operation, or the close, that joins a line stands last in it.
LEMMA JoiningKeeps ==
  ASSUME IInv, NEW a \in Actors, NEW w \in Workers, process[w] # "unborn",
         actor[a].at = "idle",
         line' = [line EXCEPT ![w] = Append(@, a)],
         actor' = [actor EXCEPT ![a] = Lined(w, 0)],
         UNCHANGED <<parent, entry, process, killed, budget, channel, pending, nextId,
                     crashes>>,
         ops' \in Nat
  PROVE  IInv'
<1>1. TypeOK /\ Lines /\ Placed /\ Awaited  BY DEF IInv
<1>2. /\ actor' \in [Actors -> Actor] /\ actor'[a] = Lined(w, 0)
      /\ actor'[a].at = "lined" /\ actor'[a].worker = w
      /\ \A b \in Actors \ {a} : actor'[b] = actor[b]
  BY <1>1, IdleIsActor DEF TypeOK
<1>3. line'[w] = Append(line[w], a) /\ line[w] \in Seq(Actors) /\ NoRepeats(line[w])
  BY <1>1 DEF TypeOK, Lines
<1>4. a \notin In(line[w])  BY <1>1 DEF Lines, Queued
<1>5. /\ line'[w] \in Seq(Actors) /\ In(line'[w]) = In(line[w]) \cup {a}
      /\ NoRepeats(line'[w])
      /\ \A b \in Actors : Held(w, b) => Held(w, b)'
  BY <1>3, <1>4, AppendIn DEF Held
<1>6. line' \in [Workers -> Seq(Actors)] /\ \A v \in Workers \ {w} : line'[v] = line[v]
  BY <1>1, <1>5 DEF TypeOK
<1>7. TypeOK'
  BY <1>1, <1>2, <1>6 DEF TypeOK, channel
<1>8. Lines'
  BY <1>1, <1>2, <1>5, <1>6 DEF Lines, Queued, Held
<1>9. Placed'
  <2>1. \A b \in Actors : actor'[b].at \in {"opening", "lined", "waiting"} =>
          actor'[b].worker \in Workers /\ process[actor'[b].worker] # "unborn"
    BY <1>1, <1>2 DEF Placed
  <2> QED  BY <1>1, <2>1 DEF Placed, channel
<1>10. Awaited'
  BY <1>1, <1>2, SameWaiters
<1>11. Numbered' /\ LastToGo'
  BY DEF IInv, Numbered, LastToGo, Requests, channel
<1> QED  BY <1>7, <1>8, <1>9, <1>10, <1>11 DEF IInv

LEMMA JoinKeeps ==
  ASSUME IInv, NEW a \in Actors, Join(a)
  PROVE  IInv'
<1>1. entry \in Workers /\ process[entry] # "unborn"
  BY DEF IInv, TypeOK, Placed, Join
<1>2. ops' \in Nat  BY DEF IInv, TypeOK, Join, CountOp
<1> QED  BY <1>1, <1>2, JoiningKeeps DEF Join

LEMMA CloseKeeps ==
  ASSUME IInv, Close
  PROVE  IInv'
<1>1. Closer \in Actors /\ actor[Closer].at = "idle"  BY DEF Actors, Close
<1>2. CASE entry = NoWorker
  <2>1. actor' = [actor EXCEPT ![Closer] = Closed] /\ line' = line
    BY <1>2 DEF Close
  <2>2. UNCHANGED <<parent, entry, process, killed, budget, channel, pending, nextId,
                    ops, crashes>>
    BY DEF Close
  <2>3. /\ actor' \in [Actors -> Actor] /\ actor'[Closer].at = "done"
        /\ \A b \in Actors \ {Closer} : actor'[b] = actor[b]
    BY <2>1, <1>1, IdleIsActor DEF IInv, TypeOK
  <2>4. TypeOK'  BY <2>1, <2>2, <2>3 DEF IInv, TypeOK, channel
  <2>5. Lines'
    <3>1. \A v \in Workers : Queued(v)' = Queued(v)  BY <2>3, <1>1 DEF Queued
    <3> QED  BY <2>1, <2>3, <3>1 DEF IInv, Lines, Held
  <2>6. Placed'
    <3>1. \A b \in Actors : actor'[b].at \in {"opening", "lined", "waiting"} =>
            actor'[b].worker \in Workers /\ process[actor'[b].worker] # "unborn"
      BY <2>3 DEF IInv, Placed
    <3> QED  BY <2>2, <3>1 DEF IInv, Placed, channel
  <2>7. Awaited'
    BY <1>1, <2>2, <2>3, SameWaiters DEF IInv
  <2>8. Numbered' /\ LastToGo'
    BY <2>2 DEF IInv, Numbered, LastToGo, Requests, channel
  <2> QED  BY <2>4, <2>5, <2>6, <2>7, <2>8 DEF IInv
<1>3. CASE entry # NoWorker
  <2>1. entry \in Workers /\ process[entry] # "unborn"
    BY <1>3 DEF IInv, TypeOK, Placed
  <2>2. ops' \in Nat  BY DEF IInv, TypeOK, Close
  <2>3. line' = [line EXCEPT ![entry] = Append(@, Closer)]
    BY <1>3 DEF Close, JoinedLast
  <2> QED  BY <1>1, <1>3, <2>1, <2>2, <2>3, JoiningKeeps DEF Close
<1> QED  BY <1>2, <1>3

LEMMA FinishKeeps ==
  ASSUME IInv, NEW a \in Actors, Finish(a)
  PROVE  IInv'
<1>1. PICK w \in Workers : actor[a].worker = w  BY DEF IInv, Placed, Finish
<1>2. TypeOK /\ Lines /\ actor[a].at = "lined" /\ Held(w, a)
  BY <1>1 DEF IInv, Finish
<1>3. /\ line' = [line EXCEPT ![w] = Tail(@)]
      /\ actor' = [actor EXCEPT ![a] = Idle]
      /\ UNCHANGED <<parent, entry, process, killed, budget, channel, pending, nextId,
                     ops, crashes>>
  BY <1>1 DEF Finish
<1>4. /\ actor' \in [Actors -> Actor] /\ actor'[a].at = "idle"
      /\ \A b \in Actors \ {a} : actor'[b] = actor[b]
  BY <1>1, <1>2, <1>3, IdleIsActor DEF TypeOK
<1>5. /\ line'[w] \in Seq(Actors) /\ NoRepeats(line'[w])
      /\ In(line'[w]) = Queued(w) \ {a}
      /\ \A b \in Actors : actor[b].at = "waiting" /\ actor[b].worker = w => b = a
  BY <1>1, <1>2, <1>3, HolderLeaves DEF TypeOK
<1>6. line' \in [Workers -> Seq(Actors)] /\ \A v \in Workers \ {w} : line'[v] = line[v]
  BY <1>1, <1>2, <1>3, <1>5 DEF TypeOK
<1>7. TypeOK'
  BY <1>1, <1>2, <1>3, <1>4, <1>6 DEF TypeOK, channel
<1>8. Lines'
  <2>1. Queued(w)' = Queued(w) \ {a}  BY <1>1, <1>4 DEF Queued
  <2>2. \A v \in Workers \ {w} : Queued(v)' = Queued(v)
    BY <1>1, <1>4 DEF Queued
  <2>3. \A b \in Actors : actor'[b].at = "waiting" =>
          b # a /\ actor'[b] = actor[b] /\ actor'[b].worker # w
    BY <1>4, <1>5
  <2>4. ASSUME NEW v \in Workers, v # w
        PROVE  /\ NoRepeats(line'[v]) /\ In(line'[v]) = Queued(v)'
               /\ \A b \in Actors : actor'[b].at = "waiting" /\ actor'[b].worker = v =>
                    Held(v, b)'
    BY <2>2, <2>3, <2>4, <1>2, <1>6 DEF Lines, Held
  <2> QED  BY <2>1, <2>3, <2>4, <1>5 DEF Lines
<1>9. Placed'
  <2>1. \A b \in Actors : actor'[b].at \in {"opening", "lined", "waiting"} =>
          actor'[b].worker \in Workers /\ process[actor'[b].worker] # "unborn"
    BY <1>4 DEF IInv, Placed
  <2> QED  BY <1>3, <2>1 DEF IInv, Placed, channel
<1>10. Awaited'
  BY <1>1, <1>2, <1>3, <1>4, SameWaiters DEF IInv
<1>11. Numbered' /\ LastToGo'
  BY <1>3 DEF IInv, Numbered, LastToGo, Requests, channel
<1> QED  BY <1>7, <1>8, <1>9, <1>10, <1>11 DEF IInv

\* The first request of a fresh worker is its open, and the map names it.
LEMMA SpawnKeeps ==
  ASSUME IInv, NEW a \in Actors, Spawn(a)
  PROVE  IInv'
<1>1. TypeOK /\ Lines /\ Placed /\ Awaited /\ Numbered /\ LastToGo
  BY DEF IInv
<1>2. PICK w \in Workers :
        /\ process[w] = "unborn"
        /\ process' = [process EXCEPT ![w] = "alive"]
        /\ entry' = w
        /\ nextId' = [nextId EXCEPT ![w] = 2]
        /\ pending' = [pending EXCEPT ![w] = {1}]
        /\ inbox' = [inbox EXCEPT ![w] = <<[id |-> 1, kind |-> "open"]>>]
        /\ actor' = [actor EXCEPT ![a] =
                       [at |-> "opening", worker |-> w, id |-> 1, sent |-> 0]]
  BY DEF Spawn, Entered
<1>3. /\ actor[a].at = "idle" /\ ops' \in Nat
      /\ UNCHANGED <<parent, killed, budget, handling, outbox, line, crashes>>
  BY <1>1 DEF Spawn, CountOp, TypeOK
<1> DEFINE asks == [id |-> 1, kind |-> "open"]
           waits == [at |-> "opening", worker |-> w, id |-> 1, sent |-> 0]
<1>4. asks \in Request /\ waits \in Actor /\ In(<<asks>>) = {asks}
  BY DEF Request, Kinds, Actor, In
<1>5. /\ actor' \in [Actors -> Actor] /\ actor'[a] = waits
      /\ actor'[a].at = "opening" /\ actor'[a].worker = w /\ actor'[a].id = 1
      /\ \A b \in Actors \ {a} : actor'[b] = actor[b]
  BY <1>1, <1>2, <1>4 DEF TypeOK
<1>6. /\ \A v \in Workers : inbox'[v] = IF v = w THEN <<asks>> ELSE inbox[v]
      /\ \A v \in Workers : pending'[v] = IF v = w THEN {1} ELSE pending[v]
      /\ \A v \in Workers : nextId'[v] = IF v = w THEN 2 ELSE nextId[v]
      /\ \A v \in Workers : process'[v] = IF v = w THEN "alive" ELSE process[v]
      /\ inbox' \in [Workers -> Seq(Request)]
  BY <1>1, <1>2, <1>4 DEF TypeOK
<1>7. pending[w] = {} /\ handling[w] = {} /\ outbox[w] = <<>>
  BY <1>1, <1>2 DEF Placed
<1>8. \A b \in Actors : ~ WaitsOn(b, w)
  BY <1>1, <1>7 DEF Awaited
<1>9. TypeOK'
  BY <1>1, <1>2, <1>3, <1>5, <1>6 DEF TypeOK
<1>10. Lines'
  <2>1. \A v \in Workers : Queued(v)' = Queued(v)  BY <1>3, <1>5 DEF Queued
  <2>2. \A b \in Actors : actor'[b].at = "waiting" => actor'[b] = actor[b]  BY <1>5
  <2> QED  BY <2>1, <2>2, <1>1, <1>3 DEF Lines, Held
<1>11. Placed'
  <2>1. \A b \in Actors : actor'[b].at \in {"opening", "lined", "waiting"} =>
          actor'[b].worker \in Workers /\ process'[actor'[b].worker] # "unborn"
    BY <1>1, <1>5, <1>6 DEF Placed
  <2>2. \A v \in Workers : process'[v] = "unborn" =>
          /\ pending'[v] = {} /\ inbox'[v] = <<>>
          /\ handling'[v] = {} /\ outbox'[v] = <<>>
    BY <1>1, <1>3, <1>6 DEF Placed
  <2>3. \A v \in Workers : process'[v] # "unborn" => nextId'[v] >= 2
    BY <1>1, <1>6 DEF Placed
  <2> QED  BY <1>2, <1>6, <2>1, <2>2, <2>3 DEF Placed
<1>12. Awaited'
  <2>1. \A b \in Actors, v \in Workers : b # a => (WaitsOn(b, v)' <=> WaitsOn(b, v))
    BY <1>5 DEF WaitsOn
  <2>2. \A v \in Workers : (WaitsOn(a, v)' <=> v = w) /\ ~ WaitsOn(a, v)
    BY <1>3, <1>5 DEF WaitsOn
  <2>3. \A b \in Actors, v \in Workers : WaitsOn(b, v)' => actor'[b].id \in pending'[v]
    BY <2>1, <2>2, <1>1, <1>5, <1>6, <1>8 DEF Awaited
  <2>4. ASSUME NEW v \in Workers, NEW id \in pending'[v]
        PROVE  id < nextId'[v] /\ \E b \in Actors : WaitsOn(b, v)' /\ actor'[b].id = id
    <3>1. CASE v = w  BY <3>1, <2>2, <2>4, <1>5, <1>6
    <3>2. CASE v # w
      <4>1. id \in pending[v] /\ nextId'[v] = nextId[v]  BY <3>2, <2>4, <1>6
      <4>2. PICK b \in Actors : WaitsOn(b, v) /\ actor[b].id = id
        BY <4>1, <1>1 DEF Awaited
      <4>3. b # a  BY <4>2, <2>2
      <4> QED  BY <4>1, <4>2, <4>3, <2>1, <1>1, <1>5 DEF Awaited
    <3> QED  BY <3>1, <3>2
  <2>5. ASSUME NEW v \in Workers, NEW b \in Actors, NEW c \in Actors,
               WaitsOn(b, v)', WaitsOn(c, v)', actor'[b].id = actor'[c].id
        PROVE  b = c
    <3>1. CASE v = w  BY <3>1, <2>1, <2>5, <1>8
    <3>2. CASE v # w
      <4>1. b # a /\ c # a  BY <3>2, <2>2, <2>5
      <4>2. WaitsOn(b, v) /\ WaitsOn(c, v) /\ actor[b].id = actor[c].id
        BY <4>1, <2>1, <2>5, <1>5
      <4> QED  BY <4>2, <1>1 DEF Awaited
    <3> QED  BY <3>1, <3>2
  <2>6. \A b \in Actors : /\ actor'[b].at = "opening" => actor'[b].id = 1
                          /\ actor'[b].at = "waiting" => actor'[b].id >= 2
    BY <1>1, <1>5 DEF Awaited
  <2> QED  BY <2>3, <2>4, <2>5, <2>6 DEF Awaited
<1>13. /\ \A v \in Workers \ {w} : Requests(v)' = Requests(v)
       /\ Requests(w)' = {asks}
       /\ In(outbox'[w]) = {}
  BY <1>3, <1>4, <1>6, <1>7, EmptyIn DEF Requests
<1>14. Numbered'
  <2>1. ASSUME NEW v \in Workers
        PROVE  /\ \A r \in Requests(v)' : r.id < nextId'[v] /\ (r.kind = "open" <=> r.id = 1)
               /\ \A m \in In(outbox'[v]) : m.id < nextId'[v]
    <3>1. CASE v = w  BY <3>1, <1>6, <1>13
    <3>2. CASE v # w  BY <3>2, <1>1, <1>3, <1>6, <1>13 DEF Numbered
    <3> QED  BY <3>1, <3>2
  <2> QED  BY <2>1 DEF Numbered
<1>15. LastToGo'
  <2>1. ASSUME NEW v \in Workers, NEW s \in Requests(v)', NEW r \in Requests(v)',
               s.kind = "shutdown", r.kind = "call", r.id < s.id
        PROVE  r.id \notin pending'[v]
    <3>1. v # w  BY <2>1, <1>13
    <3> QED  BY <3>1, <2>1, <1>1, <1>6, <1>13 DEF LastToGo
  <2> QED  BY <2>1 DEF LastToGo
<1> QED  BY <1>9, <1>10, <1>11, <1>12, <1>14, <1>15 DEF IInv

\* The head of a line sends its next request under a fresh id. Nobody else waits
\* in that line, so a shutdown leaves with no call before it still awaited.
LEMMA SendKeeps ==
  ASSUME IInv, NEW a \in Actors, Send(a)
  PROVE  IInv'
<1>1. TypeOK /\ Lines /\ Placed /\ Awaited /\ Numbered /\ LastToGo
  BY DEF IInv
<1>2. PICK w \in Workers : actor[a].worker = w  BY <1>1 DEF Placed, Send
<1>3. PICK n \in Nat : n = nextId[w]  BY <1>1 DEF TypeOK
<1>4. process[w] # "unborn" /\ n >= 2  BY <1>1, <1>2, <1>3 DEF Placed, Send
<1> DEFINE asks == [id |-> n, kind |-> KindOf(a)]
           waits == [at |-> "waiting", worker |-> w, id |-> n, sent |-> actor[a].sent + 1]
<1>5. /\ actor[a].at = "lined" /\ Held(w, a)
      /\ actor' = [actor EXCEPT ![a] = waits]
      /\ nextId' = [nextId EXCEPT ![w] = n + 1]
      /\ pending' = [pending EXCEPT ![w] = @ \cup {n}]
      /\ inbox' \in {inbox, [inbox EXCEPT ![w] = Append(@, asks)]}
      /\ parent' \in {"up", "down"}
      /\ UNCHANGED <<entry, process, killed, budget, handling, outbox, line, ops, crashes>>
  BY <1>1, <1>2, <1>3 DEF Send, MaySend, Sent, TypeOK
<1>6. /\ asks \in Request /\ asks.kind # "open" /\ waits \in Actor
  BY <1>1, <1>3 DEF KindOf, Request, Kinds, Actor, TypeOK
<1>7. /\ actor' \in [Actors -> Actor] /\ actor'[a] = waits
      /\ actor'[a].at = "waiting" /\ actor'[a].worker = w /\ actor'[a].id = n
      /\ \A b \in Actors \ {a} : actor'[b] = actor[b]
  BY <1>1, <1>5, <1>6 DEF TypeOK
<1>8. /\ \A v \in Workers : nextId'[v] = IF v = w THEN n + 1 ELSE nextId[v]
      /\ \A v \in Workers : pending'[v] = IF v = w THEN pending[w] \cup {n} ELSE pending[v]
  BY <1>1, <1>5 DEF TypeOK
<1>9. /\ inbox' \in [Workers -> Seq(Request)]
      /\ Requests(w)' \subseteq Requests(w) \cup {asks}
      /\ \A v \in Workers \ {w} : inbox'[v] = inbox[v] /\ Requests(v)' = Requests(v)
  <2>1. CASE inbox' = inbox  BY <2>1, <1>1, <1>5 DEF TypeOK, Requests
  <2>2. CASE inbox' = [inbox EXCEPT ![w] = Append(@, asks)]
    <3>1. inbox[w] \in Seq(Request)  BY <1>1 DEF TypeOK
    <3>2. inbox'[w] = Append(inbox[w], asks)  BY <2>2, <1>1 DEF TypeOK
    <3>3. inbox'[w] \in Seq(Request) /\ In(inbox'[w]) = In(inbox[w]) \cup {asks}
      BY <3>1, <3>2, <1>6, AppendIn
    <3> HIDE DEF asks
    <3> QED  BY <2>2, <3>3, <1>1, <1>5 DEF TypeOK, Requests
  <2> QED  BY <2>1, <2>2, <1>5
<1> HIDE DEF asks, waits
<1>10. TypeOK'
  <2>1. nextId' \in [Workers -> Nat]  BY <1>1, <1>3, <1>5 DEF TypeOK
  <2>2. pending' \in [Workers -> SUBSET Nat]
    <3>1. pending[w] \cup {n} \in SUBSET Nat  BY <1>1, <1>3 DEF TypeOK
    <3> QED  BY <3>1, <1>1, <1>5 DEF TypeOK
  <2> QED  BY <2>1, <2>2, <1>1, <1>5, <1>7, <1>9 DEF TypeOK
<1>11. \A b \in Actors : actor[b].at = "waiting" => actor[b].worker # w
  BY <1>1, <1>5, HolderLeaves
<1>12. Lines'
  <2>1. \A v \in Workers : Queued(v)' = Queued(v)
    BY <1>2, <1>5, <1>7 DEF Queued
  <2>2. \A b \in Actors : actor'[b].at = "waiting" => b = a \/ actor'[b] = actor[b]
    BY <1>7
  <2>3. \A v \in Workers, b \in Actors : Held(v, b)' <=> Held(v, b)
    BY <1>5 DEF Held
  <2> QED  BY <2>1, <2>2, <2>3, <1>1, <1>5, <1>7 DEF Lines
<1>13. Placed'
  <2>1. \A b \in Actors : actor'[b].at \in {"opening", "lined", "waiting"} =>
          actor'[b].worker \in Workers /\ process[actor'[b].worker] # "unborn"
    BY <1>1, <1>4, <1>7 DEF Placed
  <2>2. \A v \in Workers : process[v] = "unborn" => v # w  BY <1>4
  <2>3. \A v \in Workers : process[v] # "unborn" => nextId'[v] >= 2
    BY <1>1, <1>4, <1>8 DEF Placed
  <2> QED  BY <2>1, <2>2, <2>3, <1>1, <1>5, <1>8, <1>9 DEF Placed
<1>14. Awaited'
  <2>1. \A b \in Actors, v \in Workers : b # a => (WaitsOn(b, v)' <=> WaitsOn(b, v))
    BY <1>7 DEF WaitsOn
  <2>2. \A v \in Workers : (WaitsOn(a, v)' <=> v = w) /\ ~ WaitsOn(a, v)
    BY <1>5, <1>7 DEF WaitsOn
  <2>3. n \notin pending[w]
    BY <1>1, <1>3 DEF Awaited
  <2>4. \A b \in Actors, v \in Workers : WaitsOn(b, v)' => actor'[b].id \in pending'[v]
    BY <2>1, <2>2, <1>1, <1>7, <1>8 DEF Awaited
  <2>5. ASSUME NEW v \in Workers, NEW id \in pending'[v]
        PROVE  id < nextId'[v] /\ \E b \in Actors : WaitsOn(b, v)' /\ actor'[b].id = id
    <3>1. CASE v = w /\ id = n  BY <3>1, <2>2, <1>7, <1>8
    <3>2. CASE ~(v = w /\ id = n)
      <4>1. id \in pending[v] /\ pending[v] \subseteq Nat /\ nextId[v] \in Nat
        BY <3>2, <2>5, <1>1, <1>8 DEF TypeOK
      <4>2. id < nextId[v] /\ \E b \in Actors : WaitsOn(b, v) /\ actor[b].id = id
        BY <4>1, <1>1 DEF Awaited
      <4>3. PICK b \in Actors : WaitsOn(b, v) /\ actor[b].id = id
        BY <4>2
      <4>4. b # a  BY <4>3, <2>2
      <4>5. id < nextId'[v]  BY <4>1, <4>2, <1>3, <1>8
      <4> QED  BY <4>3, <4>4, <4>5, <2>1, <1>7
    <3> QED  BY <3>1, <3>2
  <2>6. ASSUME NEW v \in Workers, NEW b \in Actors, NEW c \in Actors,
               WaitsOn(b, v)', WaitsOn(c, v)', actor'[b].id = actor'[c].id
        PROVE  b = c
    <3>1. CASE b # a /\ c # a
      <4>1. WaitsOn(b, v) /\ WaitsOn(c, v) /\ actor[b].id = actor[c].id
        BY <3>1, <2>1, <2>6, <1>7
      <4> QED  BY <4>1, <1>1 DEF Awaited
    <3>2. CASE b = a /\ c # a
      <4>1. v = w /\ WaitsOn(c, w) /\ actor[c].id = n  BY <3>2, <2>1, <2>2, <2>6, <1>7
      <4> QED  BY <4>1, <2>3, <1>1 DEF Awaited
    <3>3. CASE b # a /\ c = a
      <4>1. v = w /\ WaitsOn(b, w) /\ actor[b].id = n  BY <3>3, <2>1, <2>2, <2>6, <1>7
      <4> QED  BY <4>1, <2>3, <1>1 DEF Awaited
    <3> QED  BY <3>1, <3>2, <3>3
  <2>7. \A b \in Actors : /\ actor'[b].at = "opening" => actor'[b].id = 1
                          /\ actor'[b].at = "waiting" => actor'[b].id >= 2
    BY <1>1, <1>4, <1>7 DEF Awaited
  <2> QED  BY <2>4, <2>5, <2>6, <2>7 DEF Awaited
<1>15. Numbered'
  <2>1. ASSUME NEW v \in Workers
        PROVE  /\ \A r \in Requests(v)' : r.id < nextId'[v] /\ (r.kind = "open" <=> r.id = 1)
               /\ \A m \in In(outbox'[v]) : m.id < nextId'[v]
    <3>1. CASE v # w  BY <3>1, <1>1, <1>5, <1>8, <1>9 DEF Numbered
    <3>2. CASE v = w
      <4>1. \A r \in Requests(w) : r.id \in Nat /\ r.id < n + 1
        <5>1. Requests(w) \subseteq Request  BY <1>1, MessagesTyped
        <5> QED  BY <5>1, <1>1, <1>3 DEF Numbered, Request
      <4>2. \A m \in In(outbox[w]) : m.id < n + 1
        <5>1. \A m \in In(outbox[w]) : m.id \in Nat  BY <1>1, MessagesTyped DEF Reply
        <5> QED  BY <5>1, <1>1, <1>3 DEF Numbered
      <4>3. asks.id < n + 1 /\ (asks.kind = "open" <=> asks.id = 1)
        BY <1>4, <1>6 DEF asks
      <4> QED  BY <3>2, <4>1, <4>2, <4>3, <1>1, <1>5, <1>8, <1>9 DEF Numbered
    <3> QED  BY <3>1, <3>2
  <2> QED  BY <2>1 DEF Numbered
<1>16. LastToGo'
  <2>1. ASSUME NEW v \in Workers, NEW s \in Requests(v)', NEW r \in Requests(v)',
               s.kind = "shutdown", r.kind = "call", r.id < s.id
        PROVE  r.id \notin pending'[v]
    <3>1. CASE v # w  BY <3>1, <2>1, <1>1, <1>8, <1>9 DEF LastToGo
    <3>2. CASE v = w
      <4>1. \A q \in Requests(w) : q.id < n  BY <1>1, <1>3 DEF Numbered
      <4>2. Requests(w) \subseteq Request  BY <1>1, MessagesTyped
      <4>3. asks.id = n  BY DEF asks
      <4>4. r \in Requests(w) /\ r.id \in Nat /\ r.id < n
        <5>1. r \in Requests(w)  BY <3>2, <4>1, <4>2, <4>3, <2>1, <1>3, <1>9 DEF Request
        <5> QED  BY <5>1, <4>1, <4>2 DEF Request
      <4>5. CASE s \in Requests(w)
        BY <3>2, <4>4, <4>5, <2>1, <1>1, <1>8 DEF LastToGo
      <4>6. CASE s = asks
        <5>1. r.id \notin pending[w]
          <6> SUFFICES ASSUME r.id \in pending[w]  PROVE FALSE  OBVIOUS
          <6>1. PICK b \in Actors : WaitsOn(b, w) /\ actor[b].id = r.id
            BY <1>1 DEF Awaited
          <6>2. actor[b].at = "opening"  BY <6>1, <1>11 DEF WaitsOn
          <6>3. r.id = 1  BY <6>1, <6>2, <1>1 DEF Awaited
          <6> QED  BY <6>3, <4>4, <2>1, <1>1 DEF Numbered
        <5> QED  BY <5>1, <3>2, <4>4, <1>8
      <4> QED  BY <4>5, <4>6, <3>2, <2>1, <1>9
    <3> QED  BY <3>1, <3>2
  <2> QED  BY <2>1 DEF LastToGo
<1> QED  BY <1>10, <1>12, <1>13, <1>14, <1>15, <1>16 DEF IInv

\* The exit event answers everybody who waits on the worker, in one step.
LEMMA ExitedKeeps ==
  ASSUME IInv, NEW w \in Workers, Exited(w)
  PROVE  IInv'
<1>1. TypeOK /\ Lines /\ Placed /\ Awaited /\ Numbered /\ LastToGo
  BY DEF IInv
<1>2. /\ process[w] = "dead" /\ process' = [process EXCEPT ![w] = "gone"]
      /\ entry' = NoWorker
      /\ pending' = [pending EXCEPT ![w] = {}]
      /\ outbox' = [outbox EXCEPT ![w] = <<>>]
      /\ UNCHANGED <<parent, killed, budget, inbox, handling, nextId, ops, crashes>>
  BY DEF Exited, EntryAfterExit
<1>3. /\ \A b \in Actors : actor'[b] = IF WaitsOn(b, w) THEN Over(b) ELSE actor[b]
      /\ actor' \in [Actors -> Actor]
      /\ \A b \in Actors : WaitsOn(b, w) => actor'[b].at \in {"idle", "done"}
  BY <1>1, IdleIsActor DEF Exited, Refused, TypeOK
<1>4. /\ line' \in [Workers -> Seq(Actors)]
      /\ \A v \in Workers \ {w} : line'[v] = line[v]
      /\ NoRepeats(line'[w])
      /\ In(line'[w]) = {b \in Queued(w) : actor[b].at # "waiting"}
  <2>1. CASE \E a \in Actors : WaitsOn(a, w) /\ Held(w, a)
    <3>1. PICK a \in Actors : WaitsOn(a, w) /\ Held(w, a)  BY <2>1
    <3>2. line' = [line EXCEPT ![w] = Tail(@)]
      BY <2>1 DEF Exited, Refused, LeftLine
    <3>3. /\ Tail(line[w]) \in Seq(Actors) /\ NoRepeats(Tail(line[w]))
          /\ In(Tail(line[w])) = Queued(w) \ {a} /\ a \in Queued(w)
          /\ \A b \in Actors : actor[b].at = "waiting" /\ actor[b].worker = w => b = a
      BY <3>1, <1>1, HolderLeaves
    <3>4. actor[a].at = "waiting"  BY <3>1, <3>3 DEF WaitsOn, Queued
    <3>5. Queued(w) \ {a} = {b \in Queued(w) : actor[b].at # "waiting"}
      BY <3>3, <3>4 DEF Queued
    <3> QED  BY <3>2, <3>3, <3>5, <1>1 DEF TypeOK
  <2>2. CASE ~ \E a \in Actors : WaitsOn(a, w) /\ Held(w, a)
    <3>1. line' = line
      BY <2>2, <1>1 DEF Exited, Refused, TypeOK
    <3>2. \A b \in Queued(w) : actor[b].at # "waiting"
      BY <2>2, <1>1 DEF Lines, Queued, WaitsOn
    <3> QED  BY <3>1, <3>2, <1>1 DEF Lines, TypeOK
  <2> QED  BY <2>1, <2>2
<1>5. /\ pending' \in [Workers -> SUBSET Nat] /\ outbox' \in [Workers -> Seq(Reply)]
      /\ process' \in [Workers -> {"unborn", "alive", "dead", "gone"}]
      /\ \A v \in Workers : pending'[v] = IF v = w THEN {} ELSE pending[v]
      /\ \A v \in Workers : outbox'[v] = IF v = w THEN <<>> ELSE outbox[v]
      /\ \A v \in Workers : process'[v] = IF v = w THEN "gone" ELSE process[v]
  BY <1>1, <1>2 DEF TypeOK
<1>6. TypeOK'
  BY <1>1, <1>2, <1>3, <1>4, <1>5 DEF TypeOK
<1>7. Lines'
  <2>1. Queued(w)' = {b \in Queued(w) : actor[b].at # "waiting"}
    BY <1>3 DEF Queued, WaitsOn
  <2>2. \A v \in Workers \ {w} : Queued(v)' = Queued(v)
    <3> SUFFICES ASSUME NEW v \in Workers \ {w}, NEW b \in Actors
                 PROVE  b \in Queued(v)' <=> b \in Queued(v)
      BY DEF Queued
    <3>1. CASE WaitsOn(b, w)  BY <3>1, <1>3 DEF Queued, WaitsOn
    <3>2. CASE ~ WaitsOn(b, w)  BY <3>2, <1>3 DEF Queued
    <3> QED  BY <3>1, <3>2
  <2>3. \A b \in Actors : actor'[b].at = "waiting" =>
          actor'[b] = actor[b] /\ actor'[b].worker # w
    BY <1>3 DEF WaitsOn
  <2>4. ASSUME NEW v \in Workers, v # w
        PROVE  /\ NoRepeats(line'[v]) /\ In(line'[v]) = Queued(v)'
               /\ \A b \in Actors : actor'[b].at = "waiting" /\ actor'[b].worker = v =>
                    Held(v, b)'
    BY <2>2, <2>3, <2>4, <1>1, <1>4 DEF Lines, Held
  <2> QED  BY <2>1, <2>3, <2>4, <1>4 DEF Lines
<1>8. Placed'
  <2>1. \A b \in Actors : actor'[b].at \in {"opening", "lined", "waiting"} =>
          actor'[b].worker \in Workers /\ process'[actor'[b].worker] # "unborn"
    <3>1. \A b \in Actors : actor'[b].at \in {"opening", "lined", "waiting"} =>
            actor'[b] = actor[b]
      BY <1>3
    <3> QED  BY <3>1, <1>1, <1>5 DEF Placed
  <2>2. \A v \in Workers : process'[v] = "unborn" => process[v] = "unborn"
    BY <1>5
  <2>3. \A v \in Workers : process'[v] # "unborn" => process[v] # "unborn"
    BY <1>2, <1>5
  <2> QED  BY <2>1, <2>2, <2>3, <1>1, <1>2, <1>5 DEF Placed
<1>9. Awaited'
  <2>1. \A b \in Actors, v \in Workers :
          WaitsOn(b, v)' <=> WaitsOn(b, v) /\ v # w
    <3> SUFFICES ASSUME NEW b \in Actors, NEW v \in Workers
                 PROVE  WaitsOn(b, v)' <=> WaitsOn(b, v) /\ v # w
      OBVIOUS
    <3>1. CASE WaitsOn(b, w)  BY <3>1, <1>3 DEF WaitsOn
    <3>2. CASE ~ WaitsOn(b, w)  BY <3>2, <1>3 DEF WaitsOn
    <3> QED  BY <3>1, <3>2
  <2>2. \A b \in Actors, v \in Workers : WaitsOn(b, v)' => actor'[b] = actor[b]
    BY <1>3 DEF WaitsOn
  <2>3. \A b \in Actors, v \in Workers : WaitsOn(b, v)' => actor'[b].id \in pending'[v]
    BY <2>1, <2>2, <1>1, <1>5 DEF Awaited
  <2>4. ASSUME NEW v \in Workers, NEW id \in pending'[v]
        PROVE  id < nextId'[v] /\ \E b \in Actors : WaitsOn(b, v)' /\ actor'[b].id = id
    <3>1. v # w /\ id \in pending[v]  BY <2>4, <1>5
    <3>2. PICK b \in Actors : WaitsOn(b, v) /\ actor[b].id = id  BY <3>1, <1>1 DEF Awaited
    <3>3. WaitsOn(b, v)'  BY <3>1, <3>2, <2>1
    <3> QED  BY <3>1, <3>2, <3>3, <2>2, <1>1, <1>2 DEF Awaited
  <2>5. ASSUME NEW v \in Workers, NEW b \in Actors, NEW c \in Actors,
               WaitsOn(b, v)', WaitsOn(c, v)', actor'[b].id = actor'[c].id
        PROVE  b = c
    <3>1. WaitsOn(b, v) /\ WaitsOn(c, v) /\ actor[b].id = actor[c].id
      BY <2>1, <2>2, <2>5
    <3> QED  BY <3>1, <1>1 DEF Awaited
  <2>6. \A b \in Actors : /\ actor'[b].at = "opening" => actor'[b].id = 1
                          /\ actor'[b].at = "waiting" => actor'[b].id >= 2
    BY <1>1, <1>3 DEF Awaited
  <2> QED  BY <2>3, <2>4, <2>5, <2>6 DEF Awaited
<1>10. \A v \in Workers : Requests(v)' = Requests(v) /\ In(outbox'[v]) \subseteq In(outbox[v])
  BY <1>2, <1>5, EmptyIn DEF Requests
<1>11. Numbered'
  BY <1>1, <1>2, <1>10 DEF Numbered
<1>12. LastToGo'
  BY <1>1, <1>5, <1>10 DEF LastToGo
<1> QED  BY <1>6, <1>7, <1>8, <1>9, <1>11, <1>12 DEF IInv

\* A step of a worker, or its death, touches nothing the parent keeps: requests
\* only go forward or are lost, and a reply carries the id of its request.
Quiet == UNCHANGED <<parent, entry, killed, pending, nextId, line, actor, ops>>

LEMMA DyingLoses ==
  ASSUME IInv, NEW w \in Workers, Dead(w)
  PROVE  /\ process' \in [Workers -> {"unborn", "alive", "dead", "gone"}]
         /\ inbox' \in [Workers -> Seq(Request)] /\ handling' \in [Workers -> SUBSET Request]
         /\ budget' \in [Workers -> {"closed", "opening", "open"}]
         /\ process'[w] = "dead"
         /\ \A v \in Workers \ {w} : /\ process'[v] = process[v]
                                     /\ inbox'[v] = inbox[v] /\ handling'[v] = handling[v]
         /\ Requests(w)' = {}
<1>1. TypeOK  BY DEF IInv
<1>2. /\ process' = [process EXCEPT ![w] = "dead"] /\ inbox' = [inbox EXCEPT ![w] = <<>>]
      /\ handling' = [handling EXCEPT ![w] = {}] /\ budget' = [budget EXCEPT ![w] = "closed"]
  BY DEF Dead
<1>3. inbox'[w] = <<>> /\ handling'[w] = {}  BY <1>1, <1>2 DEF TypeOK
<1> QED  BY <1>1, <1>2, <1>3, EmptyIn DEF TypeOK, Requests

LEMMA ReplyingAdds ==
  ASSUME IInv, NEW w \in Workers, NEW request, NEW ok \in BOOLEAN, Replies(w, request, ok)
  PROVE  /\ process[w] = "alive" /\ request \in handling[w]
         /\ outbox' \in [Workers -> Seq(Reply)]
         /\ \A v \in Workers \ {w} : outbox'[v] = outbox[v]
         /\ In(outbox'[w]) = In(outbox[w]) \cup {ReplyTo(request, ok)}
<1>1. TypeOK  BY DEF IInv
<1>2. /\ process[w] = "alive" /\ request \in handling[w]
      /\ outbox' = [outbox EXCEPT ![w] = Append(@, ReplyTo(request, ok))]
  BY DEF Replies, Running
<1>3. ReplyTo(request, ok) \in Reply /\ outbox[w] \in Seq(Reply)
  BY <1>1, <1>2 DEF TypeOK, Request, Reply, ReplyTo
<1>4. /\ Append(outbox[w], ReplyTo(request, ok)) \in Seq(Reply)
      /\ In(Append(outbox[w], ReplyTo(request, ok))) = In(outbox[w]) \cup {ReplyTo(request, ok)}
  BY <1>3, AppendIn
<1> QED  BY <1>1, <1>2, <1>4 DEF TypeOK

LEMMA WorkerSteps ==
  ASSUME IInv, NEW w \in Workers,
         Receive(w) \/ EndsOne(w) \/ Killed(w) \/ Crash(w)
  PROVE  /\ TypeOK' /\ Quiet
         /\ process[w] = "alive" /\ process'[w] \in {"alive", "dead"}
         /\ \A v \in Workers \ {w} :
              /\ process'[v] = process[v] /\ inbox'[v] = inbox[v]
              /\ handling'[v] = handling[v] /\ outbox'[v] = outbox[v]
         /\ Requests(w)' \subseteq Requests(w)
         /\ \A m \in In(outbox'[w]) : m \in In(outbox[w]) \/
              \E r \in handling[w], ok \in BOOLEAN :
                /\ m = ReplyTo(r, ok)
                /\ r.kind = "open" => ok \/ OpenMayFail
<1>1. TypeOK  BY DEF IInv
<1>2. CASE Receive(w)
  <2> DEFINE request == Head(inbox[w])
  <2>1. /\ process[w] = "alive" /\ Quiet /\ UNCHANGED <<process, outbox, crashes>>
        /\ inbox[w] # <<>> /\ inbox' = [inbox EXCEPT ![w] = Tail(@)]
        /\ handling' = [handling EXCEPT ![w] = @ \cup {request}]
        /\ budget' \in [Workers -> {"closed", "opening", "open"}]
    BY <1>1, <1>2 DEF Receive, Running, Quiet, TypeOK
  <2>2. inbox[w] \in Seq(Request)  BY <1>1 DEF TypeOK
  <2>3. /\ Tail(inbox[w]) \in Seq(Request) /\ request \in Request
        /\ In(inbox[w]) = In(Tail(inbox[w])) \cup {request}
    BY <2>1, <2>2, TailIn
  <2> HIDE DEF request
  <2>4. inbox'[w] = Tail(inbox[w]) /\ handling'[w] = handling[w] \cup {request}
    BY <2>1, <1>1 DEF TypeOK
  <2>5. /\ inbox' \in [Workers -> Seq(Request)] /\ handling' \in [Workers -> SUBSET Request]
        /\ \A v \in Workers \ {w} : inbox'[v] = inbox[v] /\ handling'[v] = handling[v]
    <3>1. handling[w] \cup {request} \in SUBSET Request  BY <2>3, <1>1 DEF TypeOK
    <3> QED  BY <2>1, <2>3, <3>1, <1>1 DEF TypeOK
  <2>6. TypeOK'  BY <1>1, <2>1, <2>5 DEF TypeOK, Quiet
  <2>7. Requests(w)' = Requests(w)  BY <2>3, <2>4 DEF Requests
  <2> QED  BY <2>1, <2>5, <2>6, <2>7
<1>3. ASSUME NEW request \in handling[w], NEW ok \in BOOLEAN,
             EndOpen(w, request, ok) \/ EndCall(w, request, ok)
      PROVE  /\ TypeOK' /\ Quiet
             /\ process[w] = "alive" /\ UNCHANGED process
             /\ \A v \in Workers \ {w} :
                  /\ inbox'[v] = inbox[v]
                  /\ handling'[v] = handling[v] /\ outbox'[v] = outbox[v]
             /\ Requests(w)' \subseteq Requests(w)
             /\ In(outbox'[w]) = In(outbox[w]) \cup {ReplyTo(request, ok)}
             /\ request.kind = "open" => ok \/ OpenMayFail
  <2>1. /\ Replies(w, request, ok) /\ Quiet /\ UNCHANGED <<process, inbox, crashes>>
        /\ handling' = [handling EXCEPT ![w] = @ \ {request}]
        /\ request.kind = "open" => ok \/ OpenMayFail
    BY <1>3 DEF EndOpen, EndCall, Quiet
  <2>2. budget' \in [Workers -> {"closed", "opening", "open"}]
    BY <1>1, <1>3 DEF EndOpen, EndCall, TypeOK
  <2>3. /\ process[w] = "alive" /\ outbox' \in [Workers -> Seq(Reply)]
        /\ \A v \in Workers \ {w} : outbox'[v] = outbox[v]
        /\ In(outbox'[w]) = In(outbox[w]) \cup {ReplyTo(request, ok)}
    BY <2>1, ReplyingAdds, SMTT(30)
  <2>4. /\ handling' \in [Workers -> SUBSET Request] /\ handling'[w] \subseteq handling[w]
        /\ \A v \in Workers \ {w} : handling'[v] = handling[v]
    BY <2>1, <1>1 DEF TypeOK
  <2>5. TypeOK'  BY <1>1, <2>1, <2>2, <2>3, <2>4 DEF TypeOK, Quiet
  <2>6. Requests(w)' \subseteq Requests(w)  BY <2>1, <2>4 DEF Requests
  <2> QED  BY <2>1, <2>3, <2>4, <2>5, <2>6
<1>4. ASSUME NEW request \in handling[w], NEW ok \in BOOLEAN, EndShutdown(w, request, ok)
      PROVE  /\ TypeOK' /\ Quiet
             /\ process[w] = "alive" /\ process'[w] = "dead"
             /\ \A v \in Workers \ {w} :
                  /\ process'[v] = process[v] /\ inbox'[v] = inbox[v]
                  /\ handling'[v] = handling[v] /\ outbox'[v] = outbox[v]
             /\ Requests(w)' \subseteq Requests(w)
             /\ In(outbox'[w]) = In(outbox[w]) \cup {ReplyTo(request, ok)}
             /\ request.kind # "open"
  <2>1. /\ Replies(w, request, ok) /\ Dead(w) /\ Quiet /\ UNCHANGED crashes
        /\ request.kind = "shutdown"
    BY <1>4 DEF EndShutdown, Quiet
  <2>2. /\ process[w] = "alive" /\ outbox' \in [Workers -> Seq(Reply)]
        /\ \A v \in Workers \ {w} : outbox'[v] = outbox[v]
        /\ In(outbox'[w]) = In(outbox[w]) \cup {ReplyTo(request, ok)}
    BY <2>1, ReplyingAdds, ZenonT(40)
  <2>3. TypeOK'  BY <1>1, <2>1, <2>2, DyingLoses DEF TypeOK, Quiet
  <2> QED  BY <2>1, <2>2, <2>3, DyingLoses
<1>5. CASE Killed(w) \/ Crash(w)
  <2>1. /\ Dead(w) /\ Quiet /\ UNCHANGED outbox /\ process[w] = "alive" /\ crashes' \in Nat
    BY <1>1, <1>5 DEF Killed, Crash, Running, Quiet, TypeOK
  <2>2. TypeOK'  BY <1>1, <2>1, DyingLoses DEF TypeOK, Quiet
  <2> QED  BY <2>1, <2>2, DyingLoses
<1> QED  BY <1>2, <1>3, <1>4, <1>5 DEF EndsOne

LEMMA WorkerKeeps ==
  ASSUME IInv, NEW w \in Workers,
         Receive(w) \/ EndsOne(w) \/ Killed(w) \/ Crash(w)
  PROVE  IInv'
<1>1. /\ TypeOK' /\ Quiet
      /\ process[w] = "alive" /\ process'[w] \in {"alive", "dead"}
      /\ \A v \in Workers \ {w} :
           /\ process'[v] = process[v] /\ inbox'[v] = inbox[v]
           /\ handling'[v] = handling[v] /\ outbox'[v] = outbox[v]
      /\ Requests(w)' \subseteq Requests(w)
      /\ \A m \in In(outbox'[w]) : m \in In(outbox[w]) \/
           \E r \in handling[w] : m.id = r.id
  <2>1. \A r, ok : ReplyTo(r, ok).id = r.id  BY DEF ReplyTo
  <2> QED  BY <2>1, WorkerSteps
<1>2. Lines'
  BY <1>1 DEF IInv, Lines, Queued, Held, Quiet
<1>3. Placed'
  <2>1. \A v \in Workers : process'[v] = "unborn" <=> process[v] = "unborn"  BY <1>1
  <2>2. \A v \in Workers : process'[v] = "unborn" => v # w  BY <1>1
  <2> QED  BY <1>1, <2>1, <2>2 DEF IInv, Placed, Quiet, TypeOK
<1>4. Awaited'
  BY <1>1, SameWaiters DEF IInv, Quiet
<1>5. \A v \in Workers : Requests(v)' \subseteq Requests(v)
  BY <1>1 DEF Requests
<1>6. Numbered'
  <2>1. \A v \in Workers : \A r \in Requests(v)' : r.id < nextId'[v] /\ (r.kind = "open" <=> r.id = 1)
    BY <1>1, <1>5 DEF IInv, Numbered, Quiet
  <2>2. ASSUME NEW v \in Workers, NEW m \in In(outbox'[v])  PROVE m.id < nextId'[v]
    <3>1. m \in In(outbox[v]) \/ \E r \in Requests(v) : m.id = r.id
      BY <1>1, <2>2 DEF Requests
    <3> QED  BY <3>1, <1>1 DEF IInv, Numbered, Quiet
  <2> QED  BY <2>1, <2>2 DEF Numbered
<1>7. LastToGo'
  BY <1>1, <1>5 DEF IInv, LastToGo, Quiet
<1> QED  BY <1>1, <1>2, <1>3, <1>4, <1>6, <1>7 DEF IInv

LEMMA StepKeepsInvariant == IInv /\ [Next]_vars => IInv'
<1> SUFFICES ASSUME IInv, [Next]_vars PROVE IInv'  OBVIOUS
<1>1. ASSUME NEW a \in Callers, Join(a) \/ Spawn(a)  PROVE IInv'
  BY <1>1, JoinKeeps, SpawnKeeps DEF Actors
<1>2. ASSUME NEW a \in Actors, Send(a) \/ Finish(a) \/ Timeout(a)  PROVE IInv'
  BY <1>2, SendKeeps, FinishKeeps, TimeoutKeeps
<1>3. ASSUME NEW w \in Workers,
             Deliver(w) \/ Exited(w) \/ Receive(w) \/ EndsOne(w) \/ Killed(w) \/ Crash(w)
      PROVE  IInv'
  BY <1>3, DeliverKeeps, ExitedKeeps, WorkerKeeps
<1>4. CASE UNCHANGED vars
  BY <1>4 DEF vars, channel, IInv, TypeOK, Lines, Queued, Held, Placed, Awaited, WaitsOn,
              Numbered, LastToGo, Requests
<1> QED  BY <1>1, <1>2, <1>3, <1>4, CloseKeeps DEF Next

\* The inductive invariant: the line of each worker is its waiting operations, the
\* pending ids are their requests, and what travels carries an id given out.
THEOREM Invariant == Spec => []IInv
BY InitInvariant, StepKeepsInvariant, PTL DEF Spec

\* The map entry, the lines, the pending ids and the messages keep their types.
THEOREM TypeCorrect == Spec => []TypeOK
<1>1. IInv => TypeOK  BY DEF IInv
<1> QED  BY <1>1, Invariant, PTL

LEMMA WaitsAreKept == IInv => EveryWaitIsPending
<1> SUFFICES ASSUME IInv PROVE EveryWaitIsPending  OBVIOUS
<1>1. ASSUME NEW w \in Workers, NEW id \in pending[w]
      PROVE  Cardinality({a \in Actors : WaitsOn(a, w) /\ actor[a].id = id}) = 1
  <2>1. PICK b \in Actors : WaitsOn(b, w) /\ actor[b].id = id  BY DEF IInv, Awaited
  <2>2. {a \in Actors : WaitsOn(a, w) /\ actor[a].id = id} = {b}
    <3>1. \A a \in Actors : WaitsOn(a, w) /\ actor[a].id = id => a = b
      BY <2>1 DEF IInv, Awaited
    <3> QED  BY <2>1, <3>1
  <2> QED  BY <2>2, FS_Singleton
<1> QED  BY <1>1 DEF EveryWaitIsPending, IInv, Awaited

LEMMA LinesAreKept == IInv => LineIsKept
<1> SUFFICES ASSUME IInv, NEW w \in Workers, NEW a \in Actors
             PROVE  /\ Cardinality({i \in 1 .. Len(line[w]) : line[w][i] = a}) =
                         (IF actor[a].worker = w /\ actor[a].at \in {"lined", "waiting"} THEN 1 ELSE 0)
                    /\ actor[a].at = "waiting" /\ actor[a].worker = w => Held(w, a)
  BY DEF LineIsKept
<1> DEFINE places == {i \in 1 .. Len(line[w]) : line[w][i] = a}
<1>1. a \in In(line[w]) <=> a \in Queued(w)  BY DEF IInv, Lines
<1>2. CASE a \in Queued(w)
  <2>1. PICK i \in 1 .. Len(line[w]) : line[w][i] = a  BY <1>1, <1>2 DEF In
  <2>2. \A j \in 1 .. Len(line[w]) : line[w][j] = a => j = i
    BY <2>1 DEF IInv, Lines, NoRepeats
  <2>3. places = {i}  BY <2>1, <2>2
  <2>4. Cardinality(places) = 1  BY <2>3, FS_Singleton
  <2> QED  BY <2>4, <1>2 DEF Queued, IInv, Lines
<1>3. CASE a \notin Queued(w)
  <2>1. places = {}  BY <1>1, <1>3 DEF In
  <2>2. Cardinality(places) = 0  BY <2>1, FS_EmptySet
  <2> QED  BY <2>2, <1>3 DEF Queued, IInv, Lines
<1> QED  BY <1>2, <1>3

\* Whatever times out, is refused, dies or answers late: a caller that waits is
\* awaited by a live promise of its own, stands in its worker's line once and heads
\* it while it is served, and no shutdown overtakes a call somebody still waits for.
THEOREM CallsAreKept == Spec => []EveryCallIsKept
<1>1. IInv => CloseWaitsForCallers
  BY DEF IInv, LastToGo, CloseWaitsForCallers, CallsAt, Requests
<1>2. IInv => EveryCallIsKept  BY <1>1, WaitsAreKept, LinesAreKept DEF EveryCallIsKept
<1> QED  BY <1>2, Invariant, PTL

(***************************************************************************)
(* One call at a time                                                      *)
(***************************************************************************)
\* A request is in one place, its reply is not there before it is handled, its kind
\* is the one its sender awaits, and only a live worker has any.
Tracked ==
  \A w \in Workers :
    /\ NoRepeats(inbox[w])
    /\ In(inbox[w]) \cap handling[w] = {}
    /\ \A r, s \in Requests(w) : r.id = s.id => r = s
    /\ \A r \in Requests(w), m \in In(outbox[w]) : r.id # m.id
    /\ \A r \in Requests(w), a \in Actors :
         WaitsOn(a, w) /\ actor[a].id = r.id => r.kind = KindAwaited(a)
    /\ process[w] # "alive" => Requests(w) = {}

\* The sender of a call that is on its way or being handled still waits for it.
CallsAwaited ==
  \A w \in Workers : \A r \in Requests(w) : r.kind = "call" => r.id \in pending[w]

\* A step that gives and takes no request, and lets nobody wait anew.
LEMMA SameRequests ==
  ASSUME IInv, Tracked,
         UNCHANGED <<inbox, handling>>,
         \A v \in Workers : In(outbox'[v]) \subseteq In(outbox[v]),
         \A v \in Workers : process'[v] # "alive" => process[v] # "alive",
         \A b \in Actors : actor'[b].at \in {"opening", "waiting"} => actor'[b] = actor[b]
  PROVE  Tracked'
<1>1. \A v \in Workers : Requests(v)' = Requests(v)  BY DEF Requests
<1>2. \A b \in Actors, v \in Workers :
        WaitsOn(b, v)' => WaitsOn(b, v) /\ actor'[b] = actor[b] /\ KindAwaited(b)' = KindAwaited(b)
  BY DEF WaitsOn, KindAwaited, KindOf
<1>3. ASSUME NEW w \in Workers
      PROVE  /\ NoRepeats(inbox'[w]) /\ In(inbox'[w]) \cap handling'[w] = {}
             /\ \A r, s \in Requests(w)' : r.id = s.id => r = s
             /\ \A r \in Requests(w)', m \in In(outbox'[w]) : r.id # m.id
             /\ process'[w] # "alive" => Requests(w)' = {}
  BY <1>1 DEF Tracked
<1>4. ASSUME NEW w \in Workers, NEW r \in Requests(w)', NEW a \in Actors,
             WaitsOn(a, w)', actor'[a].id = r.id
      PROVE  r.kind = KindAwaited(a)'
  BY <1>1, <1>2, <1>4 DEF Tracked
<1> QED  BY <1>3, <1>4 DEF Tracked

LEMMA InitTracked == Init => Tracked /\ CallsAwaited
BY EmptyIn DEF Init, Tracked, CallsAwaited, Requests

LEMMA SpawnTracks ==
  ASSUME IInv, Tracked, CallsAwaited, NEW a \in Actors, Spawn(a)
  PROVE  Tracked' /\ CallsAwaited'
<1>1. TypeOK /\ Placed /\ Awaited  BY DEF IInv
<1>2. PICK w \in Workers :
        /\ process[w] = "unborn"
        /\ process' = [process EXCEPT ![w] = "alive"]
        /\ pending' = [pending EXCEPT ![w] = {1}]
        /\ inbox' = [inbox EXCEPT ![w] = <<[id |-> 1, kind |-> "open"]>>]
        /\ actor' = [actor EXCEPT ![a] =
                       [at |-> "opening", worker |-> w, id |-> 1, sent |-> 0]]
  BY DEF Spawn
<1>3. actor[a].at = "idle" /\ UNCHANGED <<handling, outbox>>  BY DEF Spawn
<1> DEFINE asks == [id |-> 1, kind |-> "open"]
<1>4. In(<<asks>>) = {asks} /\ NoRepeats(<<asks>>)  BY DEF In, NoRepeats
<1>5. /\ inbox'[w] = <<asks>> /\ pending'[w] = {1} /\ process'[w] = "alive"
      /\ handling[w] = {} /\ outbox[w] = <<>>
      /\ \A v \in Workers \ {w} : /\ inbox'[v] = inbox[v] /\ pending'[v] = pending[v]
                                  /\ process'[v] = process[v]
  BY <1>1, <1>2 DEF TypeOK, Placed
<1>6. /\ actor'[a].at = "opening" /\ actor'[a].worker = w
      /\ \A b \in Actors \ {a} : actor'[b] = actor[b]
  BY <1>1, <1>2 DEF TypeOK
<1>7. \A b \in Actors : ~ WaitsOn(b, w)
  BY <1>1, <1>2 DEF Awaited, Placed
<1>8. /\ Requests(w)' = {asks} /\ \A v \in Workers \ {w} : Requests(v)' = Requests(v)
      /\ In(outbox'[w]) = {}
  BY <1>3, <1>4, <1>5, EmptyIn DEF Requests
<1>9. \A b \in Actors : WaitsOn(b, w)' => b = a /\ KindAwaited(b)' = "open"
  BY <1>6, <1>7 DEF WaitsOn, KindAwaited
<1>10. \A b \in Actors, v \in Workers \ {w} :
         WaitsOn(b, v)' => WaitsOn(b, v) /\ actor'[b] = actor[b] /\ KindAwaited(b)' = KindAwaited(b)
  BY <1>3, <1>6 DEF WaitsOn, KindAwaited, KindOf
<1> HIDE DEF asks
<1>11. ASSUME NEW v \in Workers
       PROVE  /\ NoRepeats(inbox'[v]) /\ In(inbox'[v]) \cap handling'[v] = {}
              /\ \A r, s \in Requests(v)' : r.id = s.id => r = s
              /\ \A r \in Requests(v)', m \in In(outbox'[v]) : r.id # m.id
              /\ process'[v] # "alive" => Requests(v)' = {}
  <2>1. CASE v = w  BY <2>1, <1>3, <1>4, <1>5, <1>8
  <2>2. CASE v # w  BY <2>2, <1>3, <1>5, <1>8 DEF Tracked
  <2> QED  BY <2>1, <2>2
<1>12. ASSUME NEW v \in Workers, NEW r \in Requests(v)', NEW b \in Actors,
              WaitsOn(b, v)', actor'[b].id = r.id
       PROVE  r.kind = KindAwaited(b)'
  <2>1. CASE v = w  BY <2>1, <1>8, <1>9, <1>12 DEF asks
  <2>2. CASE v # w  BY <2>2, <1>8, <1>10, <1>12 DEF Tracked
  <2> QED  BY <2>1, <2>2
<1>13. Tracked'  BY <1>11, <1>12 DEF Tracked
<1>14. CallsAwaited'
  <2>1. ASSUME NEW v \in Workers, NEW r \in Requests(v)', r.kind = "call"
        PROVE  r.id \in pending'[v]
    <3>1. v # w  BY <2>1, <1>8 DEF asks
    <3> QED  BY <3>1, <2>1, <1>5, <1>8 DEF CallsAwaited
  <2> QED  BY <2>1 DEF CallsAwaited
<1> QED  BY <1>13, <1>14

LEMMA SendTracks ==
  ASSUME IInv, Tracked, CallsAwaited, NEW a \in Actors, Send(a)
  PROVE  Tracked' /\ CallsAwaited'
<1>1. TypeOK /\ Awaited /\ Numbered  BY DEF IInv
<1>2. PICK w \in Workers : actor[a].worker = w  BY DEF IInv, Placed, Send
<1>3. PICK n \in Nat : n = nextId[w]  BY <1>1 DEF TypeOK
<1> DEFINE asks == [id |-> n, kind |-> KindOf(a)]
<1>4. /\ actor[a].at = "lined"
      /\ actor' = [actor EXCEPT ![a] = [at |-> "waiting", worker |-> w, id |-> n,
                                        sent |-> @.sent + 1]]
      /\ pending' = [pending EXCEPT ![w] = @ \cup {n}]
      /\ \/ inbox' = inbox
         \/ process[w] = "alive" /\ inbox' = [inbox EXCEPT ![w] = Append(@, asks)]
      /\ UNCHANGED <<process, handling, outbox>>
  BY <1>2, <1>3 DEF Send, Sent, Running
<1>5. /\ actor'[a].at = "waiting" /\ actor'[a].worker = w /\ actor'[a].id = n
      /\ \A b \in Actors \ {a} : actor'[b] = actor[b]
      /\ \A v \in Workers : pending[v] \subseteq pending'[v]
      /\ n \in pending'[w]
  BY <1>1, <1>4 DEF TypeOK
<1>6. asks \in Request  BY <1>3 DEF Request, KindOf, Kinds
<1>7. /\ \A r \in Requests(w) : r.id # n
      /\ \A m \in In(outbox[w]) : m.id # n
      /\ n \notin pending[w]
  <2>1. Requests(w) \subseteq Request /\ In(outbox[w]) \subseteq Reply  BY <1>1, MessagesTyped
  <2> QED  BY <2>1, <1>1, <1>3 DEF Numbered, Awaited, Request, Reply
<1>8. /\ NoRepeats(inbox'[w])
      /\ \/ Requests(w)' = Requests(w) /\ In(inbox'[w]) = In(inbox[w])
         \/ /\ process[w] = "alive" /\ Requests(w)' = Requests(w) \cup {asks}
            /\ In(inbox'[w]) = In(inbox[w]) \cup {asks}
      /\ \A v \in Workers \ {w} : inbox'[v] = inbox[v] /\ Requests(v)' = Requests(v)
  <2>1. CASE inbox' = inbox  BY <2>1, <1>4 DEF Tracked, Requests
  <2>2. CASE process[w] = "alive" /\ inbox' = [inbox EXCEPT ![w] = Append(@, asks)]
    <3>1. inbox[w] \in Seq(Request) /\ inbox'[w] = Append(inbox[w], asks)
      BY <2>2, <1>1 DEF TypeOK
    <3>2. asks \notin In(inbox[w])  BY <1>7 DEF Requests
    <3>3. NoRepeats(inbox'[w]) /\ In(inbox'[w]) = In(inbox[w]) \cup {asks}
      BY <3>1, <3>2, <1>6, AppendIn DEF Tracked
    <3> HIDE DEF asks
    <3> QED  BY <2>2, <3>3, <1>1, <1>4 DEF TypeOK, Requests
  <2> QED  BY <2>1, <2>2, <1>4
<1>9. asks.id = n /\ asks.kind = KindOf(a)  OBVIOUS
<1> HIDE DEF asks
<1>10. asks \notin handling[w]  BY <1>7, <1>9 DEF Requests
<1>11. /\ \A b \in Actors, v \in Workers : b # a =>
            (WaitsOn(b, v)' => WaitsOn(b, v) /\ KindAwaited(b)' = KindAwaited(b))
       /\ KindAwaited(a)' = KindOf(a)
       /\ \A v \in Workers : WaitsOn(a, v)' => v = w
  BY <1>5 DEF WaitsOn, KindAwaited, KindOf
<1>12. ASSUME NEW v \in Workers
       PROVE  /\ NoRepeats(inbox'[v]) /\ In(inbox'[v]) \cap handling'[v] = {}
              /\ \A r, s \in Requests(v)' : r.id = s.id => r = s
              /\ \A r \in Requests(v)', m \in In(outbox'[v]) : r.id # m.id
              /\ process'[v] # "alive" => Requests(v)' = {}
  <2>1. CASE v # w  BY <2>1, <1>4, <1>8 DEF Tracked
  <2>2. CASE v = w  BY <2>2, <1>4, <1>7, <1>8, <1>9, <1>10 DEF Tracked
  <2> QED  BY <2>1, <2>2
<1>13. ASSUME NEW v \in Workers, NEW r \in Requests(v)', NEW b \in Actors,
              WaitsOn(b, v)', actor'[b].id = r.id
       PROVE  r.kind = KindAwaited(b)'
  <2>1. (r = asks /\ v = w) \/ r \in Requests(v)  BY <1>8, <1>13
  <2>2. CASE b = a
    <3>1. v = w /\ r.id = n  BY <2>2, <1>5, <1>11, <1>13
    <3>2. r = asks  BY <2>1, <3>1, <1>7
    <3> QED  BY <2>2, <3>2, <1>9, <1>11
  <2>3. CASE b # a
    <3>1. WaitsOn(b, v) /\ actor[b].id = r.id /\ KindAwaited(b)' = KindAwaited(b)
      BY <2>3, <1>5, <1>11, <1>13
    <3>2. r.id \in pending[v]  BY <3>1, <1>1 DEF Awaited
    <3>3. r \in Requests(v)  BY <2>1, <3>2, <1>7, <1>9
    <3> QED  BY <3>1, <3>3 DEF Tracked
  <2> QED  BY <2>2, <2>3
<1>14. Tracked'  BY <1>12, <1>13 DEF Tracked
<1>15. CallsAwaited'
  <2>1. ASSUME NEW v \in Workers, NEW r \in Requests(v)', r.kind = "call"
        PROVE  r.id \in pending'[v]
    <3>1. (r = asks /\ v = w) \/ r \in Requests(v)  BY <1>8, <2>1
    <3> QED  BY <3>1, <2>1, <1>5, <1>9 DEF CallsAwaited
  <2> QED  BY <2>1 DEF CallsAwaited
<1> QED  BY <1>14, <1>15

\* Only a timer forgets a request that is still on its way.
LEMMA TimeoutTracks ==
  ASSUME IInv, Tracked, CallsAwaited, "call" \notin Timeouts, NEW a \in Actors, Timeout(a)
  PROVE  Tracked' /\ CallsAwaited'
<1>1. PICK w \in Workers : actor[a].worker = w  BY DEF IInv, Placed, Timeout
<1>2. /\ WaitsOn(a, w) /\ Answered(a, FALSE) /\ KindAwaited(a) # "call"
      /\ pending' = [pending EXCEPT ![w] = @ \ {actor[a].id}]
      /\ UNCHANGED <<process, inbox, handling, outbox>>
  BY <1>1 DEF Timeout, WaitsOn, channel
<1>3. /\ \A b \in Actors \ {a} : actor'[b] = actor[b]
      /\ actor'[a].at \in {"idle", "done", "lined"}
  BY <1>2, AnsweredKeepsLines
<1>4. Tracked'  BY <1>2, <1>3, SameRequests
<1>5. CallsAwaited'
  <2>1. ASSUME NEW v \in Workers, NEW r \in Requests(v), r.kind = "call"
        PROVE  r.id \in pending'[v]
    <3>1. r.id \in pending[v]  BY <2>1 DEF CallsAwaited
    <3>2. v = w => r.id # actor[a].id  BY <2>1, <1>2 DEF Tracked
    <3> QED  BY <3>1, <3>2, <1>2 DEF IInv, TypeOK
  <2>2. \A v \in Workers : Requests(v)' = Requests(v)  BY <1>2 DEF Requests
  <2> QED  BY <2>1, <2>2 DEF CallsAwaited
<1> QED  BY <1>4, <1>5

LEMMA DeliverTracks ==
  ASSUME IInv, Tracked, CallsAwaited, NEW w \in Workers, Deliver(w)
  PROVE  Tracked' /\ CallsAwaited'
<1>1. TypeOK  BY DEF IInv
<1>2. outbox[w] \in Seq(Reply) /\ outbox[w] # <<>>  BY <1>1 DEF TypeOK, Deliver
<1>3. PICK reply \in Reply : reply = Head(outbox[w])  BY <1>2, TailIn
<1>4. reply \in In(outbox[w]) /\ In(Tail(outbox[w])) \subseteq In(outbox[w])
  BY <1>2, <1>3, TailIn
<1>5. /\ outbox' = [outbox EXCEPT ![w] = Tail(@)]
      /\ pending' = [pending EXCEPT ![w] = @ \ {reply.id}]
      /\ UNCHANGED <<process, inbox, handling>>
  BY <1>3 DEF Deliver
<1>6. \A v \in Workers : In(outbox'[v]) \subseteq In(outbox[v])
  BY <1>1, <1>4, <1>5 DEF TypeOK
<1>7. \A b \in Actors : actor'[b].at \in {"opening", "waiting"} => actor'[b] = actor[b]
  <2>1. CASE reply.id \in pending[w]
    <3>1. PICK a \in Actors : actor[a].worker = w /\ actor[a].id = reply.id /\ Answered(a, reply.ok)
      BY <2>1, <1>3 DEF Deliver
    <3>2. WaitsOn(a, w) /\ reply.ok \in BOOLEAN  BY <3>1 DEF Answered, WaitsOn, Reply
    <3>3. /\ \A b \in Actors \ {a} : actor'[b] = actor[b]
          /\ actor'[a].at \in {"idle", "done", "lined"}
      BY <3>1, <3>2, AnsweredKeepsLines
    <3> QED  BY <3>3
  <2>2. CASE reply.id \notin pending[w]  BY <2>2, <1>3 DEF Deliver
  <2> QED  BY <2>1, <2>2
<1>8. Tracked'  BY <1>5, <1>6, <1>7, SameRequests
<1>9. CallsAwaited'
  <2>1. ASSUME NEW v \in Workers, NEW r \in Requests(v), r.kind = "call"
        PROVE  r.id \in pending'[v]
    <3>1. r.id \in pending[v]  BY <2>1 DEF CallsAwaited
    <3>2. v = w => r.id # reply.id  BY <2>1, <1>4 DEF Tracked
    <3> QED  BY <3>1, <3>2, <1>1, <1>5 DEF TypeOK
  <2>2. \A v \in Workers : Requests(v)' = Requests(v)  BY <1>5 DEF Requests
  <2> QED  BY <2>1, <2>2 DEF CallsAwaited
<1> QED  BY <1>8, <1>9

LEMMA ExitedTracks ==
  ASSUME IInv, Tracked, CallsAwaited, NEW w \in Workers, Exited(w)
  PROVE  Tracked' /\ CallsAwaited'
<1>1. TypeOK  BY DEF IInv
<1>2. /\ process[w] = "dead" /\ process' = [process EXCEPT ![w] = "gone"]
      /\ pending' = [pending EXCEPT ![w] = {}] /\ outbox' = [outbox EXCEPT ![w] = <<>>]
      /\ UNCHANGED <<inbox, handling>>
      /\ actor' = [b \in Actors |-> IF b \in Refused(w) THEN Over(b) ELSE actor[b]]
  BY DEF Exited
<1>3. \A v \in Workers : In(outbox'[v]) \subseteq In(outbox[v])
  BY <1>1, <1>2, EmptyIn DEF TypeOK
<1>4. \A v \in Workers : process'[v] # "alive" => process[v] # "alive"
  BY <1>1, <1>2 DEF TypeOK
<1>5. \A b \in Actors : actor'[b].at \in {"opening", "waiting"} => actor'[b] = actor[b]
  BY <1>2, IdleIsActor
<1>6. Tracked'  BY <1>2, <1>3, <1>4, <1>5, SameRequests
<1>7. CallsAwaited'
  <2>1. ASSUME NEW v \in Workers, NEW r \in Requests(v), r.kind = "call"
        PROVE  r.id \in pending'[v]
    <3>1. r.id \in pending[v]  BY <2>1 DEF CallsAwaited
    <3>2. v # w  BY <2>1, <1>2 DEF Tracked
    <3> QED  BY <3>1, <3>2, <1>1, <1>2 DEF TypeOK
  <2>2. \A v \in Workers : Requests(v)' = Requests(v)  BY <1>2 DEF Requests
  <2> QED  BY <2>1, <2>2 DEF CallsAwaited
<1> QED  BY <1>6, <1>7

LEMMA WorkerTracks ==
  ASSUME IInv, Tracked, CallsAwaited, NEW w \in Workers,
         Receive(w) \/ EndsOne(w) \/ Killed(w) \/ Crash(w)
  PROVE  Tracked' /\ CallsAwaited'
<1>1. TypeOK  BY DEF IInv
<1>2. /\ Quiet /\ process[w] = "alive"
      /\ \A v \in Workers \ {w} :
           /\ process'[v] = process[v] /\ inbox'[v] = inbox[v]
           /\ handling'[v] = handling[v] /\ outbox'[v] = outbox[v]
      /\ Requests(w)' \subseteq Requests(w)
  BY WorkerSteps
<1>3. \A v \in Workers : Requests(v)' \subseteq Requests(v)  BY <1>2 DEF Requests
<1>4. CallsAwaited'  BY <1>2, <1>3 DEF CallsAwaited, Quiet
<1>5. /\ NoRepeats(inbox'[w]) /\ In(inbox'[w]) \cap handling'[w] = {}
      /\ \A r \in Requests(w)', m \in In(outbox'[w]) : r.id # m.id
      /\ process'[w] # "alive" => Requests(w)' = {}
  <2>1. CASE Receive(w)
    <3>1. inbox[w] \in Seq(Request) /\ inbox[w] # <<>>  BY <2>1, <1>1 DEF TypeOK, Receive
    <3>2. PICK request \in Request : request = Head(inbox[w])  BY <3>1, TailIn
    <3>3. /\ inbox'[w] = Tail(inbox[w]) /\ handling'[w] = handling[w] \cup {request}
          /\ UNCHANGED <<process, outbox>>
      BY <2>1, <3>2, <1>1 DEF Receive, TypeOK
    <3>4. /\ In(inbox[w]) = In(Tail(inbox[w])) \cup {request}
          /\ NoRepeats(Tail(inbox[w])) /\ request \notin In(Tail(inbox[w]))
      BY <3>1, <3>2, TailIn DEF Tracked
    <3>5. Requests(w)' = Requests(w)  BY <3>3, <3>4 DEF Requests
    <3> QED  BY <3>3, <3>4, <3>5, <1>2 DEF Tracked
  <2>2. ASSUME NEW request \in handling[w], NEW ok \in BOOLEAN,
               EndOpen(w, request, ok) \/ EndCall(w, request, ok)
        PROVE  /\ NoRepeats(inbox'[w]) /\ In(inbox'[w]) \cap handling'[w] = {}
               /\ \A r \in Requests(w)', m \in In(outbox'[w]) : r.id # m.id
               /\ process'[w] # "alive" => Requests(w)' = {}
    <3>1. /\ Replies(w, request, ok) /\ UNCHANGED <<process, inbox>>
          /\ handling'[w] = handling[w] \ {request}
      BY <2>2, <1>1 DEF EndOpen, EndCall, TypeOK
    <3>2. In(outbox'[w]) = In(outbox[w]) \cup {ReplyTo(request, ok)}
      BY <3>1, ReplyingAdds, SMTT(30)
    <3>3. request \in Requests(w) /\ request \notin Requests(w)'
      BY <3>1 DEF Requests, Tracked
    <3>4. \A r \in Requests(w)' : r.id # request.id
      BY <3>3, <1>3 DEF Tracked
    <3>5. ReplyTo(request, ok).id = request.id  BY DEF ReplyTo
    <3> QED  BY <3>1, <3>2, <3>4, <3>5, <1>2, <1>3 DEF Tracked
  <2>3. CASE Dead(w)
    <3>1. Requests(w)' = {}  BY <2>3, DyingLoses
    <3>2. inbox'[w] = <<>>  BY <2>3, <1>1 DEF Dead, TypeOK
    <3> QED  BY <3>1, <3>2, EmptyIn
  <2> QED  BY <2>1, <2>2, <2>3 DEF EndsOne, EndShutdown, Killed, Crash
<1>6. \A b \in Actors, v \in Workers :
        (WaitsOn(b, v)' <=> WaitsOn(b, v)) /\ actor'[b] = actor[b] /\ KindAwaited(b)' = KindAwaited(b)
  BY <1>2 DEF Quiet, WaitsOn, KindAwaited, KindOf
<1>7. ASSUME NEW v \in Workers
      PROVE  /\ NoRepeats(inbox'[v]) /\ In(inbox'[v]) \cap handling'[v] = {}
             /\ \A r, s \in Requests(v)' : r.id = s.id => r = s
             /\ \A r \in Requests(v)', m \in In(outbox'[v]) : r.id # m.id
             /\ process'[v] # "alive" => Requests(v)' = {}
  <2>1. \A r, s \in Requests(v)' : r.id = s.id => r = s  BY <1>3 DEF Tracked
  <2>2. CASE v = w  BY <2>1, <2>2, <1>5
  <2>3. CASE v # w  BY <2>1, <2>3, <1>2, <1>3 DEF Tracked
  <2> QED  BY <2>2, <2>3
<1>8. \A v \in Workers : \A r \in Requests(v)', b \in Actors :
        WaitsOn(b, v)' /\ actor'[b].id = r.id => r.kind = KindAwaited(b)'
  BY <1>3, <1>6 DEF Tracked
<1>9. Tracked'  BY <1>7, <1>8 DEF Tracked
<1> QED  BY <1>4, <1>9

LEMMA StepTracks ==
  ASSUME "call" \notin Timeouts, IInv, Tracked, CallsAwaited, [Next]_vars
  PROVE  Tracked' /\ CallsAwaited'
<1>1. ASSUME UNCHANGED <<process, inbox, handling, outbox, pending>>,
             \A b \in Actors : actor'[b].at \in {"opening", "waiting"} => actor'[b] = actor[b]
      PROVE  Tracked' /\ CallsAwaited'
  <2>1. Tracked'  BY <1>1, SameRequests
  <2>2. CallsAwaited'  BY <1>1 DEF CallsAwaited, Requests
  <2> QED  BY <2>1, <2>2
<1>2. ASSUME NEW a \in Actors, Join(a) \/ Finish(a)  PROVE Tracked' /\ CallsAwaited'
  <2>1. \A b \in Actors : actor'[b].at \in {"opening", "waiting"} => actor'[b] = actor[b]
    BY <1>2, IdleIsActor DEF Join, Finish, Lined, IInv, TypeOK
  <2> QED  BY <1>1, <1>2, <2>1 DEF Join, Finish, channel
<1>3. CASE Close
  <2>1. \A b \in Actors : actor'[b].at \in {"opening", "waiting"} => actor'[b] = actor[b]
    BY <1>3, IdleIsActor DEF Close, Lined, IInv, TypeOK
  <2> QED  BY <1>1, <1>3, <2>1 DEF Close, channel
<1>4. CASE UNCHANGED vars  BY <1>1, <1>4 DEF vars, channel
<1>5. ASSUME NEW a \in Callers, Spawn(a)  PROVE Tracked' /\ CallsAwaited'
  BY <1>5, SpawnTracks DEF Actors
<1>6. ASSUME NEW a \in Actors, Send(a) \/ Timeout(a)  PROVE Tracked' /\ CallsAwaited'
  BY <1>6, SendTracks, TimeoutTracks
<1>7. ASSUME NEW w \in Workers,
             Deliver(w) \/ Exited(w) \/ Receive(w) \/ EndsOne(w) \/ Killed(w) \/ Crash(w)
      PROVE  Tracked' /\ CallsAwaited'
  BY <1>7, DeliverTracks, ExitedTracks, WorkerTracks
<1> QED  BY <1>2, <1>3, <1>4, <1>5, <1>6, <1>7 DEF Next, Actors

\* As long as no call can time out, the engine of a worker runs one call of the
\* tenant at a time, whatever else times out, is refused, closes or dies: a second
\* call in progress would be a second caller waiting at the head of one line.
THEOREM OneCall ==
  ASSUME "call" \notin Timeouts
  PROVE  Spec => []OneCallAtATime
<1>1. IInv /\ Tracked /\ CallsAwaited => OneCallAtATime
  <2> SUFFICES ASSUME IInv, Tracked, CallsAwaited, NEW w \in Workers
               PROVE  Cardinality(CallsAt(w)) <= 1
    BY DEF OneCallAtATime
  <2>1. ASSUME NEW r \in CallsAt(w), NEW s \in CallsAt(w)  PROVE r = s
    <3>1. /\ r \in Requests(w) /\ s \in Requests(w) /\ r.kind = "call" /\ s.kind = "call"
      BY <2>1 DEF CallsAt, Requests
    <3>2. PICK a \in Actors : WaitsOn(a, w) /\ actor[a].id = r.id
      BY <3>1 DEF CallsAwaited, IInv, Awaited
    <3>3. PICK b \in Actors : WaitsOn(b, w) /\ actor[b].id = s.id
      BY <3>1 DEF CallsAwaited, IInv, Awaited
    <3>4. actor[a].at = "waiting" /\ actor[b].at = "waiting"
      BY <3>1, <3>2, <3>3 DEF WaitsOn, IInv, Awaited, Numbered
    <3>5. a = b  BY <3>2, <3>3, <3>4 DEF IInv, Lines, Held, WaitsOn
    <3> QED  BY <3>1, <3>2, <3>3, <3>5 DEF Tracked
  <2>2. CASE CallsAt(w) = {}  BY <2>2, FS_EmptySet
  <2>3. CASE CallsAt(w) # {}
    <3>1. PICK r \in CallsAt(w) : TRUE  BY <2>3
    <3>2. CallsAt(w) = {r}  BY <2>1, <3>1
    <3>3. Cardinality({r}) = 1  BY FS_Singleton
    <3>4. Cardinality(CallsAt(w)) = 1  BY <3>2, <3>3
    <3> QED  BY <3>4
  <2> QED  BY <2>2, <2>3
<1>2. Tracked /\ CallsAwaited /\ IInv /\ [Next]_vars => (Tracked /\ CallsAwaited)'
  BY StepTracks
<1> QED  BY <1>1, <1>2, InitTracked, Invariant, PTL DEF Spec

(***************************************************************************)
(* One owner of the dataDir                                                *)
(***************************************************************************)
\* The worker that lives, or whose death the parent has not been told of, is the
\* one the map names; nobody has been signalled, and every open succeeds.
Alone ==
  /\ killed = {}
  /\ actor[Closer].at = "idle"
  /\ \A w \in Workers : process[w] \in {"alive", "dead"} <=> entry = w
  /\ \A w \in Workers : \A m \in In(outbox[w]) : m.id = 1 => m.ok

LEMMA InitAlone == Init => Alone
BY EmptyIn, IdleIsActor, GatewayAssumption DEF Init, Alone, Workers, NoWorker, Actors

\* In a calm run no answer is a refused open, so the map is left alone.
LEMMA AnsweredLeavesMap ==
  ASSUME IInv, Alone, NEW a \in Actors, NEW w \in Workers, WaitsOn(a, w),
         NEW ok \in BOOLEAN, Answered(a, ok), actor[a].at = "opening" => ok
  PROVE  /\ UNCHANGED <<entry, killed>>
         /\ actor'[Closer].at = "idle"
<1>1. a # Closer  BY DEF Alone, WaitsOn
<1>2. actor'[Closer] = actor[Closer]
  BY <1>1, AnsweredKeepsLines DEF Actors
<1> QED  BY <1>1, <1>2 DEF Alone, Answered

LEMMA StepStaysAlone ==
  ASSUME "open" \notin Timeouts, ~OpenMayFail, ~MayClose, IInv, Alone, [Next]_vars
  PROVE  Alone'
<1>1. TypeOK /\ Closer \in Actors  BY DEF IInv, Actors
<1>2. ASSUME UNCHANGED <<killed, entry, process>>, actor'[Closer].at = "idle",
             \A w \in Workers : In(outbox'[w]) \subseteq In(outbox[w])
      PROVE  Alone'
  BY <1>2 DEF Alone
<1>3. ASSUME NEW a \in Callers, Join(a)  PROVE Alone'
  <2>1. actor'[Closer] = actor[Closer]
    BY <1>1, <1>3, GatewayAssumption DEF Join, TypeOK
  <2> QED  BY <1>2, <1>3, <2>1 DEF Join, channel, Alone
<1>4. ASSUME NEW a \in Actors, Finish(a) \/ Send(a)  PROVE Alone'
  <2>1. a # Closer  BY <1>4 DEF Finish, Send, Alone
  <2>2. actor'[Closer] = actor[Closer]
    BY <1>1, <1>4, <2>1 DEF Finish, Send, TypeOK
  <2> QED  BY <1>2, <1>4, <2>2 DEF Finish, Send, channel, Alone
<1>5. ASSUME NEW a \in Callers, Spawn(a)  PROVE Alone'
  <2>1. PICK w \in Workers :
          /\ process[w] = "unborn" /\ process' = [process EXCEPT ![w] = "alive"]
          /\ entry' = w
          /\ actor' = [actor EXCEPT ![a] =
                         [at |-> "opening", worker |-> w, id |-> 1, sent |-> 0]]
    BY <1>5 DEF Spawn, Entered
  <2>2. actor'[Closer] = actor[Closer]  BY <1>1, <2>1, GatewayAssumption DEF TypeOK
  <2>3. entry = NoWorker /\ UNCHANGED <<killed, outbox>>  BY <1>5 DEF Spawn
  <2>4. \A v \in Workers : v # NoWorker  BY GatewayAssumption DEF Workers, NoWorker
  <2>5. \A v \in Workers : process[v] \notin {"alive", "dead"}  BY <2>3, <2>4 DEF Alone
  <2>6. \A v \in Workers : process'[v] \in {"alive", "dead"} <=> v = w
    BY <2>1, <2>5, <1>1 DEF TypeOK
  <2> QED  BY <2>1, <2>2, <2>3, <2>6 DEF Alone
<1>6. ASSUME NEW a \in Actors, Timeout(a)  PROVE Alone'
  <2>1. PICK w \in Workers : actor[a].worker = w  BY <1>6 DEF IInv, Placed, Timeout
  <2>2. WaitsOn(a, w) /\ Answered(a, FALSE) /\ actor[a].at # "opening"
    BY <1>6, <2>1 DEF Timeout, WaitsOn, KindAwaited
  <2>3. UNCHANGED <<entry, killed>> /\ actor'[Closer].at = "idle"
    BY <2>2, AnsweredLeavesMap
  <2> QED  BY <1>2, <1>6, <2>3 DEF Timeout, channel
<1>7. ASSUME NEW w \in Workers, Deliver(w)  PROVE Alone'
  <2>1. outbox[w] \in Seq(Reply) /\ outbox[w] # <<>>  BY <1>1, <1>7 DEF TypeOK, Deliver
  <2>2. PICK reply \in Reply : reply = Head(outbox[w])  BY <2>1, TailIn
  <2>3. reply \in In(outbox[w]) /\ In(Tail(outbox[w])) \subseteq In(outbox[w])
    BY <2>1, <2>2, TailIn
  <2>4. \A v \in Workers : In(outbox'[v]) \subseteq In(outbox[v])
    BY <1>1, <1>7, <2>3 DEF Deliver, TypeOK
  <2>5. UNCHANGED <<entry, killed>> /\ actor'[Closer].at = "idle"
    <3>1. CASE reply.id \in pending[w]
      <4>1. PICK a \in Actors : actor[a].worker = w /\ actor[a].id = reply.id /\ Answered(a, reply.ok)
        BY <1>7, <2>2, <3>1 DEF Deliver
      <4>2. WaitsOn(a, w) /\ reply.ok \in BOOLEAN  BY <4>1 DEF Answered, WaitsOn, Reply
      <4>3. actor[a].at = "opening" => reply.ok
        BY <2>3, <4>1 DEF IInv, Awaited, Alone
      <4> QED  BY <4>1, <4>2, <4>3, AnsweredLeavesMap
    <3>2. CASE reply.id \notin pending[w]
      BY <1>7, <2>2, <3>2 DEF Deliver, Alone
    <3> QED  BY <3>1, <3>2
  <2> QED  BY <1>2, <1>7, <2>4, <2>5 DEF Deliver
<1>8. ASSUME NEW w \in Workers, Exited(w)  PROVE Alone'
  <2>1. /\ process[w] = "dead" /\ process' = [process EXCEPT ![w] = "gone"]
        /\ entry' = NoWorker /\ outbox' = [outbox EXCEPT ![w] = <<>>] /\ killed' = killed
        /\ actor' = [b \in Actors |-> IF b \in Refused(w) THEN Over(b) ELSE actor[b]]
    BY <1>8 DEF Exited, EntryAfterExit
  <2>2. actor'[Closer] = actor[Closer]  BY <1>1, <2>1 DEF Refused, WaitsOn, Alone
  <2>3. entry = w  BY <2>1 DEF Alone
  <2>4. \A v \in Workers : process'[v] \notin {"alive", "dead"}
    BY <1>1, <2>1, <2>3 DEF Alone, TypeOK
  <2>5. \A v \in Workers : v # NoWorker  BY GatewayAssumption DEF Workers, NoWorker
  <2>6. \A v \in Workers : In(outbox'[v]) \subseteq In(outbox[v])
    BY <1>1, <2>1, EmptyIn DEF TypeOK
  <2> QED  BY <2>1, <2>2, <2>4, <2>5, <2>6 DEF Alone
<1>9. ASSUME NEW w \in Workers, Receive(w) \/ EndsOne(w) \/ Killed(w) \/ Crash(w)  PROVE Alone'
  <2>1. /\ Quiet /\ process[w] = "alive" /\ process'[w] \in {"alive", "dead"}
        /\ \A v \in Workers \ {w} : process'[v] = process[v] /\ outbox'[v] = outbox[v]
        /\ \A m \in In(outbox'[w]) : m \in In(outbox[w]) \/
             \E r \in handling[w], ok \in BOOLEAN :
               /\ m = ReplyTo(r, ok)
               /\ r.kind = "open" => ok
    BY <1>9, WorkerSteps
  <2>2. \A v \in Workers : process'[v] \in {"alive", "dead"} <=> entry' = v
    BY <2>1 DEF Alone, Quiet
  <2>3. ASSUME NEW m \in In(outbox'[w]), m.id = 1  PROVE m.ok
    <3>1. CASE m \in In(outbox[w])  BY <2>3, <3>1 DEF Alone
    <3>2. ASSUME NEW r \in handling[w], NEW ok \in BOOLEAN, m = ReplyTo(r, ok),
                 r.kind = "open" => ok
          PROVE  m.ok
      <4>1. r.id = 1 /\ m.ok = ok  BY <2>3, <3>2 DEF ReplyTo
      <4>2. r.kind = "open"  BY <4>1 DEF IInv, Numbered, Requests
      <4> QED  BY <3>2, <4>1, <4>2
    <3> QED  BY <2>1, <3>1, <3>2
  <2>4. \A v \in Workers : \A m \in In(outbox'[v]) : m.id = 1 => m.ok
    BY <2>1, <2>3 DEF Alone
  <2> QED  BY <2>1, <2>2, <2>4 DEF Alone, Quiet
<1>10. CASE UNCHANGED vars  BY <1>2, <1>10 DEF vars, channel, Alone
<1>11. ~ Close  BY DEF Close
<1> QED  BY <1>3, <1>4, <1>5, <1>6, <1>7, <1>8, <1>9, <1>10, <1>11 DEF Next

\* As long as opens succeed in time and the process does not close the tenant, one
\* process at a time has the tenant's dataDir open, it is the one the map names, and
\* no live worker is left behind, whatever calls time out and workers die.
THEOREM OneOwner ==
  ASSUME "open" \notin Timeouts, ~OpenMayFail, ~MayClose
  PROVE  Spec => []EntryIsTheOwner
<1>1. IInv /\ Alone => EntryIsTheOwner
  <2> SUFFICES ASSUME IInv, Alone PROVE EntryIsTheOwner  OBVIOUS
  <2>1. \A w \in Workers : Running(w) => w = entry  BY DEF Alone, Running
  <2>2. SingleOwner
    <3>1. CASE Owners = {}
      <4>1. Cardinality(Owners) = 0  BY <3>1, FS_EmptySet
      <4> QED  BY <4>1 DEF SingleOwner
    <3>2. CASE Owners # {}
      <4>1. Owners = {entry}  BY <2>1, <3>2 DEF Owners
      <4>2. Cardinality({entry}) = 1  BY FS_Singleton
      <4>3. Cardinality(Owners) = 1  BY <4>1, <4>2
      <4> QED  BY <4>3 DEF SingleOwner
    <3> QED  BY <3>1, <3>2
  <2>3. EntryIsNotGone
    <3>1. entry # NoWorker => entry \in Workers  BY DEF IInv, TypeOK
    <3> QED  BY <3>1 DEF EntryIsNotGone, Alone
  <2> QED  BY <2>1, <2>2, <2>3 DEF EntryIsTheOwner, MapIsTrue, NoOrphanWorker
<1>2. Alone /\ IInv /\ [Next]_vars => Alone'
  BY StepStaysAlone
<1> QED  BY <1>1, <1>2, InitAlone, Invariant, PTL DEF Spec
==============================================================================
