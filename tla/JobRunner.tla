------------------------------ MODULE JobRunner ------------------------------
(***************************************************************************)
(* Running jobs and writing down what happened: one serial queue per       *)
(* tenant (util/serialise.ts), the claims on it and the rows it writes     *)
(* (jobs/runner.ts), the ticker that walks the registry (jobs/scheduler.ts)*)
(* and the refreshes a person starts (jobs/refresh.ts and its routes).     *)
(*                                                                         *)
(* JavaScript runs to completion: everything between two awaits is one     *)
(* action here. A job's function is a promise the runner awaits; when the  *)
(* runner's timer wins that race the function keeps running as a zombie.   *)
(***************************************************************************)
EXTENDS Integers, Sequences, FiniteSets

CONSTANTS
  TenantOrder,   \* the tenants, in the order allTenantIds returns them
  Registry,      \* the job names, in registry order
  Dependents,    \* DEPENDENTS: for each job, the jobs that read its output
  Schedule,      \* for each job, its schedule in the registry
  Local,         \* the instants of the clock, in the operator's time zone
  Requests,      \* the sets of jobs a POST /api/refresh may name
  ResetJobs,     \* RESET_REFRESH
  Keep,          \* config.JOB_HISTORY_KEEP
  Outcomes,      \* how a run may settle: a subset of AllOutcomes
  DbMayFail,     \* whether the database may refuse a write (disk full, locked)
  MaxClock,      \* bound on the clock (in ticker periods)
  MaxRefreshes,  \* bound on the refreshes accepted
  MaxStops       \* bound on the times the process dies or is told to stop

Tenants == {TenantOrder[k] : k \in 1 .. Len(TenantOrder)}
Jobs == {Registry[i] : i \in 1 .. Len(Registry)}

ASSUME OrderAssumption ==
  /\ TenantOrder \in Seq(Tenants)
  /\ Registry \in Seq(Jobs)
  /\ \A i, k \in 1 .. Len(Registry) : Registry[i] = Registry[k] => i = k
  /\ \A i, k \in 1 .. Len(TenantOrder) : TenantOrder[i] = TenantOrder[k] => i = k

ASSUME JobAssumption ==
  /\ Dependents \in [Jobs -> SUBSET Jobs]
  /\ Requests \subseteq SUBSET Jobs
  /\ ResetJobs \subseteq Jobs

Schedules == [kind : {"interval"}, period : Nat \ {0}]
             \cup [kind : {"daily"}, hour : 0 .. 23]
             \cup [kind : {"monthly"}, day : 1 .. 31, hour : 0 .. 23]

ASSUME ScheduleAssumption == Schedule \in [Jobs -> Schedules]

\* dateIn, hourIn and daysInMonth of an instant. Dates never go back: a zone that
\* puts its clock back across midnight is left out.
LocalTime == [month : Nat, length : 28 .. 31, day : 1 .. 31, hour : 0 .. 23]

ASSUME LocalAssumption ==
  /\ MaxClock \in Nat
  /\ Local \in [0 .. MaxClock -> LocalTime]
  /\ \A m, n \in 0 .. MaxClock : m <= n =>
       \/ Local[m].month < Local[n].month
       \/ /\ Local[m].month = Local[n].month /\ Local[m].length = Local[n].length
          /\ Local[m].day <= Local[n].day

AllOutcomes == {"ok", "partial", "error", "timeout"}

ASSUME BoundAssumption ==
  /\ Keep \in Nat \ {0}
  /\ MaxRefreshes \in Nat /\ MaxStops \in Nat
  /\ Outcomes \subseteq AllOutcomes
  /\ DbMayFail \in BOOLEAN

VARIABLES
  phase,      \* the process: "down", "up" (listening, ticking) or "stopping"
  clock,      \* the time, in ticker periods
  queue,      \* per tenant, the calls of runJob waiting behind the serialiser's tail
  exec,       \* per tenant, the call of runJob that holds the queue, or NoRun
  zombies,    \* per tenant and job, functions still running after their timeout
  inFlight,   \* the Set of claimed tenant:job keys
  row,        \* the jobs table
  runs,       \* the job_runs table, per tenant and job
  facts,      \* the tenants whose computed-fact tables are not empty
  pass,       \* the ticker's pass: the closure of runDueJobs
  refreshes,  \* refreshes accepted so far (names the chains; bounded)
  stops       \* times the process died or was told to stop (bounded)

vars == <<phase, clock, queue, exec, zombies, inFlight, row, runs, facts, pass,
          refreshes, stops>>

(***************************************************************************)
(* Values                                                                  *)
(***************************************************************************)
Never == -1                           \* a null timestamp
Times == {Never} \cup Nat
RowStatus == {"idle", "running", "ok", "error"}
RunStatus == {"running", "ok", "partial", "error"}
TickChain == 0                        \* the chain of a call the ticker makes

\* One call of runJob. All calls of a refresh share its chain and its instant.
Call == [job : Jobs, chain : Nat, at : Times]
Run == [call : Call, id : Nat]
NoRun == [id |-> -1]

JobRow == [status : RowStatus, lastRunAt : Times, lastSuccessAt : Times]
HistoryRow == [id : Nat, at : Times, status : RunStatus]

TenantIndex == 1 .. Len(TenantOrder)
JobIndex == 1 .. Len(Registry)
Rank(j) == CHOOSE i \in JobIndex : Registry[i] = j

NoPass == [on |-> FALSE]
Pass == [on : {TRUE}, now : Nat, tenant : TenantIndex, job : JobIndex,
         seen : [Jobs -> Times]]

Busy(t) == exec[t] # NoRun
ClaimedBy(t) == {j \in Jobs : <<t, j>> \in inFlight}      \* jobsInFlight(t)

(***************************************************************************)
(* expand: what was asked for and everything that reads it, transitively,  *)
(* in registry order whatever order the caller used.                       *)
(***************************************************************************)
Closed(S) == \A j \in S : Dependents[j] \subseteq S
Expand(asked) ==
  {j \in Jobs : \A S \in SUBSET Jobs : asked \subseteq S /\ Closed(S) => j \in S}

ChainsOf(S) == [1 .. Cardinality(S) -> S]
AnyOrder(chain) == \A i, k \in DOMAIN chain : i < k => chain[i] # chain[k]
InOrder(chain) == \A i, k \in DOMAIN chain : i < k => Rank(chain[i]) < Rank(chain[k])

CallsOf(chain, c, at) ==
  [i \in 1 .. Len(chain) |-> [job |-> chain[i], chain |-> c, at |-> at]]

(***************************************************************************)
(* runJob up to its first await: the claim is taken before the queue is    *)
(* touched. "held" is the set of claims before this step's own.            *)
(***************************************************************************)
Claim(held, t, calls) ==
  /\ inFlight' = held \cup {<<t, calls[i].job>> : i \in 1 .. Len(calls)}
  /\ queue' = [queue EXCEPT ![t] = @ \o calls]

(***************************************************************************)
(* isDue, for the tick instant and the lastRunAt the pass has read. A      *)
(* month without the due day takes its last one, and a run before the due  *)
(* day leaves the month's slot open.                                       *)
(***************************************************************************)
SameDate(one, other) == one.month = other.month /\ one.day = other.day
DueDay(s, today) == IF s.day <= today.length THEN s.day ELSE today.length
RanThisCycle(s, today, ran) == ran.month = today.month /\ ran.day >= DueDay(s, today)

Due(j, now, last) ==
  LET s == Schedule[j] IN
  \/ last = Never
  \/ s.kind = "interval" /\ now - last >= s.period
  \/ /\ s.kind = "daily"
     /\ ~SameDate(Local[last], Local[now])
     /\ Local[now].hour >= s.hour
  \/ /\ s.kind = "monthly"
     /\ ~RanThisCycle(s, Local[now], Local[last])
     /\ Local[now].day >= DueDay(s, Local[now])
     /\ Local[now].hour >= s.hour

SeenInFirst(rows, k) == [j \in Jobs |-> rows[TenantOrder[1]][j].lastRunAt]
SeenIn(rows, k) == [j \in Jobs |-> rows[TenantOrder[k]][j].lastRunAt]

\* The positions of the walk after <<k, i>> that are due. The rows of tenant k
\* were read when the walk reached it; a later tenant's are read on arrival.
DueAfter(rows, k, i, seen, now) ==
  {p \in TenantIndex \X JobIndex :
     /\ p[1] > k \/ (p[1] = k /\ p[2] > i)
     /\ Due(Registry[p[2]], now,
            IF p[1] = k THEN seen[Registry[p[2]]]
                        ELSE rows[TenantOrder[p[1]]][Registry[p[2]]].lastRunAt)}

Before(p, q) == p[1] < q[1] \/ (p[1] = q[1] /\ p[2] <= q[2])

\* runDueJobs from just after <<k, i>> to its next await, or to its end.
WalkFrom(held, rows, k, i, seen, now) ==
  LET due == DueAfter(rows, k, i, seen, now) IN
  \/ /\ due = {}
     /\ pass' = NoPass
     /\ inFlight' = held
     /\ UNCHANGED queue
  \/ \E p \in due :
       /\ \A q \in due : Before(p, q)
       /\ pass' = [on |-> TRUE, now |-> now, tenant |-> p[1], job |-> p[2],
                   seen |-> IF p[1] = k THEN seen ELSE SeenIn(rows, p[1])]
       /\ Claim(held, TenantOrder[p[1]],
                <<[job |-> Registry[p[2]], chain |-> TickChain, at |-> now]>>)

Tick(rows, now) == WalkFrom(inFlight, rows, 1, 0, SeenIn(rows, 1), now)

(***************************************************************************)
(* The job_runs table                                                      *)
(***************************************************************************)
\* The smallest name no row has: a stand-in for crypto.randomUUID.
FreshIds(rs) ==
  {n \in 1 .. Cardinality(rs) + 1 :
     /\ \A r \in rs : r.id # n
     /\ \A k \in 1 .. n - 1 : \E r \in rs : r.id = k}

NoUpdate(rs, id, status) == rs
WithStatus(rs, id, status) ==
  {IF r.id = id THEN [r EXCEPT !.status = status] ELSE r : r \in rs}

\* pruneJobRuns: the Keep most recent by startedAt survive. Rows that share an
\* instant are in no defined order, so any of them may be the ones kept.
Pruned(rs) ==
  IF Cardinality(rs) < Keep THEN {rs}
  ELSE {kept \in SUBSET rs :
          /\ Cardinality(kept) = Keep
          /\ \A r \in kept, s \in rs \ kept : r.at >= s.at}

Interrupted(rs) ==
  {IF r.status = "running" THEN [r EXCEPT !.status = "error"] ELSE r : r \in rs}

(***************************************************************************)
(* The process starts: migrations, listen, scheduler.start. The stale rows *)
(* are cleared and the first tick runs, before any request is handled.     *)
(***************************************************************************)
ClearedRow(r) == IF r.status = "running" THEN [r EXCEPT !.status = "error"] ELSE r

ClearStaleRunning ==
  /\ row' = [t \in Tenants |-> [j \in Jobs |-> ClearedRow(row[t][j])]]
  /\ runs' = [t \in Tenants |-> [j \in Jobs |-> Interrupted(runs[t][j])]]

Boot ==
  /\ phase = "down"
  /\ phase' = "up"
  /\ ClearStaleRunning
  /\ Tick(row', clock)
  /\ UNCHANGED <<clock, exec, zombies, facts, refreshes, stops>>

(***************************************************************************)
(* A minute goes by, and the interval fires.                               *)
(***************************************************************************)
CanTick == phase = "up" /\ ~pass.on          \* tick() skips while ticking

ClockTick ==
  /\ clock < MaxClock
  /\ clock' = clock + 1
  /\ IF CanTick
     THEN Tick(row, clock + 1)
     ELSE UNCHANGED <<pass, inFlight, queue>>
  /\ UNCHANGED <<phase, exec, zombies, row, runs, facts, refreshes, stops>>

(***************************************************************************)
(* The front of a tenant's queue starts: the rows say so, then job.run is  *)
(* called.                                                                 *)
(***************************************************************************)
RequeuedRefresh(q) == IF Head(q).chain = TickChain THEN Tail(q) ELSE Append(Tail(q), Head(q))
Behind(q) == Tail(q)          \* what the settled tail has left to start

MarkedRunning(r, call) == [r EXCEPT !.status = "running", !.lastRunAt = call.at]

StartRun(t) ==
  LET call == Head(queue[t])
      j == call.job
  IN
  /\ phase # "down"
  /\ ~Busy(t)
  /\ queue[t] # <<>>
  /\ queue' = [queue EXCEPT ![t] = Behind(@)]
  /\ row' = [row EXCEPT ![t][j] = MarkedRunning(@, call)]
  /\ \E id \in FreshIds(runs[t][j]) :
       /\ exec' = [exec EXCEPT ![t] = [call |-> call, id |-> id]]
       /\ runs' = [runs EXCEPT ![t][j] =
                     @ \cup {[id |-> id, at |-> call.at, status |-> "running"]}]
  /\ UNCHANGED <<phase, clock, zombies, inFlight, facts, pass, refreshes, stops>>

\* A rejected call ends the pass that awaited it: tick() logs and drops it.
PassStuck(call) == pass
PassAfterRejection(call) == IF call.chain = TickChain THEN NoPass ELSE pass

\* The same start when the database fails before the try: nothing written, or
\* the jobs row but not its job_runs row. The claim is not given back, and a
\* pass that was waiting for this call ends with its rejection.
StartRunFails(t) ==
  LET call == Head(queue[t])
      j == call.job
  IN
  /\ DbMayFail
  /\ phase # "down"
  /\ ~Busy(t)
  /\ queue[t] # <<>>
  /\ queue' = [queue EXCEPT ![t] = Behind(@)]
  /\ \/ UNCHANGED row
     \/ row' = [row EXCEPT ![t][j] = MarkedRunning(@, call)]
  /\ pass' = PassAfterRejection(call)
  /\ UNCHANGED <<phase, clock, exec, zombies, inFlight, runs, facts, refreshes, stops>>

(***************************************************************************)
(* The run settles. deriveRunStatus: "partial" when job.run resolved after *)
(* swallowing a failed step; the jobs row says "ok" either way.            *)
(***************************************************************************)
Succeeded(outcome) == outcome \in {"ok", "partial"}
RunStatusOf(outcome) == IF outcome = "timeout" THEN "error" ELSE outcome

Recorded(r, call, outcome) ==
  [status |-> IF Succeeded(outcome) THEN "ok" ELSE "error",
   lastRunAt |-> call.at,
   lastSuccessAt |-> IF Succeeded(outcome) THEN clock ELSE r.lastSuccessAt]

ClaimKept(t) == inFlight
Released(t) == inFlight \ {<<t, exec[t].call.job>>}

\* What job.run left behind: its facts, some of them, or a zombie still at it.
JobEnds(t, outcome) ==
  LET j == exec[t].call.job IN
  /\ facts' \in IF Succeeded(outcome) THEN {facts \cup {t}}
                                       ELSE {facts, facts \cup {t}}
  /\ zombies' = IF outcome = "timeout"
                THEN [zombies EXCEPT ![t][j] = @ + 1]
                ELSE zombies

FinishRun(t, outcome) ==
  LET call == exec[t].call
      j == call.job
      written == WithStatus(runs[t][j], exec[t].id, RunStatusOf(outcome))
  IN
  /\ phase # "down"
  /\ Busy(t)
  /\ JobEnds(t, outcome)
  /\ exec' = [exec EXCEPT ![t] = NoRun]
  /\ row' = [row EXCEPT ![t][j] = Recorded(@, call, outcome)]
  /\ \E kept \in Pruned(written) : runs' = [runs EXCEPT ![t][j] = kept]
  /\ IF call.chain = TickChain
     THEN WalkFrom(Released(t), row', pass.tenant, pass.job, pass.seen, pass.now)
     ELSE /\ inFlight' = Released(t)
          /\ UNCHANGED <<queue, pass>>
  /\ UNCHANGED <<phase, clock, refreshes, stops>>

\* The same settling when the database fails part-way: before the jobs row is
\* written, before the job_runs row is, or in the prune. runJob rejects.
FinishRunFails(t, outcome) ==
  LET call == exec[t].call
      j == call.job
      recorded == [row EXCEPT ![t][j] = Recorded(@, call, outcome)]
      written == WithStatus(runs[t][j], exec[t].id, RunStatusOf(outcome))
  IN
  /\ DbMayFail
  /\ phase # "down"
  /\ Busy(t)
  /\ JobEnds(t, outcome)
  /\ exec' = [exec EXCEPT ![t] = NoRun]
  /\ inFlight' = Released(t)
  /\ \/ UNCHANGED <<row, runs>>
     \/ row' = recorded /\ UNCHANGED runs
     \/ row' = recorded /\ runs' = [runs EXCEPT ![t][j] = written]
  /\ pass' = PassAfterRejection(call)
  /\ UNCHANGED <<phase, clock, queue, refreshes, stops>>

\* A function whose runner gave up on it ends at last. Nobody reads its result.
ZombieEnds(t, j) ==
  /\ zombies[t][j] > 0
  /\ zombies' = [zombies EXCEPT ![t][j] = @ - 1]
  /\ facts' \in {facts, facts \cup {t}}
  /\ UNCHANGED <<phase, clock, queue, exec, inFlight, row, runs, pass, refreshes, stops>>

(***************************************************************************)
(* Requests. The busy check and the claims of the whole chain are one step;*)
(* a busy pipeline is a 409 that changes nothing.                          *)
(***************************************************************************)
StartRefresh(t, asked) ==
  /\ phase = "up"
  /\ ClaimedBy(t) = {}
  /\ refreshes < MaxRefreshes
  /\ refreshes' = refreshes + 1
  /\ \E chain \in ChainsOf(Expand(asked)) :
       /\ InOrder(chain)
       /\ Claim(inFlight, t, CallsOf(chain, refreshes + 1, clock))

Refresh(t, asked) ==
  /\ StartRefresh(t, asked)
  /\ UNCHANGED <<phase, clock, exec, zombies, row, runs, facts, pass, stops>>

\* resetComputedData: every computed-fact table of the tenant, in one transaction.
Wiped(t) == facts \ {t}

Reset(t) ==
  /\ StartRefresh(t, ResetJobs)
  /\ facts' = Wiped(t)
  /\ UNCHANGED <<phase, clock, exec, zombies, row, runs, pass, stops>>

(***************************************************************************)
(* The process goes away: killed, or after a shutdown that stops the timer *)
(* and the server and lets the workers drain. Only the tables survive.     *)
(***************************************************************************)
CountStop ==
  /\ stops < MaxStops
  /\ stops' = stops + 1

Shutdown ==
  /\ phase = "up"
  /\ CountStop
  /\ phase' = "stopping"
  /\ UNCHANGED <<clock, queue, exec, zombies, inFlight, row, runs, facts, pass, refreshes>>

MemoryIsLost ==
  /\ phase' = "down"
  /\ queue' = [t \in Tenants |-> <<>>]
  /\ exec' = [t \in Tenants |-> NoRun]
  /\ zombies' = [t \in Tenants |-> [j \in Jobs |-> 0]]
  /\ inFlight' = {}
  /\ pass' = NoPass
  /\ UNCHANGED <<clock, row, runs, facts, refreshes>>

Exit ==
  /\ phase = "stopping"
  /\ MemoryIsLost
  /\ UNCHANGED stops

Crash ==
  /\ phase # "down"
  /\ CountStop
  /\ MemoryIsLost

Init ==
  /\ phase = "down"
  /\ clock = 0
  /\ queue = [t \in Tenants |-> <<>>]
  /\ exec = [t \in Tenants |-> NoRun]
  /\ zombies = [t \in Tenants |-> [j \in Jobs |-> 0]]
  /\ inFlight = {}
  /\ row = [t \in Tenants |-> [j \in Jobs |->
              [status |-> "idle", lastRunAt |-> Never, lastSuccessAt |-> Never]]]
  /\ runs = [t \in Tenants |-> [j \in Jobs |-> {}]]
  /\ facts = {}
  /\ pass = NoPass
  /\ refreshes = 0
  /\ stops = 0

Settles(t) == \E outcome \in Outcomes : FinishRun(t, outcome) \/ FinishRunFails(t, outcome)
Starts(t) == StartRun(t) \/ StartRunFails(t)

Next ==
  \/ Boot
  \/ ClockTick
  \/ \E t \in Tenants :
       \/ StartRun(t)
       \/ StartRunFails(t)
       \/ \E outcome \in Outcomes : FinishRun(t, outcome)
       \/ \E outcome \in Outcomes : FinishRunFails(t, outcome)
       \/ \E j \in Jobs : ZombieEnds(t, j)
       \/ \E asked \in Requests : Refresh(t, asked)
       \/ Reset(t)
  \/ Shutdown
  \/ Exit
  \/ Crash

\* A settled predecessor starts its successor, and withTimeout settles every
\* run; nothing makes a zombie end, a minute pass or a person ask.
Fairness == \A t \in Tenants : WF_vars(Starts(t)) /\ WF_vars(Settles(t))

Spec == Init /\ [][Next]_vars
FairSpec == Spec /\ Fairness

(***************************************************************************)
(* Properties                                                              *)
(***************************************************************************)

\* Type invariant: the process's memory and the rows of both tables stay
\* within the shapes and enums the code declares.
TypeOK ==
  /\ phase \in {"down", "up", "stopping"}
  /\ clock \in Nat
  /\ queue \in [Tenants -> Seq(Call)]
  /\ exec \in [Tenants -> Run \cup {NoRun}]
  /\ zombies \in [Tenants -> [Jobs -> Nat]]
  /\ inFlight \subseteq Tenants \X Jobs
  /\ row \in [Tenants -> [Jobs -> JobRow]]
  /\ runs \in [Tenants -> [Jobs -> SUBSET HistoryRow]]
  /\ facts \subseteq Tenants
  /\ pass \in Pass \cup {NoPass}
  /\ refreshes \in Nat
  /\ stops \in Nat

\* The calls of tenant t that the process still owes an answer.
Pending(t) == (IF Busy(t) THEN {exec[t].call} ELSE {})
              \cup {queue[t][i] : i \in 1 .. Len(queue[t])}

\* A claim is only ever held by a call that is queued or running, so a refresh
\* is never refused (409) on account of a job that no longer exists.
ClaimsAreReal ==
  \A t \in Tenants : \A j \in ClaimedBy(t) : \E call \in Pending(t) : call.job = j

\* A jobs row says "running" exactly while that job holds its tenant's queue.
\* So does a job_runs row: the run in progress still has its row to write its
\* end into (no prune took it), and no other row is left running. What a crash
\* left behind is believed only until the process is back.
RunningRowsAreLive ==
  phase # "down" =>
    \A t \in Tenants, j \in Jobs :
      /\ row[t][j].status = "running" <=> (Busy(t) /\ exec[t].call.job = j)
      /\ {r.id : r \in {h \in runs[t][j] : h.status = "running"}} =
           (IF Busy(t) /\ exec[t].call.job = j THEN {exec[t].id} ELSE {})

\* A tenant's refreshes never interleave, and within one the jobs run in dependency
\* order: whatever is running or ahead in the queue belongs to an earlier refresh
\* than what waits behind it, or to the same one and earlier in the registry.
RunsBefore(c, d) == c.chain < d.chain \/ (c.chain = d.chain /\ Rank(c.job) < Rank(d.job))
OfRefreshes(c, d) == c.chain # TickChain /\ d.chain # TickChain

ChainsRunInOrder ==
  \A t \in Tenants :
    \A i \in 1 .. Len(queue[t]) :
      LET behind == queue[t][i] IN
      /\ \A k \in 1 .. i - 1 :
           OfRefreshes(queue[t][k], behind) => RunsBefore(queue[t][k], behind)
      /\ Busy(t) /\ OfRefreshes(exec[t].call, behind) => RunsBefore(exec[t].call, behind)

\* The ticker has at most one call outstanding in the whole process, and the
\* pass that is on is waiting for exactly that call.
TickCalls(t) == {call \in Pending(t) : call.chain = TickChain}
PassAwaitsItsCall ==
  IF pass.on
  THEN /\ TickCalls(TenantOrder[pass.tenant]) =
            {[job |-> Registry[pass.job], chain |-> TickChain, at |-> pass.now]}
       /\ \A t \in Tenants \ {TenantOrder[pass.tenant]} : TickCalls(t) = {}
  ELSE \A t \in Tenants : TickCalls(t) = {}

\* A pass that runs to its end skips nobody: at its own instant no job of any
\* tenant is due any more, but for those a refresh has run since that instant,
\* whatever refreshes did to the rows after the pass had read them.
SettledFor(j, now, last) == last > now \/ ~Due(j, now, last)
PassSettlesDue ==
  (pass.on /\ ~pass'.on /\ phase' # "down") =>
    \A t \in Tenants, j \in Jobs : SettledFor(j, pass.now, row'[t][j].lastRunAt)

\* When a run has settled, its job keeps at most Keep rows of history.
HistoryIsBounded ==
  \A t \in Tenants : (Busy(t) /\ exec'[t] = NoRun /\ phase' # "down") =>
    Cardinality(runs'[t][exec[t].call.job]) <= Keep

\* What runs and passes leave behind, taken together: nothing that is due, and no
\* more history than is kept.
EndsAreSettled == [][PassSettlesDue /\ HistoryIsBounded]_vars

\* Every pass ends, even when runs time out: the ticking flag, which makes
\* every later tick a no-op, never stays up.
PassEnds == pass.on ~> ~pass.on

\* Every refresh accepted comes to its end: each call of its chain is started
\* and settled, whatever times out and whatever the database refuses.
InProgress(c) == \E t \in Tenants : \E call \in Pending(t) : call.chain = c
RefreshesEnd == \A c \in 1 .. MaxRefreshes : InProgress(c) ~> ~InProgress(c)

(***************************************************************************)
(* What the source says and the code does not do                           *)
(***************************************************************************)

\* routes/refresh.ts:227: a reset never deletes the output of a job that is
\* already running.
ResetWaitsForRunningJobs ==
  [][ \A t \in facts \ facts' : ~Busy(t) ]_vars
==============================================================================
