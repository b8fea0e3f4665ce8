-------------------------- MODULE JobRunnerProofs --------------------------
(***************************************************************************)
(* What holds of the job runner for every registry, every set of tenants   *)
(* and every bound.                                                        *)
(***************************************************************************)
EXTENDS JobRunner, FiniteSetTheorems, SequenceTheorems, TLAPS

LEMMA OrderTypes ==
  /\ \A k \in TenantIndex : TenantOrder[k] \in Tenants
  /\ \A i \in JobIndex : Registry[i] \in Jobs
BY DEF TenantIndex, JobIndex, Tenants, Jobs

\* The part of a pass that finds the next due job keeps the types.
LEMMA WalkTypes ==
  ASSUME TypeOK,
         NEW held \in SUBSET (Tenants \X Jobs),
         NEW rows \in [Tenants -> [Jobs -> JobRow]],
         NEW k, NEW i,
         NEW seen \in [Jobs -> Times], NEW now \in Nat,
         WalkFrom(held, rows, k, i, seen, now)
  PROVE  /\ queue' \in [Tenants -> Seq(Call)]
         /\ inFlight' \subseteq Tenants \X Jobs
         /\ pass' \in Pass \cup {NoPass}
<1> DEFINE due == DueAfter(rows, k, i, seen, now)
<1>1. CASE due = {} /\ pass' = NoPass /\ inFlight' = held /\ UNCHANGED queue
  BY <1>1 DEF TypeOK
<1>2. ASSUME NEW p \in due,
             pass' = [on |-> TRUE, now |-> now, tenant |-> p[1], job |-> p[2],
                      seen |-> IF p[1] = k THEN seen ELSE SeenIn(rows, p[1])],
             Claim(held, TenantOrder[p[1]],
                   <<[job |-> Registry[p[2]], chain |-> TickChain, at |-> now]>>)
      PROVE  /\ queue' \in [Tenants -> Seq(Call)]
             /\ inFlight' \subseteq Tenants \X Jobs
             /\ pass' \in Pass \cup {NoPass}
  <2> DEFINE call == [job |-> Registry[p[2]], chain |-> TickChain, at |-> now]
             t == TenantOrder[p[1]]
  <2>1. p[1] \in TenantIndex /\ p[2] \in JobIndex
    BY <1>2 DEF DueAfter
  <2>2. t \in Tenants /\ Registry[p[2]] \in Jobs
    BY <2>1, OrderTypes
  <2>3. call \in Call
    BY <2>2 DEF Call, TickChain, Times
  <2>4. SeenIn(rows, p[1]) \in [Jobs -> Times]
    BY <2>2 DEF SeenIn, JobRow
  <2>5. pass' \in Pass
    BY <1>2, <2>1, <2>4 DEF Pass
  <2>6. queue' = [queue EXCEPT ![t] = @ \o <<call>>]
    BY <1>2 DEF Claim
  <2>7. queue' \in [Tenants -> Seq(Call)]
    BY <2>2, <2>3, <2>6 DEF TypeOK
  <2>8. inFlight' = held \cup {<<t, Registry[p[2]]>>}
    BY <1>2 DEF Claim
  <2> QED BY <2>2, <2>5, <2>7, <2>8
<1> QED BY <1>1, <1>2 DEF WalkFrom

\* WithStatus and pruning keep a set of history rows.
LEMMA HistoryTypes ==
  ASSUME NEW rs \in SUBSET HistoryRow, NEW id, NEW status \in RunStatus
  PROVE  /\ WithStatus(rs, id, status) \in SUBSET HistoryRow
         /\ \A kept \in Pruned(WithStatus(rs, id, status)) : kept \in SUBSET HistoryRow
<1>1. WithStatus(rs, id, status) \in SUBSET HistoryRow
  BY DEF WithStatus, HistoryRow
<1>2. \A kept \in Pruned(WithStatus(rs, id, status)) :
         kept \subseteq WithStatus(rs, id, status)
  BY DEF Pruned
<1> QED BY <1>1, <1>2

\* What settling a run writes to the jobs row and the job_runs row.
LEMMA OutcomeTypes ==
  ASSUME TypeOK, NEW t \in Tenants, Busy(t), NEW outcome \in Outcomes
  PROVE  /\ exec[t].call \in Call /\ exec[t].call.job \in Jobs /\ exec[t].id \in Nat
         /\ RunStatusOf(outcome) \in RunStatus
         /\ \A r \in JobRow : Recorded(r, exec[t].call, outcome) \in JobRow
         /\ Released(t) \in SUBSET (Tenants \X Jobs)
<1>1. exec[t] \in Run
  BY DEF TypeOK, Busy
<1>2. exec[t].call \in Call /\ exec[t].call.job \in Jobs /\ exec[t].id \in Nat
      /\ exec[t].call.at \in Times
  BY <1>1 DEF Run, Call
<1>3. RunStatusOf(outcome) \in RunStatus
  BY BoundAssumption DEF RunStatusOf, RunStatus, AllOutcomes
<1>4. \A r \in JobRow : Recorded(r, exec[t].call, outcome) \in JobRow
  BY <1>2 DEF Recorded, JobRow, RowStatus, Times, TypeOK
<1>5. Released(t) \in SUBSET (Tenants \X Jobs)
  BY DEF Released, TypeOK
<1> QED BY <1>2, <1>3, <1>4, <1>5

LEMMA JobEndsTypes ==
  ASSUME TypeOK, NEW t \in Tenants, Busy(t), NEW outcome \in Outcomes, JobEnds(t, outcome)
  PROVE  facts' \subseteq Tenants /\ zombies' \in [Tenants -> [Jobs -> Nat]]
<1>1. exec[t].call.job \in Jobs
  BY OutcomeTypes
<1>2. facts' \subseteq Tenants
  BY DEF JobEnds, TypeOK
<1>3. zombies' \in [Tenants -> [Jobs -> Nat]]
  BY <1>1 DEF JobEnds, TypeOK
<1> QED BY <1>2, <1>3

\* The first call in a tenant's queue.
LEMMA HeadTypes ==
  ASSUME TypeOK, NEW t \in Tenants, queue[t] # <<>>
  PROVE  /\ Head(queue[t]) \in Call
         /\ Head(queue[t]).job \in Jobs
         /\ Head(queue[t]).at \in Times
         /\ [queue EXCEPT ![t] = Tail(@)] \in [Tenants -> Seq(Call)]
<1>1. queue[t] \in Seq(Call)
  BY DEF TypeOK
<1>2. Head(queue[t]) \in Call /\ Tail(queue[t]) \in Seq(Call)
  BY <1>1
<1> QED BY <1>2 DEF Call, TypeOK

LEMMA JobsFinite == IsFiniteSet(Jobs)
<1>1. Registry \in Surjection(1 .. Len(Registry), Jobs)
  BY OrderAssumption DEF Surjection, Jobs
<1>2. IsFiniteSet(1 .. Len(Registry))
  BY OrderAssumption, FS_Interval
<1> QED BY <1>1, <1>2, FS_Surjection

LEMMA ChainTypes ==
  ASSUME NEW S \in SUBSET Jobs, NEW chain \in ChainsOf(S), NEW c \in Nat, NEW at \in Times
  PROVE  /\ CallsOf(chain, c, at) \in Seq(Call)
         /\ \A i \in 1 .. Len(CallsOf(chain, c, at)) : CallsOf(chain, c, at)[i].job \in Jobs
<1>1. Cardinality(S) \in Nat
  BY JobsFinite, FS_Subset, FS_CardinalityType
<1>2. chain \in Seq(Jobs)
  BY <1>1 DEF ChainsOf
<1>3. \A i \in 1 .. Len(chain) : [job |-> chain[i], chain |-> c, at |-> at] \in Call
  BY <1>2 DEF Call
<1>4. CallsOf(chain, c, at) \in Seq(Call)
  BY <1>2, <1>3 DEF CallsOf
<1>5. \A i \in 1 .. Len(CallsOf(chain, c, at)) : CallsOf(chain, c, at)[i] \in Call
  BY <1>4, ElementOfSeq
<1> QED BY <1>4, <1>5 DEF Call

LEMMA RefreshTypes ==
  ASSUME TypeOK, NEW t \in Tenants, NEW asked \in SUBSET Jobs, StartRefresh(t, asked)
  PROVE  /\ queue' \in [Tenants -> Seq(Call)]
         /\ inFlight' \subseteq Tenants \X Jobs
         /\ refreshes' \in Nat
<1>1. PICK chain \in ChainsOf(Expand(asked)) :
         Claim(inFlight, t, CallsOf(chain, refreshes + 1, clock))
  BY DEF StartRefresh
<1> DEFINE calls == CallsOf(chain, refreshes + 1, clock)
<1>2. Expand(asked) \in SUBSET Jobs
  BY DEF Expand
<1>3. clock \in Times /\ refreshes + 1 \in Nat
  BY DEF TypeOK, Times
<1>4. calls \in Seq(Call) /\ \A i \in 1 .. Len(calls) : calls[i].job \in Jobs
  BY <1>2, <1>3, ChainTypes
<1> HIDE DEF calls
<1>5. queue' = [queue EXCEPT ![t] = @ \o calls]
      /\ inFlight' = inFlight \cup {<<t, calls[i].job>> : i \in 1 .. Len(calls)}
  BY <1>1 DEF Claim, calls
<1>6. queue' \in [Tenants -> Seq(Call)]
  BY <1>4, <1>5 DEF TypeOK
<1>7. inFlight' \subseteq Tenants \X Jobs
  BY <1>4, <1>5 DEF TypeOK
<1>8. refreshes' \in Nat
  BY DEF StartRefresh, TypeOK
<1> QED BY <1>6, <1>7, <1>8

(***************************************************************************)
(* The ticker has at most one call outstanding. As a statement about sets  *)
(* of calls this is not inductive (two equal calls would count as one), so *)
(* it is strengthened to the places the call may be in.                    *)
(***************************************************************************)
Awaited(t, call) ==
  /\ pass.on
  /\ t = TenantOrder[pass.tenant]
  /\ call = [job |-> Registry[pass.job], chain |-> TickChain, at |-> pass.now]

IsTick(call) == call.chain = TickChain
RunsTick(t) == Busy(t) /\ IsTick(exec[t].call)
WaitsTick(t, i) == i \in 1 .. Len(queue[t]) /\ IsTick(queue[t][i])

RunningTickIsAwaited ==
  \A t \in Tenants :
    RunsTick(t) => Awaited(t, exec[t].call) /\ \A i : ~WaitsTick(t, i)

WaitingTickIsAwaited ==
  \A t \in Tenants : \A i :
    WaitsTick(t, i) => Awaited(t, queue[t][i]) /\ \A k : WaitsTick(t, k) => k = i

AwaitedTickIsThere ==
  pass.on => \E t \in Tenants : RunsTick(t) \/ \E i : WaitsTick(t, i)

PassInv == RunningTickIsAwaited /\ WaitingTickIsAwaited /\ AwaitedTickIsThere

(***************************************************************************)
(* Type correctness                                                        *)
(***************************************************************************)
LEMMA InitTypes == Init => TypeOK
BY DEF Init, TypeOK, NoPass, Pass, JobRow, RowStatus, Times, Never

LEMMA NextTypes == TypeOK /\ RunningTickIsAwaited /\ [Next]_vars => TypeOK'
<1> SUFFICES ASSUME TypeOK, RunningTickIsAwaited, [Next]_vars PROVE TypeOK'
  OBVIOUS
<1>1. CASE Boot
  <2>1. row' \in [Tenants -> [Jobs -> JobRow]]
    <3>1. \A r \in JobRow : ClearedRow(r) \in JobRow
      BY DEF ClearedRow, JobRow, RowStatus
    <3> QED BY <1>1, <3>1 DEF Boot, ClearStaleRunning, TypeOK
  <2>2. runs' \in [Tenants -> [Jobs -> SUBSET HistoryRow]]
    <3>1. \A rs \in SUBSET HistoryRow : Interrupted(rs) \in SUBSET HistoryRow
      BY DEF Interrupted, HistoryRow, RunStatus
    <3> QED BY <1>1, <3>1 DEF Boot, ClearStaleRunning, TypeOK
  <2>3. CASE TenantIndex = {}
    <3>1. pass' = NoPass /\ inFlight' = inFlight /\ UNCHANGED queue
      BY <1>1, <2>3 DEF Boot, Tick, WalkFrom, DueAfter
    <3> QED BY <1>1, <2>1, <2>2, <3>1 DEF Boot, TypeOK
  <2>4. CASE 1 \in TenantIndex
    <3>1. SeenIn(row', 1) \in [Jobs -> Times]
      BY <2>1, <2>4, OrderTypes DEF SeenIn, JobRow
    <3>2. WalkFrom(inFlight, row', 1, 0, SeenIn(row', 1), clock)
      BY <1>1 DEF Boot, Tick
    <3>3. /\ queue' \in [Tenants -> Seq(Call)]
          /\ inFlight' \subseteq Tenants \X Jobs
          /\ pass' \in Pass \cup {NoPass}
      BY <2>1, <3>1, <3>2, WalkTypes DEF TypeOK
    <3> QED BY <1>1, <2>1, <2>2, <3>3 DEF Boot, TypeOK
  <2>5. TenantIndex = {} \/ 1 \in TenantIndex
    BY OrderAssumption DEF TenantIndex
  <2> QED BY <2>3, <2>4, <2>5
<1>2. CASE ClockTick
  <2>1. clock' \in Nat
    BY <1>2 DEF ClockTick, TypeOK
  <2>2. CASE CanTick /\ 1 \in TenantIndex
    <3>1. SeenIn(row, 1) \in [Jobs -> Times]
      BY <2>2, OrderTypes DEF SeenIn, JobRow, TypeOK
    <3>2. WalkFrom(inFlight, row, 1, 0, SeenIn(row, 1), clock + 1)
      BY <1>2, <2>2 DEF ClockTick, Tick
    <3>3. /\ queue' \in [Tenants -> Seq(Call)]
          /\ inFlight' \subseteq Tenants \X Jobs
          /\ pass' \in Pass \cup {NoPass}
      <4>1. clock + 1 \in Nat /\ row \in [Tenants -> [Jobs -> JobRow]]
            /\ inFlight \in SUBSET (Tenants \X Jobs)
        BY DEF TypeOK
      <4> QED BY <3>1, <3>2, <4>1, WalkTypes
    <3> QED BY <1>2, <2>1, <3>3 DEF ClockTick, TypeOK
  <2>3. CASE CanTick /\ TenantIndex = {}
    <3>1. pass' = NoPass /\ inFlight' = inFlight /\ UNCHANGED queue
      BY <1>2, <2>3 DEF ClockTick, Tick, WalkFrom, DueAfter
    <3> QED BY <1>2, <2>1, <3>1 DEF ClockTick, TypeOK
  <2>4. CASE ~CanTick
    BY <1>2, <2>1, <2>4 DEF ClockTick, TypeOK
  <2>5. TenantIndex = {} \/ 1 \in TenantIndex
    BY OrderAssumption DEF TenantIndex
  <2> QED BY <2>2, <2>3, <2>4, <2>5
<1>3. ASSUME NEW t \in Tenants, StartRun(t) PROVE TypeOK'
  <2> DEFINE call == Head(queue[t])
             j == call.job
  <2>1. /\ call \in Call /\ j \in Jobs /\ call.at \in Times
        /\ queue' \in [Tenants -> Seq(Call)]
    BY <1>3, HeadTypes DEF Behind, StartRun
  <2>2. PICK id \in FreshIds(runs[t][j]) :
          /\ exec' = [exec EXCEPT ![t] = [call |-> call, id |-> id]]
          /\ runs' = [runs EXCEPT ![t][j] =
                        @ \cup {[id |-> id, at |-> call.at, status |-> "running"]}]
    BY <1>3 DEF Behind, StartRun
  <2>3. id \in Nat
    BY DEF FreshIds
  <2> HIDE DEF call, j
  <2>4. exec' \in [Tenants -> Run \cup {NoRun}]
    BY <2>1, <2>2, <2>3 DEF Run, TypeOK
  <2>5. runs' \in [Tenants -> [Jobs -> SUBSET HistoryRow]]
    <3>1. [id |-> id, at |-> call.at, status |-> "running"] \in HistoryRow
      BY <2>1, <2>3 DEF HistoryRow, RunStatus
    <3> QED BY <2>1, <2>2, <3>1 DEF TypeOK
  <2>6. row' \in [Tenants -> [Jobs -> JobRow]]
    <3>1. row' = [row EXCEPT ![t][j] = MarkedRunning(@, call)]
      BY <1>3 DEF Behind, StartRun, call, j
    <3>2. \A r \in JobRow : MarkedRunning(r, call) \in JobRow
      BY <2>1 DEF MarkedRunning, JobRow, RowStatus
    <3>3. row[t][j] \in JobRow
      BY <2>1 DEF TypeOK
    <3> QED BY <2>1, <3>1, <3>2, <3>3 DEF TypeOK
  <2> QED BY <1>3, <2>1, <2>4, <2>5, <2>6 DEF Behind, StartRun, TypeOK
<1>4. ASSUME NEW t \in Tenants, StartRunFails(t) PROVE TypeOK'
  <2> DEFINE call == Head(queue[t])
             j == call.job
  <2>1. /\ call \in Call /\ j \in Jobs /\ call.at \in Times
        /\ queue' \in [Tenants -> Seq(Call)]
    BY <1>4, HeadTypes DEF Behind, StartRunFails
  <2>2. row' \in [Tenants -> [Jobs -> JobRow]]
    <3>1. \A r \in JobRow : MarkedRunning(r, call) \in JobRow
      BY <2>1 DEF MarkedRunning, JobRow, RowStatus
    <3>2. row' = row \/ row' = [row EXCEPT ![t][j] = MarkedRunning(@, call)]
      BY <1>4 DEF Behind, StartRunFails
    <3> HIDE DEF call, j
    <3>3. row \in [Tenants -> [Jobs -> JobRow]] /\ MarkedRunning(row[t][j], call) \in JobRow
      BY <2>1, <3>1 DEF TypeOK
    <3>4. j \in Jobs
      BY <2>1
    <3>5. CASE row' = row
      BY <3>3, <3>5
    <3>6. CASE row' = [row EXCEPT ![t][j] = MarkedRunning(@, call)]
      BY <3>3, <3>4, <3>6
    <3> QED BY <3>2, <3>5, <3>6
  <2>3. pass' \in Pass \cup {NoPass}
    BY <1>4 DEF StartRunFails, PassAfterRejection, TypeOK
  <2> QED BY <1>4, <2>1, <2>2, <2>3 DEF StartRunFails, TypeOK
<1>5. ASSUME NEW t \in Tenants, NEW outcome \in Outcomes, FinishRun(t, outcome) PROVE TypeOK'
  <2> DEFINE call == exec[t].call
             j == call.job
             written == WithStatus(runs[t][j], exec[t].id, RunStatusOf(outcome))
  <2>1. Busy(t) /\ JobEnds(t, outcome)
    BY <1>5 DEF FinishRun
  <2>2. facts' \subseteq Tenants /\ zombies' \in [Tenants -> [Jobs -> Nat]]
    BY <2>1, JobEndsTypes
  <2>3. /\ call \in Call /\ j \in Jobs
        /\ RunStatusOf(outcome) \in RunStatus
        /\ \A r \in JobRow : Recorded(r, call, outcome) \in JobRow
        /\ Released(t) \in SUBSET (Tenants \X Jobs)
    BY <2>1, OutcomeTypes
  <2>4. row' \in [Tenants -> [Jobs -> JobRow]]
    BY <1>5, <2>3 DEF FinishRun, TypeOK
  <2>5. runs' \in [Tenants -> [Jobs -> SUBSET HistoryRow]]
    <3>1. PICK kept \in Pruned(written) : runs' = [runs EXCEPT ![t][j] = kept]
      BY <1>5 DEF FinishRun
    <3>2. runs[t][j] \in SUBSET HistoryRow
      BY <2>3 DEF TypeOK
    <3>3. kept \in SUBSET HistoryRow
      BY <2>3, <3>2, HistoryTypes
    <3> QED BY <2>3, <3>1, <3>3 DEF TypeOK
  <2>6. exec' \in [Tenants -> Run \cup {NoRun}]
    BY <1>5 DEF FinishRun, TypeOK
  <2>7. CASE call.chain = TickChain /\ pass.on
    <3>1. WalkFrom(Released(t), row', pass.tenant, pass.job, pass.seen, pass.now)
      BY <1>5, <2>7 DEF FinishRun
    <3>2. pass.seen \in [Jobs -> Times] /\ pass.now \in Nat
      <4>1. pass \in Pass
        BY <2>7 DEF TypeOK, NoPass
      <4> QED BY <4>1 DEF Pass
    <3>3. /\ queue' \in [Tenants -> Seq(Call)]
          /\ inFlight' \subseteq Tenants \X Jobs
          /\ pass' \in Pass \cup {NoPass}
      BY <2>3, <2>4, <3>1, <3>2, WalkTypes
    <3> QED BY <1>5, <2>2, <2>4, <2>5, <2>6, <3>3 DEF FinishRun, TypeOK
  <2>8. CASE call.chain # TickChain
    BY <1>5, <2>2, <2>3, <2>4, <2>5, <2>6, <2>8 DEF FinishRun, TypeOK
  <2>9. call.chain = TickChain => pass.on
    BY <2>1 DEF RunningTickIsAwaited, RunsTick, IsTick, Awaited
  <2> QED BY <2>7, <2>8, <2>9
<1>6. ASSUME NEW t \in Tenants, NEW outcome \in Outcomes, FinishRunFails(t, outcome)
      PROVE  TypeOK'
  <2> DEFINE call == exec[t].call
             j == call.job
             written == WithStatus(runs[t][j], exec[t].id, RunStatusOf(outcome))
  <2>1. Busy(t) /\ JobEnds(t, outcome)
    BY <1>6 DEF FinishRunFails
  <2>2. facts' \subseteq Tenants /\ zombies' \in [Tenants -> [Jobs -> Nat]]
    BY <2>1, JobEndsTypes
  <2>3. /\ call \in Call /\ j \in Jobs
        /\ RunStatusOf(outcome) \in RunStatus
        /\ \A r \in JobRow : Recorded(r, call, outcome) \in JobRow
        /\ Released(t) \in SUBSET (Tenants \X Jobs)
    BY <2>1, OutcomeTypes
  <2>4. row' \in [Tenants -> [Jobs -> JobRow]]
    <3>1. row' = row \/ row' = [row EXCEPT ![t][j] = Recorded(@, call, outcome)]
      BY <1>6 DEF FinishRunFails
    <3> HIDE DEF call, j
    <3>2. row \in [Tenants -> [Jobs -> JobRow]] /\ Recorded(row[t][j], call, outcome) \in JobRow
      BY <2>3 DEF TypeOK
    <3> QED BY <2>3, <3>1, <3>2
  <2>5. runs' \in [Tenants -> [Jobs -> SUBSET HistoryRow]]
    <3>1. runs' = runs \/ runs' = [runs EXCEPT ![t][j] = written]
      BY <1>6 DEF FinishRunFails
    <3>2. runs[t][j] \in SUBSET HistoryRow
      BY <2>3 DEF TypeOK
    <3>3. written \in SUBSET HistoryRow
      BY <2>3, <3>2, HistoryTypes, SMTT(30)
    <3> HIDE DEF call, j, written
    <3>4. runs \in [Tenants -> [Jobs -> SUBSET HistoryRow]]
      BY DEF TypeOK
    <3> QED BY <2>3, <3>1, <3>3, <3>4
  <2>6. exec' \in [Tenants -> Run \cup {NoRun}]
    BY <1>6 DEF FinishRunFails, TypeOK
  <2>7. pass' \in Pass \cup {NoPass}
    BY <1>6 DEF FinishRunFails, PassAfterRejection, TypeOK
  <2> QED BY <1>6, <2>2, <2>3, <2>4, <2>5, <2>6, <2>7 DEF FinishRunFails, TypeOK
<1>7. ASSUME NEW t \in Tenants, NEW j \in Jobs, ZombieEnds(t, j) PROVE TypeOK'
  BY <1>7 DEF ZombieEnds, TypeOK
<1>8. ASSUME NEW t \in Tenants, NEW asked \in Requests, Refresh(t, asked) PROVE TypeOK'
  <2>1. asked \in SUBSET Jobs
    BY JobAssumption
  <2> QED BY <1>8, <2>1, RefreshTypes DEF Refresh, TypeOK
<1>9. ASSUME NEW t \in Tenants, Reset(t) PROVE TypeOK'
  <2>1. ResetJobs \in SUBSET Jobs
    BY JobAssumption
  <2> QED BY <1>9, <2>1, RefreshTypes DEF Reset, Wiped, TypeOK
<1>10. CASE Shutdown
  BY <1>10 DEF Shutdown, CountStop, TypeOK
<1>11. ASSUME MemoryIsLost, stops' \in Nat PROVE TypeOK'
  BY <1>11 DEF MemoryIsLost, TypeOK
<1>12. CASE Exit
  BY <1>11, <1>12 DEF Exit, TypeOK
<1>13. CASE Crash
  BY <1>11, <1>13 DEF Crash, CountStop, TypeOK
<1>14. CASE UNCHANGED vars
  BY <1>14 DEF vars, TypeOK
<1> QED
  BY <1>1, <1>2, <1>3, <1>4, <1>5, <1>6, <1>7, <1>8, <1>9, <1>10, <1>12, <1>13, <1>14
     DEF Next

(***************************************************************************)
(* One outstanding call per pass                                           *)
(***************************************************************************)
DownIsIdle == phase = "down" => ~pass.on /\ \A t \in Tenants : ~Busy(t)

LEMMA InitPass == Init => DownIsIdle /\ PassInv
BY DEF Init, DownIsIdle, PassInv, RunningTickIsAwaited, WaitingTickIsAwaited,
       AwaitedTickIsThere, RunsTick, WaitsTick, Busy, NoPass

LEMMA NextDown == TypeOK /\ DownIsIdle /\ [Next]_vars => DownIsIdle'
<1> SUFFICES ASSUME TypeOK, DownIsIdle, [Next]_vars, phase' = "down"
             PROVE  ~pass'.on /\ \A t \in Tenants : exec'[t] = NoRun
  BY DEF DownIsIdle, Busy
<1>1. CASE MemoryIsLost
  BY <1>1 DEF MemoryIsLost, NoPass
<1>2. CASE UNCHANGED <<phase, exec, pass>>
  BY <1>2 DEF DownIsIdle, Busy
<1>3. CASE ClockTick
  BY <1>3 DEF ClockTick, CanTick, DownIsIdle, Busy
<1>4. ASSUME NEW t \in Tenants,
             StartRun(t) \/ StartRunFails(t)
             \/ \E outcome \in Outcomes : FinishRun(t, outcome) \/ FinishRunFails(t, outcome)
      PROVE  FALSE
  BY <1>4 DEF Behind, StartRun, StartRunFails, FinishRun, FinishRunFails
<1>5. ASSUME NEW t \in Tenants, NEW j \in Jobs, ZombieEnds(t, j) PROVE UNCHANGED <<phase, exec, pass>>
  BY <1>5 DEF ZombieEnds
<1>6. ASSUME NEW t \in Tenants, NEW asked, Refresh(t, asked) \/ Reset(t)
      PROVE  UNCHANGED <<phase, exec, pass>>
  BY <1>6 DEF Refresh, Reset
<1> QED
  BY <1>1, <1>2, <1>3, <1>4, <1>5, <1>6 DEF Next, Boot, Shutdown, Exit, Crash, vars

NoTickWaits == \A t \in Tenants : \A n : ~WaitsTick(t, n)

\* Walking on puts at most one tick call in the queues, and the pass awaits it.
LEMMA WalkPass ==
  ASSUME TypeOK, NoTickWaits,
         NEW held, NEW rows, NEW k, NEW i, NEW seen, NEW now,
         WalkFrom(held, rows, k, i, seen, now)
  PROVE  WaitingTickIsAwaited'
         /\ (pass'.on => \E t \in Tenants : \E n : WaitsTick(t, n)')
<1> DEFINE due == DueAfter(rows, k, i, seen, now)
<1>1. CASE pass' = NoPass /\ UNCHANGED queue
  BY <1>1 DEF NoTickWaits, WaitsTick, WaitingTickIsAwaited, NoPass
<1>2. ASSUME NEW p \in due,
             pass' = [on |-> TRUE, now |-> now, tenant |-> p[1], job |-> p[2],
                      seen |-> IF p[1] = k THEN seen ELSE SeenIn(rows, p[1])],
             Claim(held, TenantOrder[p[1]],
                   <<[job |-> Registry[p[2]], chain |-> TickChain, at |-> now]>>)
      PROVE  WaitingTickIsAwaited'
             /\ (pass'.on => \E t \in Tenants : \E n : WaitsTick(t, n)')
  <2> DEFINE call == [job |-> Registry[p[2]], chain |-> TickChain, at |-> now]
             u == TenantOrder[p[1]]
  <2>1. u \in Tenants
    BY <1>2, OrderTypes DEF DueAfter
  <2>2. queue[u] \in Seq(Call) /\ Len(queue[u]) \in Nat
    BY <2>1 DEF TypeOK
  <2>3. pass'.on /\ u = TenantOrder[pass'.tenant]
        /\ call = [job |-> Registry[pass'.job], chain |-> TickChain, at |-> pass'.now]
        /\ IsTick(call)
    BY <1>2 DEF IsTick
  <2>4. \A t \in Tenants : t # u => queue'[t] = queue[t]
    BY <1>2 DEF Claim, TypeOK
  <2> HIDE DEF call, u
  <2>5. queue'[u] = queue[u] \o <<call>>
    BY <1>2, <2>1 DEF Claim, TypeOK, call, u
  <2>6. /\ Len(queue'[u]) = Len(queue[u]) + 1
        /\ \A n \in 1 .. Len(queue[u]) : queue'[u][n] = queue[u][n]
        /\ queue'[u][Len(queue[u]) + 1] = call
    BY <2>2, <2>5
  <2>7. \A n : WaitsTick(u, n)' <=> n = Len(queue[u]) + 1
    <3>1. ASSUME NEW n \in 1 .. Len(queue[u]) PROVE ~IsTick(queue'[u][n])
      BY <2>1, <2>6 DEF NoTickWaits, WaitsTick
    <3>2. IsTick(queue'[u][Len(queue[u]) + 1])
      BY <2>3, <2>6
    <3>3. \A n : n \in 1 .. Len(queue[u]) + 1
                   <=> n \in 1 .. Len(queue[u]) \/ n = Len(queue[u]) + 1
      BY <2>2
    <3> QED BY <2>6, <3>1, <3>2, <3>3 DEF WaitsTick
  <2>8. \A t \in Tenants : t # u => \A n : ~WaitsTick(t, n)'
    BY <2>4 DEF NoTickWaits, WaitsTick
  <2> QED BY <2>1, <2>3, <2>6, <2>7, <2>8 DEF WaitingTickIsAwaited, Awaited
<1> QED BY <1>1, <1>2 DEF WalkFrom

\* A refresh appends no tick call, and moves none.
LEMMA RefreshPass ==
  ASSUME TypeOK, NEW t \in Tenants, NEW asked \in SUBSET Jobs, StartRefresh(t, asked)
  PROVE  \A u \in Tenants : \A n :
           /\ WaitsTick(u, n)' <=> WaitsTick(u, n)
           /\ WaitsTick(u, n) => queue'[u][n] = queue[u][n]
<1>1. PICK chain \in ChainsOf(Expand(asked)) :
         Claim(inFlight, t, CallsOf(chain, refreshes + 1, clock))
  BY DEF StartRefresh
<1> DEFINE calls == CallsOf(chain, refreshes + 1, clock)
<1>2. Expand(asked) \in SUBSET Jobs /\ clock \in Times /\ refreshes + 1 \in Nat
      /\ refreshes + 1 # TickChain
  BY DEF Expand, TypeOK, Times, TickChain
<1>3. calls \in Seq(Call)
  BY <1>2, ChainTypes
<1>4. \A i \in 1 .. Len(calls) : ~IsTick(calls[i])
  <2>1. Cardinality(Expand(asked)) \in Nat
    BY <1>2, JobsFinite, FS_Subset, FS_CardinalityType
  <2>2. chain \in Seq(Jobs)
    BY <1>2, <2>1 DEF ChainsOf
  <2>3. Len(calls) = Len(chain)
        /\ \A i \in 1 .. Len(chain) : calls[i].chain = refreshes + 1
    BY <2>2 DEF CallsOf
  <2> QED BY <1>2, <2>3 DEF IsTick
<1> HIDE DEF calls
<1>5. queue' = [queue EXCEPT ![t] = @ \o calls]
  BY <1>1 DEF Claim, calls
<1>6. queue[t] \in Seq(Call) /\ Len(queue[t]) \in Nat /\ Len(calls) \in Nat
  BY <1>3 DEF TypeOK
<1>7. /\ Len(queue'[t]) = Len(queue[t]) + Len(calls)
      /\ \A n \in 1 .. Len(queue[t]) : queue'[t][n] = queue[t][n]
      /\ \A n \in 1 .. Len(calls) : queue'[t][Len(queue[t]) + n] = calls[n]
  <2>1. queue'[t] = queue[t] \o calls
    BY <1>5 DEF TypeOK
  <2> QED BY <1>3, <1>6, <2>1, ConcatProperties
<1>8. \A n \in 1 .. Len(queue'[t]) : n \in 1 .. Len(queue[t]) \/ ~IsTick(queue'[t][n])
  <2> SUFFICES ASSUME NEW n \in 1 .. Len(queue'[t]), n \notin 1 .. Len(queue[t])
               PROVE  ~IsTick(queue'[t][n])
    OBVIOUS
  <2>1. n - Len(queue[t]) \in 1 .. Len(calls) /\ n = Len(queue[t]) + (n - Len(queue[t]))
    BY <1>6, <1>7
  <2>2. queue'[t][n] = calls[n - Len(queue[t])]
    BY <1>7, <2>1
  <2> QED BY <1>4, <2>1, <2>2
<1>9. 1 .. Len(queue[t]) \subseteq 1 .. Len(queue'[t])
  BY <1>6, <1>7
<1>10. \A u \in Tenants : u # t => queue'[u] = queue[u]
  BY <1>5 DEF TypeOK
<1> QED BY <1>7, <1>8, <1>9, <1>10 DEF WaitsTick

\* Taking the head of a queue moves every tick call behind it one place up.
LEMMA TailPass ==
  ASSUME TypeOK, NEW t \in Tenants, queue[t] # <<>>, queue' = [queue EXCEPT ![t] = Tail(@)]
  PROVE  /\ \A n : WaitsTick(t, n)' => /\ WaitsTick(t, n + 1) /\ n \in Nat \ {0}
                                       /\ queue'[t][n] = queue[t][n + 1]
         /\ \A n : WaitsTick(t, n) /\ n # 1 => WaitsTick(t, n - 1)'
         /\ WaitsTick(t, 1) <=> IsTick(Head(queue[t]))
         /\ Head(queue[t]) = queue[t][1]
         /\ \A u \in Tenants : u # t => queue'[u] = queue[u]
<1>1. queue[t] \in Seq(Call)
  BY DEF TypeOK
<1>2. queue'[t] = Tail(queue[t]) /\ \A u \in Tenants : u # t => queue'[u] = queue[u]
  BY DEF TypeOK
<1>3. /\ Len(queue[t]) \in Nat /\ Len(queue[t]) >= 1
      /\ Len(queue'[t]) = Len(queue[t]) - 1
      /\ \A n \in 1 .. Len(queue[t]) - 1 : queue'[t][n] = queue[t][n + 1]
      /\ Head(queue[t]) = queue[t][1]
  <2>1. queue[t] # <<>>
    OBVIOUS
  <2>2. /\ Head(queue[t]) = queue[t][1]
        /\ Tail(queue[t]) \in Seq(Call)
        /\ Len(Tail(queue[t])) = Len(queue[t]) - 1
        /\ \A n \in 1 .. Len(Tail(queue[t])) : Tail(queue[t])[n] = queue[t][n + 1]
    BY <1>1, <2>1, HeadTailProperties
  <2>3. Len(queue[t]) \in Nat /\ Len(queue[t]) # 0
    BY <1>1, <2>1, EmptySeq
  <2>4. Len(queue'[t]) = Len(queue[t]) - 1
    BY <1>2, <2>2
  <2>5. \A n \in 1 .. Len(queue[t]) - 1 : queue'[t][n] = queue[t][n + 1]
    BY <1>2, <2>2
  <2> QED BY <2>2, <2>3, <2>4, <2>5
<1>4. ASSUME NEW n, WaitsTick(t, n)'
      PROVE  WaitsTick(t, n + 1) /\ n \in Nat \ {0} /\ queue'[t][n] = queue[t][n + 1]
  <2>1. n \in 1 .. Len(queue[t]) - 1 /\ IsTick(queue'[t][n])
    BY <1>3, <1>4 DEF WaitsTick
  <2>2. n + 1 \in 1 .. Len(queue[t]) /\ n \in Nat \ {0}
    BY <1>3, <2>1
  <2> QED BY <1>3, <2>1, <2>2 DEF WaitsTick
<1>5. ASSUME NEW n, WaitsTick(t, n), n # 1 PROVE WaitsTick(t, n - 1)'
  <2>1. n \in 1 .. Len(queue[t]) /\ IsTick(queue[t][n])
    BY <1>5 DEF WaitsTick
  <2>2. n - 1 \in 1 .. Len(queue[t]) - 1 /\ (n - 1) + 1 = n
    BY <1>3, <1>5, <2>1
  <2>3. queue'[t][n - 1] = queue[t][n]
    BY <1>3, <2>2
  <2> QED BY <1>3, <2>1, <2>2, <2>3 DEF WaitsTick
<1>6. WaitsTick(t, 1) <=> IsTick(Head(queue[t]))
  BY <1>3 DEF WaitsTick
<1> QED BY <1>2, <1>3, <1>4, <1>5, <1>6

\* An ended pass leaves no tick call behind when none waits and none runs.
LEMMA NextPass == TypeOK /\ DownIsIdle /\ PassInv /\ [Next]_vars => PassInv'
<1> SUFFICES ASSUME TypeOK, DownIsIdle, PassInv, [Next]_vars PROVE PassInv'
  OBVIOUS
<1> USE DEF PassInv
<1>1. ASSUME ~pass.on PROVE NoTickWaits /\ \A t \in Tenants : ~RunsTick(t)
  BY <1>1 DEF NoTickWaits, WaitingTickIsAwaited, RunningTickIsAwaited, Awaited
<1>2. CASE Boot
  <2>1. NoTickWaits /\ \A t \in Tenants : ~RunsTick(t)
    BY <1>1, <1>2 DEF Boot, DownIsIdle
  <2>2. /\ WaitingTickIsAwaited'
        /\ pass'.on => \E t \in Tenants : \E n : WaitsTick(t, n)'
    BY <1>2, <2>1, WalkPass DEF Boot, Tick
  <2>3. \A t \in Tenants : ~RunsTick(t)'
    BY <1>2, <2>1 DEF Boot, RunsTick, Busy
  <2> QED BY <2>2, <2>3 DEF RunningTickIsAwaited, AwaitedTickIsThere
<1>3. CASE ClockTick
  <2>1. CASE CanTick
    <3>1. NoTickWaits /\ \A t \in Tenants : ~RunsTick(t)
      BY <1>1, <2>1 DEF CanTick
    <3>2. /\ WaitingTickIsAwaited'
          /\ pass'.on => \E t \in Tenants : \E n : WaitsTick(t, n)'
      BY <1>3, <2>1, <3>1, WalkPass DEF ClockTick, Tick
    <3>3. \A t \in Tenants : ~RunsTick(t)'
      BY <1>3, <3>1 DEF ClockTick, RunsTick, Busy
    <3> QED BY <3>2, <3>3 DEF RunningTickIsAwaited, AwaitedTickIsThere
  <2>2. CASE ~CanTick
    BY <1>3, <2>2 DEF ClockTick, RunningTickIsAwaited, WaitingTickIsAwaited,
                      AwaitedTickIsThere, RunsTick, WaitsTick, Busy, Awaited
  <2> QED BY <2>1, <2>2
<1>4. ASSUME NEW t \in Tenants, StartRun(t) PROVE PassInv'
  <2>1. /\ queue[t] # <<>> /\ queue' = [queue EXCEPT ![t] = Tail(@)]
        /\ ~Busy(t) /\ pass' = pass
    BY <1>4 DEF Behind, StartRun
  <2>2. exec'[t].call = Head(queue[t])
        /\ \A u \in Tenants : u # t => exec'[u] = exec[u]
    BY <1>4 DEF Behind, StartRun, TypeOK
  <2>3. exec'[t] # NoRun
    <3>1. PICK id \in FreshIds(runs[t][Head(queue[t]).job]) :
            exec' = [exec EXCEPT ![t] = [call |-> Head(queue[t]), id |-> id]]
      BY <1>4 DEF Behind, StartRun
    <3>2. id \in Nat
      BY DEF FreshIds
    <3>3. exec'[t].id = id
      BY <3>1 DEF TypeOK
    <3> QED BY <3>2, <3>3 DEF NoRun
  <2>4. RunsTick(t)' <=> WaitsTick(t, 1)
    BY <2>1, <2>2, <2>3, TailPass DEF RunsTick, Busy
  <2>5. RunningTickIsAwaited'
    <3>1. ASSUME NEW u \in Tenants, RunsTick(u)'
          PROVE  Awaited(u, exec[u].call)' /\ \A n : ~WaitsTick(u, n)'
      <4>1. CASE u = t
        <5>1. Awaited(t, queue[t][1]) /\ \A n : WaitsTick(t, n) => n = 1
          BY <2>4, <3>1, <4>1 DEF WaitingTickIsAwaited
        <5>2. Awaited(t, exec[t].call)'
          BY <2>1, <2>2, <5>1, TailPass DEF Awaited
        <5>3. ASSUME NEW n, WaitsTick(t, n)' PROVE FALSE
          <6>1. WaitsTick(t, n + 1) /\ n \in Nat \ {0}
            BY <2>1, <5>3, TailPass
          <6> QED BY <5>1, <6>1
        <5> QED BY <4>1, <5>2, <5>3
      <4>2. CASE u # t
        BY <2>1, <2>2, <3>1, <4>2, TailPass
           DEF RunningTickIsAwaited, RunsTick, Busy, Awaited, WaitsTick
      <4> QED BY <4>1, <4>2
    <3> QED BY <3>1 DEF RunningTickIsAwaited
  <2>6. WaitingTickIsAwaited'
    <3>1. ASSUME NEW u \in Tenants, NEW n, WaitsTick(u, n)'
          PROVE  Awaited(u, queue[u][n])' /\ \A k : WaitsTick(u, k)' => k = n
      <4>1. CASE u = t
        <5>1. WaitsTick(t, n + 1) /\ n \in Nat /\ queue'[t][n] = queue[t][n + 1]
          BY <2>1, <3>1, <4>1, TailPass
        <5>2. Awaited(t, queue[t][n + 1]) /\ \A k : WaitsTick(t, k) => k = n + 1
          BY <5>1 DEF WaitingTickIsAwaited
        <5>3. ASSUME NEW k, WaitsTick(t, k)' PROVE k = n
          <6>1. WaitsTick(t, k + 1) /\ k \in Nat
            BY <2>1, <5>3, TailPass
          <6>2. k + 1 = n + 1
            BY <5>2, <6>1
          <6> QED BY <5>1, <6>1, <6>2
        <5> QED BY <2>1, <4>1, <5>1, <5>2, <5>3 DEF Awaited
      <4>2. CASE u # t
        BY <2>1, <3>1, <4>2, TailPass DEF WaitingTickIsAwaited, Awaited, WaitsTick
      <4> QED BY <4>1, <4>2
    <3> QED BY <3>1 DEF WaitingTickIsAwaited
  <2>7. AwaitedTickIsThere'
    <3> SUFFICES ASSUME pass'.on
                 PROVE  \E u \in Tenants : RunsTick(u)' \/ \E n : WaitsTick(u, n)'
      BY DEF AwaitedTickIsThere
    <3>1. PICK u \in Tenants : RunsTick(u) \/ \E n : WaitsTick(u, n)
      BY <2>1 DEF AwaitedTickIsThere
    <3>2. CASE u = t
      <4>1. PICK n : WaitsTick(t, n)
        BY <2>1, <3>1, <3>2 DEF RunsTick
      <4> QED BY <2>1, <2>4, <4>1, TailPass
    <3>3. CASE u # t
      BY <2>1, <2>2, <3>1, <3>3, TailPass DEF RunsTick, Busy, WaitsTick
    <3> QED BY <3>2, <3>3
  <2> QED BY <2>5, <2>6, <2>7
<1>5. ASSUME NEW t \in Tenants, StartRunFails(t) PROVE PassInv'
  <2>1. /\ queue[t] # <<>> /\ queue' = [queue EXCEPT ![t] = Tail(@)]
        /\ ~Busy(t) /\ exec' = exec /\ pass' = PassAfterRejection(Head(queue[t]))
    BY <1>5 DEF Behind, StartRunFails
  <2>2. CASE IsTick(Head(queue[t]))
    <3>1. WaitsTick(t, 1)
      BY <2>1, <2>2, TailPass
    <3>2. /\ Awaited(t, queue[t][1])
          /\ \A n : WaitsTick(t, n) => n = 1
      BY <3>1 DEF WaitingTickIsAwaited
    <3>3. \A u \in Tenants : \A n : WaitsTick(u, n) => u = t /\ n = 1
      BY <3>2 DEF WaitingTickIsAwaited, Awaited
    <3>4. \A u \in Tenants : ~RunsTick(u)
      BY <2>1, <3>1, <3>2 DEF RunningTickIsAwaited, Awaited, RunsTick
    <3>5. ASSUME NEW u \in Tenants, NEW n, WaitsTick(u, n)' PROVE FALSE
      <4>1. CASE u = t
        <5>1. WaitsTick(t, n + 1) /\ n \in Nat \ {0}
          BY <2>1, <3>5, <4>1, TailPass
        <5> QED BY <3>2, <5>1
      <4>2. CASE u # t
        BY <2>1, <3>3, <3>5, <4>2, TailPass DEF WaitsTick
      <4> QED BY <4>1, <4>2
    <3>6. \A u \in Tenants : ~RunsTick(u)'
      BY <2>1, <3>4 DEF RunsTick, Busy
    <3>7. ~pass'.on
      BY <2>1, <2>2 DEF PassAfterRejection, IsTick, NoPass
    <3> QED BY <3>5, <3>6, <3>7 DEF RunningTickIsAwaited, WaitingTickIsAwaited, AwaitedTickIsThere
  <2>3. CASE ~IsTick(Head(queue[t]))
    <3>1. pass' = pass
      BY <2>1, <2>3 DEF PassAfterRejection, IsTick
    <3>2. \A n : WaitsTick(t, n) => n # 1
      BY <2>1, <2>3, TailPass
    <3>3. \A u \in Tenants : RunsTick(u)' <=> RunsTick(u)
      BY <2>1 DEF RunsTick, Busy
    <3>4. RunningTickIsAwaited'
      <4>1. ASSUME NEW u \in Tenants, RunsTick(u)', NEW n, WaitsTick(u, n)' PROVE FALSE
        <5>1. CASE u = t
          BY <2>1, <3>3, <4>1, <5>1, TailPass DEF RunningTickIsAwaited
        <5>2. CASE u # t
          BY <2>1, <3>3, <4>1, <5>2, TailPass DEF RunningTickIsAwaited, WaitsTick
        <5> QED BY <5>1, <5>2
      <4>2. ASSUME NEW u \in Tenants, RunsTick(u)' PROVE Awaited(u, exec[u].call)'
        BY <2>1, <3>1, <3>3, <4>2 DEF RunningTickIsAwaited, Awaited
      <4> QED BY <4>1, <4>2 DEF RunningTickIsAwaited
    <3>5. WaitingTickIsAwaited'
      <4>1. ASSUME NEW u \in Tenants, NEW n, WaitsTick(u, n)'
            PROVE  Awaited(u, queue[u][n])' /\ \A k : WaitsTick(u, k)' => k = n
        <5>1. CASE u = t
          <6>1. WaitsTick(t, n + 1) /\ n \in Nat /\ queue'[t][n] = queue[t][n + 1]
            BY <2>1, <4>1, <5>1, TailPass
          <6>2. Awaited(t, queue[t][n + 1]) /\ \A k : WaitsTick(t, k) => k = n + 1
            BY <6>1 DEF WaitingTickIsAwaited
          <6>3. ASSUME NEW k, WaitsTick(t, k)' PROVE k = n
            <7>1. WaitsTick(t, k + 1) /\ k \in Nat
              BY <2>1, <6>3, TailPass
            <7>2. k + 1 = n + 1
              BY <6>2, <7>1
            <7> QED BY <6>1, <7>1, <7>2
          <6> QED BY <3>1, <5>1, <6>1, <6>2, <6>3 DEF Awaited
        <5>2. CASE u # t
          BY <2>1, <3>1, <4>1, <5>2, TailPass DEF WaitingTickIsAwaited, Awaited, WaitsTick
        <5> QED BY <5>1, <5>2
      <4> QED BY <4>1 DEF WaitingTickIsAwaited
    <3>6. AwaitedTickIsThere'
      <4> SUFFICES ASSUME pass'.on
                   PROVE  \E u \in Tenants : RunsTick(u)' \/ \E n : WaitsTick(u, n)'
        BY DEF AwaitedTickIsThere
      <4>1. PICK u \in Tenants : RunsTick(u) \/ \E n : WaitsTick(u, n)
        BY <3>1 DEF AwaitedTickIsThere
      <4>2. CASE RunsTick(u)
        BY <3>3, <4>2
      <4>3. CASE u = t /\ \E n : WaitsTick(u, n)
        BY <2>1, <3>2, <4>3, TailPass
      <4>4. CASE u # t /\ \E n : WaitsTick(u, n)
        BY <2>1, <4>4, TailPass DEF WaitsTick
      <4> QED BY <4>1, <4>2, <4>3, <4>4
    <3> QED BY <3>4, <3>5, <3>6
  <2> QED BY <2>2, <2>3
<1>6. ASSUME NEW t \in Tenants, NEW outcome \in Outcomes, FinishRun(t, outcome) PROVE PassInv'
  <2>1. Busy(t) /\ exec' = [exec EXCEPT ![t] = NoRun]
    BY <1>6 DEF FinishRun
  <2>2. ~RunsTick(t)' /\ \A u \in Tenants : u # t => (RunsTick(u)' <=> RunsTick(u))
                                                   /\ exec'[u] = exec[u]
    BY <2>1 DEF RunsTick, Busy, TypeOK
  <2>3. CASE RunsTick(t)
    <3>1. NoTickWaits /\ \A u \in Tenants : RunsTick(u) => u = t
      BY <2>3 DEF RunningTickIsAwaited, WaitingTickIsAwaited, NoTickWaits, Awaited
    <3>2. \A u \in Tenants : ~RunsTick(u)'
      BY <2>2, <3>1
    <3>3. WalkFrom(Released(t), row', pass.tenant, pass.job, pass.seen, pass.now)
      BY <1>6, <2>3 DEF FinishRun, RunsTick, IsTick
    <3>4. /\ WaitingTickIsAwaited'
          /\ pass'.on => \E u \in Tenants : \E n : WaitsTick(u, n)'
      BY <3>1, <3>3, WalkPass
    <3> QED BY <3>2, <3>4 DEF RunningTickIsAwaited, AwaitedTickIsThere
  <2>4. CASE ~RunsTick(t)
    <3>1. UNCHANGED <<queue, pass>>
      BY <1>6, <2>1, <2>4 DEF FinishRun, RunsTick, IsTick
    <3> QED BY <2>2, <2>4, <3>1
            DEF RunningTickIsAwaited, WaitingTickIsAwaited, AwaitedTickIsThere, WaitsTick, Awaited
  <2> QED BY <2>3, <2>4
<1>7. ASSUME NEW t \in Tenants, NEW outcome \in Outcomes, FinishRunFails(t, outcome)
      PROVE  PassInv'
  <2>1. /\ Busy(t) /\ exec' = [exec EXCEPT ![t] = NoRun] /\ queue' = queue
        /\ pass' = PassAfterRejection(exec[t].call)
    BY <1>7 DEF FinishRunFails
  <2>2. ~RunsTick(t)' /\ \A u \in Tenants : u # t => (RunsTick(u)' <=> RunsTick(u))
                                                   /\ exec'[u] = exec[u]
    BY <2>1 DEF RunsTick, Busy, TypeOK
  <2>3. CASE RunsTick(t)
    <3>1. NoTickWaits /\ \A u \in Tenants : RunsTick(u) => u = t
      BY <2>3 DEF RunningTickIsAwaited, WaitingTickIsAwaited, NoTickWaits, Awaited
    <3>2. ~pass'.on
      BY <2>1, <2>3 DEF PassAfterRejection, RunsTick, IsTick, NoPass
    <3> QED BY <2>1, <2>2, <3>1, <3>2
            DEF RunningTickIsAwaited, WaitingTickIsAwaited, AwaitedTickIsThere, WaitsTick, NoTickWaits
  <2>4. CASE ~RunsTick(t)
    <3>1. pass' = pass
      BY <2>1, <2>4 DEF PassAfterRejection, RunsTick, IsTick
    <3> QED BY <2>1, <2>2, <2>4, <3>1
            DEF RunningTickIsAwaited, WaitingTickIsAwaited, AwaitedTickIsThere, WaitsTick, Awaited
  <2> QED BY <2>3, <2>4
<1>8. ASSUME NEW t \in Tenants, NEW asked \in SUBSET Jobs, StartRefresh(t, asked),
             UNCHANGED <<exec, pass>>
      PROVE  PassInv'
  <2>1. \A u \in Tenants : \A n :
           /\ WaitsTick(u, n)' <=> WaitsTick(u, n)
           /\ WaitsTick(u, n) => queue'[u][n] = queue[u][n]
    BY <1>8, RefreshPass
  <2>2. \A u \in Tenants : (RunsTick(u)' <=> RunsTick(u))
    BY <1>8 DEF RunsTick, Busy
  <2> QED BY <1>8, <2>1, <2>2
          DEF RunningTickIsAwaited, WaitingTickIsAwaited, AwaitedTickIsThere, Awaited
<1>9. ASSUME NEW t \in Tenants, NEW asked \in Requests, Refresh(t, asked) PROVE PassInv'
  BY <1>8, <1>9, JobAssumption DEF Refresh
<1>10. ASSUME NEW t \in Tenants, Reset(t) PROVE PassInv'
  BY <1>8, <1>10, JobAssumption DEF Reset
<1>11. CASE MemoryIsLost
  BY <1>11 DEF MemoryIsLost, NoPass, RunningTickIsAwaited, WaitingTickIsAwaited,
               AwaitedTickIsThere, RunsTick, WaitsTick, Busy
<1>12. CASE UNCHANGED <<queue, exec, pass>>
  BY <1>12 DEF RunningTickIsAwaited, WaitingTickIsAwaited, AwaitedTickIsThere,
               RunsTick, WaitsTick, Busy, Awaited
<1> QED
  BY <1>2, <1>3, <1>4, <1>5, <1>6, <1>7, <1>9, <1>10, <1>11, <1>12
     DEF Next, ZombieEnds, Shutdown, Exit, Crash, vars

(***************************************************************************)
(* The theorems                                                            *)
(***************************************************************************)
TypeInv == TypeOK /\ DownIsIdle /\ PassInv

LEMMA TypeInvInvariant == Spec => []TypeInv
<1>1. Init => TypeInv
  BY InitTypes, InitPass DEF TypeInv
<1>2. TypeInv /\ [Next]_vars => TypeInv'
  BY NextTypes, NextDown, NextPass DEF TypeInv, PassInv
<1> QED BY <1>1, <1>2, PTL DEF Spec

\* The process's memory and its tables keep the shapes and enums the code
\* declares, for every registry, every set of tenants and every bound.
THEOREM TypeCorrect == Spec => []TypeOK
BY TypeInvInvariant, PTL DEF TypeInv

\* The ticker never has more than one call outstanding in the whole process,
\* and a pass that is on is waiting for exactly that call.
THEOREM PassAwaits == Spec => []PassAwaitsItsCall
<1>1. TypeInv => PassAwaitsItsCall
  <2> SUFFICES ASSUME TypeInv PROVE PassAwaitsItsCall
    OBVIOUS
  <2>1. ASSUME NEW t \in Tenants, NEW call \in TickCalls(t) PROVE Awaited(t, call)
    BY <2>1 DEF TypeInv, PassInv, RunningTickIsAwaited, WaitingTickIsAwaited, TickCalls,
                Pending, RunsTick, WaitsTick, IsTick
  <2>2. CASE ~pass.on
    BY <2>1, <2>2 DEF PassAwaitsItsCall, Awaited
  <2>3. CASE pass.on
    <3> DEFINE u == TenantOrder[pass.tenant]
               awaited == [job |-> Registry[pass.job], chain |-> TickChain, at |-> pass.now]
    <3>1. PICK t \in Tenants : RunsTick(t) \/ \E n : WaitsTick(t, n)
      BY <2>3 DEF TypeInv, PassInv, AwaitedTickIsThere
    <3>2. \E call : call \in TickCalls(t)
      BY <3>1 DEF TickCalls, Pending, RunsTick, WaitsTick, IsTick
    <3>3. t = u /\ awaited \in TickCalls(t)
      BY <2>1, <3>2 DEF Awaited
    <3>4. TickCalls(u) = {awaited}
      BY <2>1, <3>3 DEF Awaited
    <3>5. \A v \in Tenants \ {u} : TickCalls(v) = {}
      BY <2>1 DEF Awaited
    <3> QED BY <2>3, <3>4, <3>5 DEF PassAwaitsItsCall
  <2> QED BY <2>2, <2>3
<1> QED BY <1>1, TypeInvInvariant, PTL

(***************************************************************************)
(* Claims                                                                  *)
(***************************************************************************)
Queued(t, j) == \E n \in 1 .. Len(queue[t]) : queue[t][n].job = j
Runs(t, j) == Busy(t) /\ exec[t].call.job = j

LEMMA PendingIs ==
  \A t, j : (\E call \in Pending(t) : call.job = j) <=> Runs(t, j) \/ Queued(t, j)
BY DEF Pending, Runs, Queued

\* Claiming appends the calls it claims, and takes no call away.
LEMMA ClaimIsQueued ==
  ASSUME TypeOK, NEW held, NEW t \in Tenants, NEW calls \in Seq(Call), Claim(held, t, calls)
  PROVE  /\ \A u \in Tenants, j \in Jobs : Queued(u, j) => Queued(u, j)'
         /\ \A u \in Tenants, j \in Jobs :
              <<u, j>> \in inFlight' => <<u, j>> \in held \/ Queued(u, j)'
<1>1. queue[t] \in Seq(Call)
  BY DEF TypeOK
<1>2. queue'[t] = queue[t] \o calls /\ \A u \in Tenants : u # t => queue'[u] = queue[u]
  BY DEF Claim, TypeOK
<1>3. /\ Len(queue'[t]) = Len(queue[t]) + Len(calls)
      /\ Len(queue[t]) \in Nat /\ Len(calls) \in Nat
      /\ \A n \in 1 .. Len(queue[t]) : queue'[t][n] = queue[t][n]
      /\ \A n \in 1 .. Len(calls) : queue'[t][Len(queue[t]) + n] = calls[n]
  BY <1>1, <1>2, ConcatProperties, LenProperties
<1>4. ASSUME NEW u \in Tenants, NEW j \in Jobs, Queued(u, j) PROVE Queued(u, j)'
  <2>1. CASE u = t
    <3>1. PICK n \in 1 .. Len(queue[t]) : queue[t][n].job = j
      BY <1>4, <2>1 DEF Queued
    <3>2. n \in 1 .. Len(queue'[t]) /\ queue'[t][n].job = j
      BY <1>3, <3>1
    <3> QED BY <2>1, <3>2 DEF Queued
  <2>2. CASE u # t
    BY <1>2, <1>4, <2>2 DEF Queued
  <2> QED BY <2>1, <2>2
<1>5. ASSUME NEW n \in 1 .. Len(calls) PROVE Queued(t, calls[n].job)'
  <2>1. Len(queue[t]) + n \in 1 .. Len(queue'[t])
    BY <1>3
  <2>2. queue'[t][Len(queue[t]) + n].job = calls[n].job
    BY <1>3
  <2> QED BY <2>1, <2>2 DEF Queued
<1>6. inFlight' = held \cup {<<t, calls[i].job>> : i \in 1 .. Len(calls)}
  BY DEF Claim
<1> QED BY <1>4, <1>5, <1>6

LEMMA WalkClaims ==
  ASSUME TypeOK, NEW held, NEW rows, NEW k, NEW i, NEW seen, NEW now \in Nat,
         WalkFrom(held, rows, k, i, seen, now)
  PROVE  /\ \A u \in Tenants, j \in Jobs : Queued(u, j) => Queued(u, j)'
         /\ \A u \in Tenants, j \in Jobs :
              <<u, j>> \in inFlight' => <<u, j>> \in held \/ Queued(u, j)'
<1>1. CASE inFlight' = held /\ UNCHANGED queue
  BY <1>1 DEF Queued
<1>2. ASSUME NEW p \in DueAfter(rows, k, i, seen, now),
             Claim(held, TenantOrder[p[1]],
                   <<[job |-> Registry[p[2]], chain |-> TickChain, at |-> now]>>)
      PROVE  /\ \A u \in Tenants, j \in Jobs : Queued(u, j) => Queued(u, j)'
             /\ \A u \in Tenants, j \in Jobs :
                  <<u, j>> \in inFlight' => <<u, j>> \in held \/ Queued(u, j)'
  <2>1. TenantOrder[p[1]] \in Tenants /\ Registry[p[2]] \in Jobs
    BY OrderTypes DEF DueAfter
  <2>2. <<[job |-> Registry[p[2]], chain |-> TickChain, at |-> now]>> \in Seq(Call)
    BY <2>1 DEF Call, TickChain, Times
  <2> QED BY <1>2, <2>1, <2>2, ClaimIsQueued
<1> QED BY <1>1, <1>2 DEF WalkFrom

LEMMA RefreshClaims ==
  ASSUME TypeOK, NEW t \in Tenants, NEW asked \in SUBSET Jobs, StartRefresh(t, asked)
  PROVE  /\ \A u \in Tenants, j \in Jobs : Queued(u, j) => Queued(u, j)'
         /\ \A u \in Tenants, j \in Jobs :
              <<u, j>> \in inFlight' => <<u, j>> \in inFlight \/ Queued(u, j)'
<1>1. PICK chain \in ChainsOf(Expand(asked)) :
         Claim(inFlight, t, CallsOf(chain, refreshes + 1, clock))
  BY DEF StartRefresh
<1>2. Expand(asked) \in SUBSET Jobs /\ clock \in Times /\ refreshes + 1 \in Nat
  BY DEF Expand, TypeOK, Times
<1>3. CallsOf(chain, refreshes + 1, clock) \in Seq(Call)
  BY <1>2, ChainTypes
<1> QED BY <1>1, <1>3, ClaimIsQueued

\* With a database that answers, a claim is only ever held by a call that is
\* queued or running: no refresh is refused for a job that is not there.
THEOREM ClaimsReal == ASSUME ~DbMayFail PROVE Spec => []ClaimsAreReal
<1> DEFINE Inv == \A t \in Tenants, j \in Jobs :
                    <<t, j>> \in inFlight => Runs(t, j) \/ Queued(t, j)
<1>1. Init => Inv
  BY DEF Init
<1>2. TypeInv /\ Inv /\ [Next]_vars => Inv'
  <2> SUFFICES ASSUME TypeOK, RunningTickIsAwaited, Inv, [Next]_vars PROVE Inv'
    BY DEF TypeInv, PassInv
  <2>1. CASE Boot
    <3>1. \A u \in Tenants, j \in Jobs : Runs(u, j)' <=> Runs(u, j)
      BY <2>1 DEF Boot, Runs, Busy
    <3> QED BY <2>1, <3>1, WalkClaims DEF Boot, Tick, TypeOK
  <2>2. CASE ClockTick
    <3>1. \A u \in Tenants, j \in Jobs : Runs(u, j)' <=> Runs(u, j)
      BY <2>2 DEF ClockTick, Runs, Busy
    <3>2. CASE CanTick
      <4>1. clock + 1 \in Nat
        BY DEF TypeOK
      <4> QED BY <2>2, <3>1, <3>2, <4>1, WalkClaims DEF ClockTick, Tick
    <3>3. CASE ~CanTick
      BY <2>2, <3>1, <3>3 DEF ClockTick, Queued
    <3> QED BY <3>2, <3>3
  <2>3. ASSUME NEW t \in Tenants, StartRun(t) PROVE Inv'
    <3>1. /\ queue[t] # <<>> /\ queue' = [queue EXCEPT ![t] = Tail(@)]
          /\ ~Busy(t) /\ inFlight' = inFlight
      BY <2>3 DEF Behind, StartRun
    <3>2. /\ \A u \in Tenants : u # t => exec'[u] = exec[u] /\ queue'[u] = queue[u]
          /\ exec'[t].call = Head(queue[t]) /\ exec'[t] # NoRun
      <4>1. PICK id \in FreshIds(runs[t][Head(queue[t]).job]) :
              exec' = [exec EXCEPT ![t] = [call |-> Head(queue[t]), id |-> id]]
        BY <2>3 DEF Behind, StartRun
      <4>2. id \in Nat
        BY DEF FreshIds
      <4> QED BY <3>1, <4>1, <4>2 DEF TypeOK, NoRun
    <3>3. queue[t] \in Seq(Call)
      BY DEF TypeOK
    <3>4. /\ Len(queue[t]) \in Nat /\ Head(queue[t]) = queue[t][1]
          /\ queue'[t] = Tail(queue[t])
          /\ Len(Tail(queue[t])) = Len(queue[t]) - 1
          /\ \A n \in 1 .. Len(Tail(queue[t])) : Tail(queue[t])[n] = queue[t][n + 1]
      BY <3>1, <3>3, HeadTailProperties, LenProperties DEF TypeOK
    <3>5. ASSUME NEW j \in Jobs, Queued(t, j) PROVE Runs(t, j)' \/ Queued(t, j)'
      <4>1. PICK n \in 1 .. Len(queue[t]) : queue[t][n].job = j
        BY <3>5 DEF Queued
      <4>2. CASE n = 1
        BY <3>2, <3>4, <4>1, <4>2 DEF Runs, Busy
      <4>3. CASE n # 1
        <5>1. n - 1 \in 1 .. Len(queue'[t]) /\ queue'[t][n - 1] = queue[t][(n - 1) + 1]
          BY <3>4, <4>3
        <5>2. queue'[t][n - 1].job = j
          BY <4>1, <5>1
        <5> QED BY <5>1, <5>2 DEF Queued
      <4> QED BY <4>2, <4>3
    <3>6. ASSUME NEW u \in Tenants, u # t, NEW j \in Jobs
          PROVE  (Runs(u, j)' <=> Runs(u, j)) /\ (Queued(u, j)' <=> Queued(u, j))
      BY <3>2, <3>6 DEF Runs, Busy, Queued
    <3>7. \A j \in Jobs : ~Runs(t, j)
      BY <3>1 DEF Runs
    <3> QED BY <3>1, <3>5, <3>6, <3>7
  <2>4. ASSUME NEW t \in Tenants, NEW outcome \in Outcomes, FinishRun(t, outcome) PROVE Inv'
    <3> DEFINE job == exec[t].call.job
    <3>1. /\ Busy(t) /\ exec' = [exec EXCEPT ![t] = NoRun]
          /\ job \in Jobs
      BY <2>4, OutcomeTypes DEF FinishRun
    <3>2. \A u \in Tenants, j \in Jobs :
            /\ u # t => (Runs(u, j)' <=> Runs(u, j))
            /\ Runs(t, j) => j = job
      BY <3>1 DEF Runs, Busy, TypeOK
    <3>3. \A u \in Tenants, j \in Jobs :
            /\ Queued(u, j) => Queued(u, j)'
            /\ <<u, j>> \in inFlight' => <<u, j>> \in Released(t) \/ Queued(u, j)'
      <4>1. CASE exec[t].call.chain = TickChain
        <5>1. pass.now \in Nat
          <6>1. pass.on
            BY <3>1, <4>1 DEF RunningTickIsAwaited, RunsTick, IsTick, Awaited
          <6>2. pass \in Pass
            BY <6>1 DEF TypeOK, NoPass
          <6> QED BY <6>2 DEF Pass
        <5>2. WalkFrom(Released(t), row', pass.tenant, pass.job, pass.seen, pass.now)
          BY <2>4, <4>1 DEF FinishRun
        <5> QED BY <5>1, <5>2, WalkClaims
      <4>2. CASE exec[t].call.chain # TickChain
        BY <2>4, <4>2 DEF FinishRun, Queued
      <4> QED BY <4>1, <4>2
    <3>4. \A u \in Tenants, j \in Jobs :
            <<u, j>> \in Released(t) => <<u, j>> \in inFlight /\ ~(u = t /\ j = job)
      BY DEF Released
    <3> QED BY <3>2, <3>3, <3>4
  <2>5. ASSUME NEW t \in Tenants, NEW asked \in SUBSET Jobs, StartRefresh(t, asked),
               UNCHANGED exec
        PROVE  Inv'
    <3>1. \A u \in Tenants, j \in Jobs : Runs(u, j)' <=> Runs(u, j)
      BY <2>5 DEF Runs, Busy
    <3> QED BY <2>5, <3>1, RefreshClaims
  <2>6. ASSUME NEW t \in Tenants, NEW asked \in Requests, Refresh(t, asked) PROVE Inv'
    BY <2>5, <2>6, JobAssumption DEF Refresh
  <2>7. ASSUME NEW t \in Tenants, Reset(t) PROVE Inv'
    BY <2>5, <2>7, JobAssumption DEF Reset
  <2>8. CASE MemoryIsLost
    BY <2>8 DEF MemoryIsLost
  <2>9. CASE UNCHANGED <<queue, exec, inFlight>>
    BY <2>9 DEF Runs, Busy, Queued
  <2> QED
    BY <2>1, <2>2, <2>3, <2>4, <2>6, <2>7, <2>8, <2>9
       DEF Next, StartRunFails, FinishRunFails, ZombieEnds, Shutdown, Exit, Crash, vars
<1>3. Inv => ClaimsAreReal
  BY PendingIs DEF ClaimsAreReal, ClaimedBy
<1> QED BY <1>1, <1>2, <1>3, TypeInvInvariant, PTL DEF Spec

(***************************************************************************)
(* The rows and what runs                                                  *)
(***************************************************************************)
RunningIds(rs) == {r.id : r \in {h \in rs : h.status = "running"}}
LiveIds(t, j) == IF Runs(t, j) THEN {exec[t].id} ELSE {}
RowsAgree == \A t \in Tenants, j \in Jobs :
               /\ row[t][j].status = "running" <=> Runs(t, j)
               /\ RunningIds(runs[t][j]) = LiveIds(t, j)

LEMMA RowsAgreeIs == RunningRowsAreLive <=> (phase # "down" => RowsAgree)
BY DEF RunningRowsAreLive, RowsAgree, RunningIds, LiveIds, Runs

\* No running row survives the update that ends its run, nor the prune.
LEMMA SettledIds ==
  ASSUME NEW rs \in SUBSET HistoryRow, NEW id, NEW status \in RunStatus \ {"running"},
         RunningIds(rs) \subseteq {id},
         NEW kept \in SUBSET WithStatus(rs, id, status)
  PROVE  RunningIds(kept) = {}
<1> SUFFICES ASSUME NEW r \in kept, r.status = "running" PROVE FALSE
  BY DEF RunningIds
<1>1. PICK s \in rs : r = IF s.id = id THEN [s EXCEPT !.status = status] ELSE s
  BY DEF WithStatus
<1>2. CASE s.id = id
  <2>1. r.status = status
    BY <1>1, <1>2 DEF HistoryRow
  <2> QED BY <2>1
<1>3. CASE s.id # id
  BY <1>1, <1>3 DEF RunningIds
<1> QED BY <1>2, <1>3

\* The row a start inserts is the one more that is running.
LEMMA StartedIds ==
  ASSUME NEW rs, NEW id, NEW at
  PROVE  RunningIds(rs \cup {[id |-> id, at |-> at, status |-> "running"]})
           = RunningIds(rs) \cup {id}
<1> DEFINE new == [id |-> id, at |-> at, status |-> "running"]
<1>1. {h \in rs \cup {new} : h.status = "running"}
        = {h \in rs : h.status = "running"} \cup {new}
  OBVIOUS
<1>2. new.id = id
  OBVIOUS
<1> HIDE DEF new
<1>3. RunningIds(rs \cup {new}) = RunningIds(rs) \cup {id}
  BY <1>1, <1>2 DEF RunningIds
<1> QED BY <1>3 DEF new

\* With a database that answers, a row says running exactly while its job holds
\* the tenant's queue, in both tables, from every start of the process on.
THEOREM RowsLive == ASSUME ~DbMayFail PROVE Spec => []RunningRowsAreLive
<1> DEFINE Inv == phase # "down" => RowsAgree
<1>1. Init => Inv
  BY DEF Init
<1>2. TypeInv /\ Inv /\ [Next]_vars => Inv'
  <2> SUFFICES ASSUME TypeOK, DownIsIdle, Inv, [Next]_vars, phase' # "down"
               PROVE  RowsAgree'
    BY DEF TypeInv
  <2>1. CASE Boot
    <3>1. \A t \in Tenants, j \in Jobs : ~Runs(t, j)'
      BY <2>1 DEF Boot, DownIsIdle, Runs, Busy
    <3>2. ASSUME NEW t \in Tenants, NEW j \in Jobs
          PROVE  row'[t][j].status # "running"
      <4>1. row'[t][j] = ClearedRow(row[t][j]) /\ row[t][j] \in JobRow
        BY <2>1 DEF Boot, ClearStaleRunning, TypeOK
      <4> QED BY <4>1 DEF ClearedRow, JobRow
    <3>3. ASSUME NEW t \in Tenants, NEW j \in Jobs
          PROVE  RunningIds(runs'[t][j]) = {}
      <4>1. runs'[t][j] = Interrupted(runs[t][j]) /\ runs[t][j] \in SUBSET HistoryRow
        BY <2>1 DEF Boot, ClearStaleRunning, TypeOK
      <4>2. \A r \in HistoryRow :
              (IF r.status = "running" THEN [r EXCEPT !.status = "error"] ELSE r).status
                # "running"
        BY DEF HistoryRow
      <4> QED BY <4>1, <4>2 DEF Interrupted, RunningIds
    <3> QED BY <3>1, <3>2, <3>3 DEF RowsAgree, LiveIds
  <2>2. CASE UNCHANGED <<phase, exec, row, runs>>
    BY <2>2 DEF RowsAgree, LiveIds, Runs, Busy, RunningIds
  <2>3. ASSUME NEW t \in Tenants, StartRun(t) PROVE RowsAgree'
    <3> DEFINE call == Head(queue[t])
               j == call.job
    <3>1. /\ call \in Call /\ j \in Jobs
          /\ ~Busy(t) /\ RowsAgree
          /\ row' = [row EXCEPT ![t][j] = MarkedRunning(@, call)]
      BY <2>3, HeadTypes DEF Behind, StartRun
    <3>2. PICK id \in FreshIds(runs[t][j]) :
            /\ exec' = [exec EXCEPT ![t] = [call |-> call, id |-> id]]
            /\ runs' = [runs EXCEPT ![t][j] =
                          @ \cup {[id |-> id, at |-> call.at, status |-> "running"]}]
      BY <2>3 DEF Behind, StartRun
    <3>3. id \in Nat
      BY DEF FreshIds
    <3> HIDE DEF call, j
    <3>4. exec'[t].call = call /\ exec'[t].id = id /\ exec'[t] # NoRun
          /\ \A u \in Tenants : u # t => exec'[u] = exec[u]
      BY <3>2, <3>3 DEF TypeOK, NoRun
    <3>5. /\ \A i \in Jobs : Runs(t, i)' <=> i = j
          /\ \A u \in Tenants, i \in Jobs : u # t => (Runs(u, i)' <=> Runs(u, i))
          /\ \A i \in Jobs : ~Runs(t, i)
      BY <3>1, <3>4 DEF Runs, Busy, j
    <3>6. /\ row'[t][j].status = "running"
          /\ \A u \in Tenants, i \in Jobs : ~(u = t /\ i = j) => row'[u][i] = row[u][i]
      <4>1. row[t][j] \in JobRow /\ row'[t][j] = MarkedRunning(row[t][j], call)
        BY <3>1 DEF TypeOK
      <4>2. row'[t][j].status = "running"
        BY <4>1 DEF MarkedRunning, JobRow
      <4> QED BY <3>1, <4>2 DEF TypeOK
    <3>7. /\ runs'[t][j] = runs[t][j] \cup {[id |-> id, at |-> call.at, status |-> "running"]}
          /\ \A u \in Tenants, i \in Jobs : ~(u = t /\ i = j) => runs'[u][i] = runs[u][i]
      BY <3>1, <3>2 DEF TypeOK
    <3>8. RunningIds(runs[t][j]) = {}
      BY <3>1, <3>5 DEF RowsAgree, LiveIds
    <3>9. RunningIds(runs'[t][j]) = {id}
      <4>1. RunningIds(runs[t][j] \cup {[id |-> id, at |-> call.at, status |-> "running"]})
              = RunningIds(runs[t][j]) \cup {id}
        BY StartedIds
      <4> QED BY <3>7, <3>8, <4>1
    <3>10. ASSUME NEW u \in Tenants, NEW i \in Jobs
           PROVE  /\ row'[u][i].status = "running" <=> Runs(u, i)'
                  /\ RunningIds(runs'[u][i]) = LiveIds(u, i)'
      <4>1. CASE u = t /\ i = j
        BY <3>4, <3>5, <3>6, <3>9, <4>1 DEF LiveIds
      <4>2. CASE u = t /\ i # j
        <5>1. ~Runs(t, i) /\ ~Runs(t, i)'
          BY <3>5, <4>2
        <5>2. row[t][i].status # "running" /\ RunningIds(runs[t][i]) = {}
          BY <3>1, <5>1 DEF LiveIds, RowsAgree
        <5>3. row'[t][i] = row[t][i] /\ runs'[t][i] = runs[t][i]
          BY <3>6, <3>7, <4>2
        <5> QED BY <4>2, <5>1, <5>2, <5>3 DEF LiveIds
      <4>3. CASE u # t
        <5>1. LiveIds(u, i)' = LiveIds(u, i) /\ (Runs(u, i)' <=> Runs(u, i))
          BY <3>4, <3>5, <4>3 DEF LiveIds
        <5>2. (row[u][i].status = "running" <=> Runs(u, i))
              /\ RunningIds(runs[u][i]) = LiveIds(u, i)
          BY <3>1 DEF RowsAgree
        <5>3. row'[u][i] = row[u][i] /\ runs'[u][i] = runs[u][i]
          BY <3>6, <3>7, <4>3
        <5> QED BY <5>1, <5>2, <5>3
      <4> QED BY <4>1, <4>2, <4>3
    <3> QED BY <3>10 DEF RowsAgree
  <2>4. ASSUME NEW t \in Tenants, NEW outcome \in Outcomes, FinishRun(t, outcome)
        PROVE  RowsAgree'
    <3> DEFINE call == exec[t].call
               j == call.job
               written == WithStatus(runs[t][j], exec[t].id, RunStatusOf(outcome))
    <3>1. /\ Busy(t) /\ exec' = [exec EXCEPT ![t] = NoRun] /\ RowsAgree
          /\ j \in Jobs
          /\ row' = [row EXCEPT ![t][j] = Recorded(@, call, outcome)]
      BY <2>4, OutcomeTypes DEF FinishRun
    <3>2. PICK kept \in Pruned(written) : runs' = [runs EXCEPT ![t][j] = kept]
      BY <2>4 DEF FinishRun
    <3>3. kept \in SUBSET written
      BY <3>2 DEF Pruned
    <3>4. RunStatusOf(outcome) \in RunStatus \ {"running"}
      BY BoundAssumption DEF RunStatusOf, RunStatus, AllOutcomes
    <3>5. runs[t][j] \in SUBSET HistoryRow
      BY <3>1 DEF TypeOK
    <3>6. RunningIds(runs[t][j]) \subseteq {exec[t].id}
      BY <3>1 DEF RowsAgree, LiveIds
    <3>7. RunningIds(kept) = {}
      BY <3>3, <3>4, <3>5, <3>6, SettledIds
    <3>8. Recorded(row[t][j], call, outcome).status # "running"
      BY DEF Recorded
    <3>9. /\ \A i \in Jobs : ~Runs(t, i)'
          /\ \A u \in Tenants : u # t => exec'[u] = exec[u]
          /\ \A u \in Tenants, i \in Jobs : u # t => (Runs(u, i)' <=> Runs(u, i))
          /\ \A i \in Jobs : Runs(t, i) => i = j
      BY <3>1 DEF Runs, Busy, TypeOK
    <3> HIDE DEF call, j, written
    <3>10. /\ row'[t][j].status # "running"
           /\ \A u \in Tenants, i \in Jobs : ~(u = t /\ i = j) => row'[u][i] = row[u][i]
      BY <3>1, <3>8 DEF TypeOK
    <3>11. /\ runs'[t][j] = kept
           /\ \A u \in Tenants, i \in Jobs : ~(u = t /\ i = j) => runs'[u][i] = runs[u][i]
      BY <3>1, <3>2 DEF TypeOK
    <3>12. ASSUME NEW u \in Tenants, NEW i \in Jobs
           PROVE  /\ row'[u][i].status = "running" <=> Runs(u, i)'
                  /\ RunningIds(runs'[u][i]) = LiveIds(u, i)'
      <4>1. CASE u = t /\ i = j
        BY <3>7, <3>9, <3>10, <3>11, <4>1 DEF LiveIds
      <4>2. CASE u = t /\ i # j
        <5>1. (row[t][i].status = "running" <=> Runs(t, i))
              /\ RunningIds(runs[t][i]) = LiveIds(t, i)
          BY <3>1 DEF RowsAgree
        <5>2. ~Runs(t, i) /\ ~Runs(t, i)'
          BY <3>9, <4>2
        <5>3. LiveIds(t, i) = {} /\ LiveIds(t, i)' = {}
          BY <5>2 DEF LiveIds
        <5>4. row'[t][i] = row[t][i] /\ runs'[t][i] = runs[t][i]
          BY <3>10, <3>11, <4>2
        <5> QED BY <4>2, <5>1, <5>2, <5>3, <5>4
      <4>3. CASE u # t
        <5>1. Runs(u, i)' <=> Runs(u, i)
          BY <3>9, <4>3
        <5>2. LiveIds(u, i)' = LiveIds(u, i)
          BY <3>9, <5>1, <4>3 DEF LiveIds
        <5>3. (row[u][i].status = "running" <=> Runs(u, i))
              /\ RunningIds(runs[u][i]) = LiveIds(u, i)
          BY <3>1 DEF RowsAgree
        <5>4. row'[u][i] = row[u][i] /\ runs'[u][i] = runs[u][i]
          BY <3>10, <3>11, <4>3
        <5> QED BY <5>1, <5>2, <5>3, <5>4
      <4> QED BY <4>1, <4>2, <4>3
    <3> QED BY <3>12 DEF RowsAgree
  <2>5. CASE Shutdown
    BY <2>5 DEF Shutdown, RowsAgree, LiveIds, Runs, Busy, RunningIds
  <2>6. CASE MemoryIsLost
    BY <2>6 DEF MemoryIsLost
  <2> QED
    BY <2>1, <2>2, <2>3, <2>4, <2>5, <2>6
       DEF Next, ClockTick, StartRunFails, FinishRunFails, ZombieEnds, Refresh, Reset,
           Exit, Crash, vars
<1>3. Inv => RunningRowsAreLive
  BY RowsAgreeIs
<1> QED BY <1>1, <1>2, <1>3, TypeInvInvariant, PTL DEF Spec

(***************************************************************************)
(* The order of refreshes. In one tenant's line (what holds the queue, then*)
(* what waits) the calls of an earlier refresh stand before those of a     *)
(* later one, and those of one refresh in registry order. A new refresh    *)
(* goes to the back as a whole; that its chain is later than any in the    *)
(* line is why the invariant also bounds the chains.                       *)
(***************************************************************************)
InTurn(c, d) == OfRefreshes(c, d) => RunsBefore(c, d)

OneOrder(q) == \A k, n \in 1 .. Len(q) : k < n => InTurn(q[k], q[n])
AfterFirst(call, q) == \A n \in 1 .. Len(q) : InTurn(call, q[n])

Ordered(e, q, top) ==
  /\ \A n \in 1 .. Len(q) : q[n].chain <= top
  /\ OneOrder(q)
  /\ e # NoRun => e.call.chain <= top /\ AfterFirst(e.call, q)

LinesOrdered == \A t \in Tenants : Ordered(exec[t], queue[t], refreshes)

\* The calls of a refresh come after all that was accepted before it.
LEMMA LaterRefresh ==
  ASSUME NEW c, NEW d, c.chain \in Nat, d.chain \in Nat, NEW top \in Nat,
         c.chain <= top, IsTick(d) \/ d.chain > top
  PROVE  InTurn(c, d)
BY DEF InTurn, OfRefreshes, RunsBefore, IsTick

\* The front of a line that starts is ahead of all that waited behind it.
LEMMA OrderedTail ==
  ASSUME NEW q \in Seq(Call), q # <<>>, NEW top, NEW id, Ordered(NoRun, q, top)
  PROVE  /\ Ordered(NoRun, Tail(q), top)
         /\ Ordered([call |-> Head(q), id |-> id], Tail(q), top)
<1>1. /\ Head(q) = q[1] /\ Len(q) \in Nat /\ Len(q) # 0
      /\ Len(Tail(q)) = Len(q) - 1
      /\ \A n \in 1 .. Len(Tail(q)) : Tail(q)[n] = q[n + 1]
  BY HeadTailProperties, EmptySeq, LenProperties
<1>2. \A n \in 1 .. Len(Tail(q)) : n + 1 \in 1 .. Len(q) /\ 1 < n + 1
  BY <1>1
<1>3. 1 \in 1 .. Len(q)
  BY <1>1
<1>4. \A n \in 1 .. Len(Tail(q)) : Tail(q)[n].chain <= top
  BY <1>1, <1>2 DEF Ordered
<1>5. OneOrder(Tail(q))
  <2> SUFFICES ASSUME NEW k \in 1 .. Len(Tail(q)), NEW n \in 1 .. Len(Tail(q)),
                      k < n
               PROVE  InTurn(Tail(q)[k], Tail(q)[n])
    BY DEF OneOrder
  <2>1. Tail(q)[k] = q[k + 1] /\ Tail(q)[n] = q[n + 1] /\ k + 1 < n + 1
    BY <1>1
  <2> QED BY <1>2, <2>1 DEF Ordered, OneOrder
<1>6. AfterFirst(Head(q), Tail(q))
  <2> SUFFICES ASSUME NEW n \in 1 .. Len(Tail(q)) PROVE InTurn(Head(q), Tail(q)[n])
    BY DEF AfterFirst
  <2>1. Tail(q)[n] = q[n + 1] /\ Head(q) = q[1]
    BY <1>1
  <2> QED BY <1>2, <1>3, <2>1 DEF Ordered, OneOrder
<1>7. Head(q).chain <= top
  BY <1>1, <1>3 DEF Ordered
<1> QED BY <1>4, <1>5, <1>6, <1>7 DEF Ordered

\* Calls of a new refresh, in order, and calls of the ticker go behind a line.
LEMMA OrderedAppend ==
  ASSUME NEW e \in Run \cup {NoRun}, NEW q \in Seq(Call), NEW calls \in Seq(Call),
         NEW top \in Nat, NEW next \in Nat, top <= next, Ordered(e, q, top),
         \A n \in 1 .. Len(calls) : /\ calls[n].chain <= next
                                    /\ IsTick(calls[n]) \/ calls[n].chain > top,
         OneOrder(calls)
  PROVE  Ordered(e, q \o calls, next)
<1> DEFINE line == q \o calls
<1>1. /\ Len(line) = Len(q) + Len(calls) /\ Len(q) \in Nat /\ Len(calls) \in Nat
      /\ \A n \in 1 .. Len(q) : line[n] = q[n]
      /\ \A n \in 1 .. Len(calls) : line[Len(q) + n] = calls[n]
  BY ConcatProperties, LenProperties
<1> HIDE DEF line
<1>2. ASSUME NEW n \in 1 .. Len(line), n \notin 1 .. Len(q)
      PROVE  n - Len(q) \in 1 .. Len(calls) /\ line[n] = calls[n - Len(q)]
  <2>1. n - Len(q) \in 1 .. Len(calls) /\ Len(q) + (n - Len(q)) = n
    BY <1>1, <1>2
  <2> QED BY <1>1, <2>1
<1>3. /\ \A n \in 1 .. Len(q) : q[n].chain \in Nat
      /\ \A n \in 1 .. Len(calls) : calls[n].chain \in Nat
  <2>1. /\ \A n \in 1 .. Len(q) : q[n] \in Call
        /\ \A n \in 1 .. Len(calls) : calls[n] \in Call
    BY ElementOfSeq
  <2> QED BY <2>1 DEF Call
<1>4. ASSUME NEW n \in 1 .. Len(line) PROVE line[n].chain <= next
  <2>1. CASE n \in 1 .. Len(q)
    <3>1. q[n].chain <= top /\ q[n].chain \in Nat /\ line[n] = q[n]
      BY <1>1, <1>3, <2>1 DEF Ordered
    <3> QED BY <3>1
  <2>2. CASE n \notin 1 .. Len(q)
    BY <1>2, <2>2
  <2> QED BY <2>1, <2>2
<1>5. OneOrder(line)
  <2> SUFFICES ASSUME NEW k \in 1 .. Len(line), NEW n \in 1 .. Len(line), k < n
               PROVE  InTurn(line[k], line[n])
    BY DEF OneOrder
  <2>1. CASE n \in 1 .. Len(q)
    <3>1. k \in 1 .. Len(q)
      BY <1>1, <2>1
    <3> QED BY <1>1, <2>1, <3>1 DEF Ordered, OneOrder
  <2>2. CASE k \in 1 .. Len(q) /\ n \notin 1 .. Len(q)
    <3>1. line[k].chain <= top /\ line[k].chain \in Nat
      BY <1>1, <1>3, <2>2 DEF Ordered
    <3>2. line[n].chain \in Nat /\ (IsTick(line[n]) \/ line[n].chain > top)
      BY <1>2, <1>3, <2>2
    <3> QED BY <3>1, <3>2, LaterRefresh
  <2>3. CASE k \notin 1 .. Len(q) /\ n \notin 1 .. Len(q)
    <3>1. /\ k - Len(q) \in 1 .. Len(calls) /\ line[k] = calls[k - Len(q)]
          /\ n - Len(q) \in 1 .. Len(calls) /\ line[n] = calls[n - Len(q)]
      BY <1>2, <2>3
    <3>2. k - Len(q) < n - Len(q)
      BY <1>1
    <3> QED BY <3>1, <3>2 DEF OneOrder
  <2> QED BY <2>1, <2>2, <2>3
<1>6. ASSUME e # NoRun PROVE e.call.chain <= next /\ AfterFirst(e.call, line)
  <2>1. e.call.chain \in Nat /\ e.call.chain <= top
    BY <1>6 DEF Run, Call, Ordered
  <2>2. ASSUME NEW n \in 1 .. Len(line) PROVE InTurn(e.call, line[n])
    <3>1. CASE n \in 1 .. Len(q)
      BY <1>1, <1>6, <3>1 DEF Ordered, AfterFirst
    <3>2. CASE n \notin 1 .. Len(q)
      <4>1. line[n].chain \in Nat /\ (IsTick(line[n]) \/ line[n].chain > top)
        BY <1>2, <1>3, <3>2
      <4> QED BY <2>1, <4>1, LaterRefresh
    <3> QED BY <3>1, <3>2
  <2> QED BY <2>1, <2>2, SMTT(30) DEF AfterFirst
<1> QED BY <1>4, <1>5, <1>6 DEF Ordered, line

\* A line loses its front, or grows at its back: what happens to one tenant's
\* queue happens to no other's.
LEMMA ClaimAppends ==
  ASSUME TypeOK, NEW held, NEW t \in Tenants, NEW calls, Claim(held, t, calls)
  PROVE  queue'[t] = queue[t] \o calls /\ \A u \in Tenants : u # t => queue'[u] = queue[u]
BY DEF Claim, TypeOK

LEMMA WalkAppends ==
  ASSUME TypeOK, NEW held, NEW rows, NEW k, NEW i, NEW seen, NEW now \in Nat,
         WalkFrom(held, rows, k, i, seen, now), NEW u \in Tenants
  PROVE  \/ queue'[u] = queue[u]
         \/ \E call \in Call : /\ IsTick(call) /\ call.at = now
                               /\ queue'[u] = queue[u] \o <<call>>
<1>1. CASE UNCHANGED queue
  BY <1>1
<1>2. ASSUME NEW p \in DueAfter(rows, k, i, seen, now),
             Claim(held, TenantOrder[p[1]],
                   <<[job |-> Registry[p[2]], chain |-> TickChain, at |-> now]>>)
      PROVE  \/ queue'[u] = queue[u]
             \/ \E call \in Call : /\ IsTick(call) /\ call.at = now
                                   /\ queue'[u] = queue[u] \o <<call>>
  <2> DEFINE call == [job |-> Registry[p[2]], chain |-> TickChain, at |-> now]
  <2>1. TenantOrder[p[1]] \in Tenants /\ Registry[p[2]] \in Jobs
    BY OrderTypes DEF DueAfter
  <2>2. call \in Call /\ IsTick(call) /\ call.at = now
    BY <2>1 DEF Call, TickChain, Times, IsTick
  <2> HIDE DEF call
  <2>3. /\ queue'[TenantOrder[p[1]]] = queue[TenantOrder[p[1]]] \o <<call>>
        /\ u # TenantOrder[p[1]] => queue'[u] = queue[u]
    BY <1>2, <2>1, ClaimAppends, ZenonT(40) DEF call
  <2> QED BY <2>2, <2>3
<1> QED BY <1>1, <1>2 DEF WalkFrom

LEMMA RefreshAppends ==
  ASSUME TypeOK, NEW t \in Tenants, NEW asked \in SUBSET Jobs, StartRefresh(t, asked)
  PROVE  /\ \A u \in Tenants : u # t => queue'[u] = queue[u]
         /\ \E calls \in Seq(Call) :
              /\ queue'[t] = queue[t] \o calls
              /\ \A n \in 1 .. Len(calls) : calls[n].chain = refreshes' /\ calls[n].at = clock
              /\ OneOrder(calls)
<1>1. PICK chain \in ChainsOf(Expand(asked)) :
         InOrder(chain) /\ Claim(inFlight, t, CallsOf(chain, refreshes + 1, clock))
  BY DEF StartRefresh
<1> DEFINE calls == CallsOf(chain, refreshes + 1, clock)
<1>2. Expand(asked) \in SUBSET Jobs /\ clock \in Times /\ refreshes + 1 \in Nat
  BY DEF Expand, TypeOK, Times
<1>3. calls \in Seq(Call)
  BY <1>2, ChainTypes
<1>4. Cardinality(Expand(asked)) \in Nat
  BY <1>2, JobsFinite, FS_Subset, FS_CardinalityType
<1>5. chain \in Seq(Jobs) /\ DOMAIN chain = 1 .. Len(chain)
  BY <1>2, <1>4 DEF ChainsOf
<1>6. /\ Len(calls) = Len(chain)
      /\ \A n \in 1 .. Len(chain) :
           calls[n] = [job |-> chain[n], chain |-> refreshes + 1, at |-> clock]
  BY <1>5 DEF CallsOf
<1> HIDE DEF calls
<1>7. refreshes' = refreshes + 1
  BY DEF StartRefresh
<1>8. \A n \in 1 .. Len(calls) : calls[n].chain = refreshes' /\ calls[n].at = clock
                                 /\ calls[n].job = chain[n]
  <2> TAKE n \in 1 .. Len(calls)
  <2>1. calls[n] = [job |-> chain[n], chain |-> refreshes + 1, at |-> clock]
    BY <1>6
  <2> QED BY <1>7, <2>1
<1>9. OneOrder(calls)
  <2> SUFFICES ASSUME NEW k \in 1 .. Len(calls), NEW n \in 1 .. Len(calls), k < n
               PROVE  InTurn(calls[k], calls[n])
    BY DEF OneOrder
  <2>1. Rank(chain[k]) < Rank(chain[n])
    BY <1>1, <1>5, <1>6 DEF InOrder
  <2>2. calls[k].chain = calls[n].chain /\ Rank(calls[k].job) < Rank(calls[n].job)
    BY <1>8, <2>1
  <2> QED BY <2>2 DEF InTurn, RunsBefore
<1>10. /\ queue'[t] = queue[t] \o calls
       /\ \A u \in Tenants : u # t => queue'[u] = queue[u]
  BY <1>1, ClaimAppends DEF calls
<1> QED BY <1>3, <1>8, <1>9, <1>10

\* One call of the ticker behind a line, or none: the order is as it was.
LEMMA OrderedWalk ==
  ASSUME TypeOK, NEW held, NEW rows, NEW k, NEW i, NEW seen, NEW now \in Nat,
         WalkFrom(held, rows, k, i, seen, now), NEW u \in Tenants,
         NEW e \in Run \cup {NoRun}, Ordered(e, queue[u], refreshes)
  PROVE  Ordered(e, queue'[u], refreshes)
<1>1. CASE queue'[u] = queue[u]
  BY <1>1
<1>2. ASSUME NEW call \in Call, IsTick(call), queue'[u] = queue[u] \o <<call>>
      PROVE  Ordered(e, queue'[u], refreshes)
  <2>1. queue[u] \in Seq(Call) /\ <<call>> \in Seq(Call) /\ refreshes \in Nat
    BY DEF TypeOK
  <2>2. \A n \in 1 .. Len(<<call>>) : <<call>>[n].chain <= refreshes /\ IsTick(<<call>>[n])
    BY <1>2, <2>1 DEF IsTick, TickChain
  <2>3. OneOrder(<<call>>)
    BY DEF OneOrder
  <2>4. refreshes <= refreshes
    BY <2>1
  <2>5. Ordered(e, queue[u] \o <<call>>, refreshes)
    BY <2>1, <2>2, <2>3, <2>4, OrderedAppend
  <2> QED BY <1>2, <2>5
<1> QED BY <1>1, <1>2, WalkAppends

\* A tenant's refreshes never interleave, and the jobs of one run in dependency
\* order: what runs or waits ahead belongs to an earlier refresh, or comes earlier
\* in the registry, than what waits behind, whatever the ticker puts in between,
\* whatever fails and whenever the process dies.
THEOREM ChainsInOrder == Spec => []ChainsRunInOrder
<1>1. Init => LinesOrdered
  BY DEF Init, LinesOrdered, Ordered, OneOrder
<1>2. TypeInv /\ LinesOrdered /\ [Next]_vars => LinesOrdered'
  <2> SUFFICES ASSUME TypeOK, RunningTickIsAwaited, LinesOrdered, [Next]_vars,
                      NEW u \in Tenants
               PROVE  Ordered(exec'[u], queue'[u], refreshes')
    BY DEF TypeInv, PassInv, LinesOrdered
  <2>1. /\ exec[u] \in Run \cup {NoRun} /\ queue[u] \in Seq(Call) /\ refreshes \in Nat
        /\ Ordered(exec[u], queue[u], refreshes)
    BY DEF TypeOK, LinesOrdered
  <2>2. Ordered(NoRun, queue[u], refreshes)
    BY <2>1 DEF Ordered
  <2>3. CASE Boot
    <3>1. UNCHANGED <<exec, refreshes>> /\ clock \in Nat
          /\ WalkFrom(inFlight, row', 1, 0, SeenIn(row', 1), clock)
      BY <2>3 DEF Boot, Tick, TypeOK
    <3> QED BY <2>1, <3>1, OrderedWalk
  <2>4. CASE ClockTick
    <3>1. UNCHANGED <<exec, refreshes>>
      BY <2>4 DEF ClockTick
    <3>2. CASE CanTick
      <4>1. clock + 1 \in Nat /\ WalkFrom(inFlight, row, 1, 0, SeenIn(row, 1), clock + 1)
        BY <2>4, <3>2 DEF ClockTick, Tick, TypeOK
      <4> QED BY <2>1, <3>1, <4>1, OrderedWalk
    <3>3. CASE ~CanTick
      BY <2>1, <2>4, <3>1, <3>3 DEF ClockTick
    <3> QED BY <3>2, <3>3
  <2>5. ASSUME NEW t \in Tenants, StartRun(t)
        PROVE  Ordered(exec'[u], queue'[u], refreshes')
    <3>1. /\ queue[t] # <<>> /\ queue' = [queue EXCEPT ![t] = Tail(@)]
          /\ refreshes' = refreshes
      BY <2>5 DEF StartRun, Behind
    <3>2. PICK id : exec' = [exec EXCEPT ![t] = [call |-> Head(queue[t]), id |-> id]]
      BY <2>5 DEF StartRun
    <3>3. CASE u = t
      <4>1. exec'[t] = [call |-> Head(queue[t]), id |-> id] /\ queue'[t] = Tail(queue[t])
        BY <3>1, <3>2 DEF TypeOK
      <4> QED BY <2>1, <2>2, <3>1, <3>3, <4>1, OrderedTail
    <3>4. CASE u # t
      BY <2>1, <3>1, <3>2, <3>4
    <3> QED BY <3>3, <3>4
  <2>6. ASSUME NEW t \in Tenants, StartRunFails(t)
        PROVE  Ordered(exec'[u], queue'[u], refreshes')
    <3>1. /\ queue[t] # <<>> /\ queue' = [queue EXCEPT ![t] = Tail(@)]
          /\ refreshes' = refreshes /\ exec' = exec /\ exec[t] = NoRun
      BY <2>6 DEF StartRunFails, Behind, Busy
    <3>2. CASE u = t
      <4>1. queue'[t] = Tail(queue[t])
        BY <3>1 DEF TypeOK
      <4> QED BY <2>1, <2>2, <3>1, <3>2, <4>1, OrderedTail
    <3>3. CASE u # t
      BY <2>1, <3>1, <3>3
    <3> QED BY <3>2, <3>3
  <2>7. ASSUME NEW t \in Tenants, NEW outcome \in Outcomes, FinishRun(t, outcome)
        PROVE  Ordered(exec'[u], queue'[u], refreshes')
    <3>1. /\ Busy(t) /\ exec' = [exec EXCEPT ![t] = NoRun] /\ refreshes' = refreshes
      BY <2>7 DEF FinishRun
    <3>2. exec'[u] \in Run \cup {NoRun} /\ Ordered(exec'[u], queue[u], refreshes)
      BY <2>1, <2>2, <3>1 DEF TypeOK
    <3>3. CASE exec[t].call.chain = TickChain
      <4>1. pass.now \in Nat
        <5>1. pass.on
          BY <3>1, <3>3 DEF RunningTickIsAwaited, RunsTick, IsTick, Awaited
        <5>2. pass \in Pass
          BY <5>1 DEF TypeOK, NoPass
        <5> QED BY <5>2 DEF Pass
      <4>2. WalkFrom(Released(t), row', pass.tenant, pass.job, pass.seen, pass.now)
        BY <2>7, <3>3 DEF FinishRun
      <4>3. Ordered(exec'[u], queue'[u], refreshes)
        BY <3>2, <4>1, <4>2, OrderedWalk
      <4> QED BY <3>1, <4>3
    <3>4. CASE exec[t].call.chain # TickChain
      BY <2>7, <3>1, <3>2, <3>4 DEF FinishRun
    <3> QED BY <3>3, <3>4
  <2>8. ASSUME NEW t \in Tenants, NEW outcome \in Outcomes, FinishRunFails(t, outcome)
        PROVE  Ordered(exec'[u], queue'[u], refreshes')
    <3>1. exec' = [exec EXCEPT ![t] = NoRun] /\ UNCHANGED <<queue, refreshes>>
      BY <2>8 DEF FinishRunFails
    <3> QED BY <2>1, <2>2, <3>1 DEF TypeOK
  <2>9. ASSUME NEW t \in Tenants, NEW asked \in SUBSET Jobs, StartRefresh(t, asked),
               UNCHANGED exec
        PROVE  Ordered(exec'[u], queue'[u], refreshes')
    <3>1. refreshes' = refreshes + 1 /\ refreshes + 1 \in Nat /\ refreshes <= refreshes + 1
      BY <2>1, <2>9 DEF StartRefresh
    <3>2. CASE u = t
      <4>1. PICK calls \in Seq(Call) :
              /\ queue'[t] = queue[t] \o calls
              /\ \A n \in 1 .. Len(calls) : calls[n].chain = refreshes' /\ calls[n].at = clock
              /\ OneOrder(calls)
        BY <2>9, RefreshAppends
      <4>2. \A n \in 1 .. Len(calls) :
              /\ calls[n].chain <= refreshes + 1
              /\ IsTick(calls[n]) \/ calls[n].chain > refreshes
        BY <2>1, <3>1, <4>1
      <4>3. Ordered(exec[u], queue[u] \o calls, refreshes + 1)
        BY <2>1, <3>1, <4>1, <4>2, OrderedAppend
      <4> QED BY <2>9, <3>1, <3>2, <4>1, <4>3
    <3>3. CASE u # t
      <4>1. queue'[u] = queue[u] /\ exec'[u] = exec[u]
        BY <2>9, <3>3, RefreshAppends
      <4>2. <<>> \in Seq(Call) /\ OneOrder(<<>>) /\ queue[u] \o <<>> = queue[u]
        BY <2>1, ConcatEmptySeq DEF OneOrder
      <4>3. \A n \in 1 .. Len(<<>>) : FALSE
        OBVIOUS
      <4>4. Ordered(exec[u], queue[u] \o <<>>, refreshes + 1)
        BY <2>1, <3>1, <4>2, <4>3, OrderedAppend
      <4> QED BY <3>1, <4>1, <4>2, <4>4
    <3> QED BY <3>2, <3>3
  <2>10. ASSUME NEW t \in Tenants, NEW asked \in Requests, Refresh(t, asked)
         PROVE  Ordered(exec'[u], queue'[u], refreshes')
    BY <2>9, <2>10, JobAssumption DEF Refresh
  <2>11. ASSUME NEW t \in Tenants, Reset(t) PROVE Ordered(exec'[u], queue'[u], refreshes')
    BY <2>9, <2>11, JobAssumption DEF Reset
  <2>12. CASE MemoryIsLost
    BY <2>12 DEF MemoryIsLost, Ordered, OneOrder
  <2>13. CASE UNCHANGED <<queue, exec, refreshes>>
    BY <2>1, <2>13
  <2> QED
    BY <2>3, <2>4, <2>5, <2>6, <2>7, <2>8, <2>10, <2>11, <2>12, <2>13
       DEF Next, ZombieEnds, Shutdown, Exit, Crash, vars
<1>3. TypeInv /\ LinesOrdered => ChainsRunInOrder
  <2> SUFFICES ASSUME TypeOK, LinesOrdered, NEW t \in Tenants, NEW i \in 1 .. Len(queue[t])
               PROVE  /\ \A k \in 1 .. i - 1 : InTurn(queue[t][k], queue[t][i])
                      /\ Busy(t) => InTurn(exec[t].call, queue[t][i])
    BY DEF TypeInv, ChainsRunInOrder, InTurn
  <2>1. Len(queue[t]) \in Nat /\ Ordered(exec[t], queue[t], refreshes)
    BY LenProperties DEF TypeOK, LinesOrdered
  <2>2. \A k \in 1 .. i - 1 : k \in 1 .. Len(queue[t]) /\ k < i
    BY <2>1
  <2> QED BY <2>1, <2>2 DEF Ordered, OneOrder, AfterFirst, Busy
<1> QED BY <1>1, <1>2, <1>3, TypeInvInvariant, PTL DEF Spec

(***************************************************************************)
(* History is bounded: a run that settles has pruned its job's rows.       *)
(***************************************************************************)
HistoryFinite == \A t \in Tenants, j \in Jobs : IsFiniteSet(runs[t][j])

\* Rewriting the rows of a finite table leaves it finite.
LEMMA RewriteFinite ==
  ASSUME NEW rs, IsFiniteSet(rs), NEW T, NEW f \in [rs -> T], T \subseteq {f[r] : r \in rs}
  PROVE  IsFiniteSet(T)
<1>1. f \in Surjection(rs, T)
  BY DEF Surjection
<1> QED BY <1>1, FS_Surjection

LEMMA WithStatusFinite ==
  ASSUME NEW rs, IsFiniteSet(rs), NEW id, NEW status
  PROVE  /\ IsFiniteSet(WithStatus(rs, id, status))
         /\ \A kept \in Pruned(WithStatus(rs, id, status)) :
              IsFiniteSet(kept) /\ Cardinality(kept) <= Keep
<1>1. PICK f : f = [r \in rs |-> IF r.id = id THEN [r EXCEPT !.status = status] ELSE r]
  OBVIOUS
<1>2. /\ f \in [rs -> WithStatus(rs, id, status)]
      /\ WithStatus(rs, id, status) \subseteq {f[r] : r \in rs}
  BY <1>1 DEF WithStatus
<1>3. IsFiniteSet(WithStatus(rs, id, status))
  BY <1>2, RewriteFinite
<1>4. ASSUME NEW kept \in Pruned(WithStatus(rs, id, status))
      PROVE  IsFiniteSet(kept) /\ Cardinality(kept) <= Keep
  <2>1. kept \subseteq WithStatus(rs, id, status)
    BY DEF Pruned
  <2>2. IsFiniteSet(kept)
    BY <1>3, <2>1, FS_Subset
  <2>3. Cardinality(kept) \in Nat /\ Keep \in Nat
    BY <2>2, FS_CardinalityType, BoundAssumption
  <2>4. Cardinality(kept) < Keep \/ Cardinality(kept) = Keep
    BY DEF Pruned
  <2> QED BY <2>2, <2>3, <2>4
<1> QED BY <1>3, <1>4

LEMMA InterruptedFinite ==
  ASSUME NEW rs, IsFiniteSet(rs)
  PROVE  IsFiniteSet(Interrupted(rs))
<1>1. PICK f : f = [r \in rs |-> IF r.status = "running" THEN [r EXCEPT !.status = "error"]
                                                         ELSE r]
  OBVIOUS
<1>2. f \in [rs -> Interrupted(rs)] /\ Interrupted(rs) \subseteq {f[r] : r \in rs}
  BY <1>1 DEF Interrupted
<1> QED BY <1>2, RewriteFinite

LEMMA InitFinite == Init => HistoryFinite
BY FS_EmptySet DEF Init, HistoryFinite

LEMMA NextFinite == TypeOK /\ HistoryFinite /\ [Next]_vars => HistoryFinite'
<1> SUFFICES ASSUME TypeOK, HistoryFinite, [Next]_vars, NEW u \in Tenants, NEW i \in Jobs
             PROVE  IsFiniteSet(runs'[u][i])
  BY DEF HistoryFinite
<1>1. IsFiniteSet(runs[u][i])
  BY DEF HistoryFinite
<1>2. CASE UNCHANGED runs
  BY <1>1, <1>2
<1>3. CASE Boot
  <2>1. runs'[u][i] = Interrupted(runs[u][i])
    BY <1>3 DEF Boot, ClearStaleRunning
  <2> QED BY <1>1, <2>1, InterruptedFinite
<1>4. ASSUME NEW t \in Tenants, StartRun(t) PROVE IsFiniteSet(runs'[u][i])
  <2> DEFINE j == Head(queue[t]).job
  <2>1. PICK new : runs' = [runs EXCEPT ![t][j] = @ \cup {new}]
    BY <1>4 DEF StartRun
  <2>2. runs'[u][i] = runs[u][i] \/ runs'[u][i] = runs[u][i] \cup {new}
    BY <2>1 DEF TypeOK
  <2>3. IsFiniteSet(runs[u][i] \cup {new})
    BY <1>1, FS_AddElement
  <2> QED BY <1>1, <2>2, <2>3
<1>5. ASSUME NEW t \in Tenants, NEW outcome \in Outcomes,
             FinishRun(t, outcome) \/ FinishRunFails(t, outcome)
      PROVE  IsFiniteSet(runs'[u][i])
  <2> DEFINE j == exec[t].call.job
  <2>1. PICK written : written = WithStatus(runs[t][j], exec[t].id, RunStatusOf(outcome))
    OBVIOUS
  <2>2. PICK kept : /\ kept \in Pruned(written) \/ kept = written
                    /\ runs' = runs \/ runs' = [runs EXCEPT ![t][j] = kept]
    BY <1>5, <2>1 DEF FinishRun, FinishRunFails
  <2>3. j \in Jobs
    BY <1>5, OutcomeTypes DEF FinishRun, FinishRunFails
  <2> HIDE DEF j
  <2>4. IsFiniteSet(runs[t][j])
    BY <2>3 DEF HistoryFinite
  <2>5. IsFiniteSet(kept)
    BY <2>1, <2>2, <2>4, WithStatusFinite
  <2>6. runs'[u][i] = runs[u][i] \/ runs'[u][i] = kept
    <3>1. CASE runs' = runs
      BY <3>1
    <3>2. CASE runs' = [runs EXCEPT ![t][j] = kept]
      BY <2>3, <3>2 DEF TypeOK
    <3> QED BY <2>2, <3>1, <3>2
  <2> QED BY <1>1, <2>5, <2>6
<1> QED
  BY <1>2, <1>3, <1>4, <1>5
     DEF Next, ClockTick, StartRunFails, ZombieEnds, Refresh, Reset, Shutdown, Exit, Crash,
         MemoryIsLost, vars

\* With a database that answers, a run that settles leaves at most Keep rows.
LEMMA NextHistory ==
  TypeOK /\ HistoryFinite /\ ~DbMayFail /\ [Next]_vars => HistoryIsBounded
<1> SUFFICES ASSUME TypeOK, HistoryFinite, ~DbMayFail, [Next]_vars, NEW u \in Tenants,
                    Busy(u), exec'[u] = NoRun, phase' # "down"
             PROVE  Cardinality(runs'[u][exec[u].call.job]) <= Keep
  BY DEF HistoryIsBounded
<1>1. CASE UNCHANGED exec
  BY <1>1 DEF Busy
<1>2. ASSUME NEW t \in Tenants, StartRun(t) PROVE FALSE
  <2>1. PICK run : ~Busy(t) /\ exec' = [exec EXCEPT ![t] = run]
    BY <1>2 DEF StartRun
  <2> QED BY <2>1 DEF Busy, TypeOK
<1>3. ASSUME NEW t \in Tenants, NEW outcome \in Outcomes, FinishRun(t, outcome)
      PROVE  Cardinality(runs'[u][exec[u].call.job]) <= Keep
  <2> DEFINE j == exec[t].call.job
             written == WithStatus(runs[t][j], exec[t].id, RunStatusOf(outcome))
  <2>1. u = t
    BY <1>3 DEF FinishRun, TypeOK, Busy
  <2>2. PICK kept \in Pruned(written) : runs' = [runs EXCEPT ![t][j] = kept]
    BY <1>3 DEF FinishRun
  <2>3. j \in Jobs
    BY <1>3, OutcomeTypes DEF FinishRun
  <2>4. Cardinality(kept) <= Keep
    BY <2>3, WithStatusFinite DEF HistoryFinite
  <2> HIDE DEF j, written
  <2>5. runs'[t][j] = kept
    BY <2>2, <2>3 DEF TypeOK
  <2> QED BY <2>1, <2>4, <2>5 DEF j
<1>4. CASE MemoryIsLost
  BY <1>4 DEF MemoryIsLost
<1> QED
  BY <1>1, <1>2, <1>3, <1>4
     DEF Next, Boot, ClockTick, StartRunFails, FinishRunFails, ZombieEnds, Refresh, Reset,
         Shutdown, Exit, Crash, vars

(***************************************************************************)
(* The ages of a line. A row's lastRunAt may go back: a ticker's call is   *)
(* as old as its pass, and may run behind a refresh accepted after that    *)
(* pass began. A refresh's call is never older than what ran or waits      *)
(* before it, so a job once settled for the pass stays settled: it is not  *)
(* due at the pass's instant, or a refresh accepted later has run it.      *)
(***************************************************************************)
Young(q, rows, n) ==
  /\ \A j \in Jobs : rows[j].lastRunAt <= q[n].at
  /\ \A k \in 1 .. Len(q) : k < n => q[k].at <= q[n].at

Aged(e, q, rows, now) ==
  /\ \A j \in Jobs : rows[j].lastRunAt <= now
  /\ \A n \in 1 .. Len(q) : q[n].at <= now
  /\ e # NoRun => rows[e.call.job].lastRunAt = e.call.at
  /\ \A n \in 1 .. Len(q) : ~IsTick(q[n]) => Young(q, rows, n)

LinesAged == \A t \in Tenants : Aged(exec[t], queue[t], row[t], clock)

LEMMA CallTimes ==
  ASSUME NEW q \in Seq(Call)
  PROVE  \A n \in 1 .. Len(q) : q[n].at \in Int
<1>1. \A n \in 1 .. Len(q) : q[n] \in Call
  BY ElementOfSeq
<1> QED BY <1>1 DEF Call, Times, Never

LEMMA RowTimes ==
  ASSUME NEW rows \in [Jobs -> JobRow]
  PROVE  \A j \in Jobs : rows[j].lastRunAt \in Int
BY DEF JobRow, Times, Never

\* The front starts: its row takes its instant.
LEMMA AgedStart ==
  ASSUME NEW q \in Seq(Call), q # <<>>, NEW now, NEW id,
         NEW rows \in [Jobs -> JobRow], Aged(NoRun, q, rows, now)
  PROVE  LET call == Head(q)
         IN  Aged([call |-> call, id |-> id], Tail(q),
                  [rows EXCEPT ![call.job] = MarkedRunning(@, call)], now)
<1> DEFINE call == Head(q)
           after == [rows EXCEPT ![call.job] = MarkedRunning(@, call)]
<1>1. /\ call = q[1] /\ Len(q) \in Nat /\ Len(q) # 0
      /\ Len(Tail(q)) = Len(q) - 1
      /\ \A n \in 1 .. Len(Tail(q)) : Tail(q)[n] = q[n + 1]
  BY HeadTailProperties, EmptySeq, LenProperties
<1>2. 1 \in 1 .. Len(q) /\ \A n \in 1 .. Len(Tail(q)) : n + 1 \in 1 .. Len(q) /\ 1 < n + 1
  BY <1>1
<1>3. call \in Call /\ call.job \in Jobs
  <2>1. q[1] \in Call
    BY <1>2, ElementOfSeq
  <2> QED BY <1>1, <2>1 DEF Call
<1>4. \A j \in Jobs : after[j].lastRunAt = IF j = call.job THEN call.at ELSE rows[j].lastRunAt
  <2> TAKE j \in Jobs
  <2>1. MarkedRunning(rows[call.job], call).lastRunAt = call.at
    BY <1>3 DEF MarkedRunning, JobRow
  <2> HIDE DEF call
  <2> QED BY <1>3, <2>1
<1> HIDE DEF after
<1>5. \A j \in Jobs : after[j].lastRunAt <= now
  BY <1>1, <1>2, <1>4 DEF Aged
<1>6. \A n \in 1 .. Len(Tail(q)) : Tail(q)[n].at <= now
  BY <1>1, <1>2 DEF Aged
<1>7. after[call.job].lastRunAt = call.at
  BY <1>3, <1>4
<1>8. ASSUME NEW n \in 1 .. Len(Tail(q)), ~IsTick(Tail(q)[n])
      PROVE  Young(Tail(q), after, n)
  <2>1. Tail(q)[n] = q[n + 1] /\ n + 1 \in 1 .. Len(q) /\ 1 < n + 1
    BY <1>1, <1>2
  <2>2. Young(q, rows, n + 1)
    BY <1>8, <2>1 DEF Aged
  <2>3. call.at <= q[n + 1].at
    BY <1>1, <1>2, <2>1, <2>2 DEF Young
  <2>4. \A j \in Jobs : after[j].lastRunAt <= q[n + 1].at
    BY <1>4, <2>2, <2>3 DEF Young
  <2>5. ASSUME NEW k \in 1 .. Len(Tail(q)), k < n PROVE Tail(q)[k].at <= Tail(q)[n].at
    <3>1. Tail(q)[k] = q[k + 1] /\ k + 1 \in 1 .. Len(q) /\ k + 1 < n + 1
      BY <1>1, <1>2, <2>5
    <3> QED BY <2>1, <2>2, <3>1 DEF Young
  <2> QED BY <2>1, <2>4, <2>5 DEF Young
<1> QED BY <1>5, <1>6, <1>7, <1>8 DEF Aged, after

\* Calls made now go behind a line, or one of the ticker's, which may be older.
LEMMA AgedAppend ==
  ASSUME NEW e, NEW q \in Seq(Call), NEW calls \in Seq(Call), NEW now \in Nat,
         NEW rows \in [Jobs -> JobRow], Aged(e, q, rows, now),
         \A n \in 1 .. Len(calls) : /\ calls[n].at <= now
                                    /\ IsTick(calls[n]) \/ calls[n].at = now
  PROVE  Aged(e, q \o calls, rows, now)
<1> DEFINE line == q \o calls
<1>1. /\ Len(line) = Len(q) + Len(calls) /\ Len(q) \in Nat /\ Len(calls) \in Nat
      /\ \A n \in 1 .. Len(q) : line[n] = q[n]
      /\ \A n \in 1 .. Len(calls) : line[Len(q) + n] = calls[n]
  BY ConcatProperties, LenProperties
<1> HIDE DEF line
<1>2. ASSUME NEW n \in 1 .. Len(line), n \notin 1 .. Len(q)
      PROVE  n - Len(q) \in 1 .. Len(calls) /\ line[n] = calls[n - Len(q)]
  <2>1. n - Len(q) \in 1 .. Len(calls) /\ Len(q) + (n - Len(q)) = n
    BY <1>1, <1>2
  <2> QED BY <1>1, <2>1
<1>3. ASSUME NEW n \in 1 .. Len(line) PROVE line[n].at <= now
  <2>1. CASE n \in 1 .. Len(q)
    BY <1>1, <2>1 DEF Aged
  <2>2. CASE n \notin 1 .. Len(q)
    BY <1>2, <2>2
  <2> QED BY <2>1, <2>2
<1>4. ASSUME NEW n \in 1 .. Len(line), ~IsTick(line[n]) PROVE Young(line, rows, n)
  <2>1. CASE n \in 1 .. Len(q)
    <3>1. Young(q, rows, n) /\ line[n] = q[n]
      BY <1>1, <1>4, <2>1 DEF Aged
    <3>2. ASSUME NEW k \in 1 .. Len(line), k < n PROVE line[k].at <= line[n].at
      <4>1. k \in 1 .. Len(q)
        BY <1>1, <2>1, <3>2
      <4> QED BY <1>1, <3>1, <3>2, <4>1 DEF Young
    <3> QED BY <3>1, <3>2 DEF Young
  <2>2. CASE n \notin 1 .. Len(q)
    <3>1. line[n].at = now
      BY <1>2, <1>4, <2>2
    <3> QED BY <1>3, <3>1 DEF Young, Aged
  <2> QED BY <2>1, <2>2
<1> QED BY <1>3, <1>4 DEF Aged, line

\* Ages depend on the instants of the rows only, and time may go by.
LEMMA AgedLater ==
  ASSUME NEW e, NEW q \in Seq(Call), NEW now \in Nat, NEW next \in Nat, now <= next,
         NEW rows \in [Jobs -> JobRow], NEW after \in [Jobs -> JobRow],
         \A j \in Jobs : after[j].lastRunAt = rows[j].lastRunAt,
         e # NoRun => e.call.job \in Jobs,
         Aged(e, q, rows, now)
  PROVE  Aged(e, q, after, next)
<1>1. /\ \A n \in 1 .. Len(q) : q[n].at \in Int
      /\ \A j \in Jobs : rows[j].lastRunAt \in Int
  BY CallTimes, RowTimes
<1>2. \A j \in Jobs : after[j].lastRunAt <= next
  BY <1>1 DEF Aged
<1>3. \A n \in 1 .. Len(q) : q[n].at <= next
  BY <1>1 DEF Aged
<1>4. \A n \in 1 .. Len(q) : ~IsTick(q[n]) => Young(q, after, n)
  BY DEF Aged, Young
<1> QED BY <1>2, <1>3, <1>4 DEF Aged

LEMMA AgedWalk ==
  ASSUME TypeOK, NEW held, NEW rows, NEW k, NEW i, NEW seen, NEW now \in Nat,
         NEW top \in Nat, now <= top,
         WalkFrom(held, rows, k, i, seen, now), NEW u \in Tenants,
         NEW e, NEW r \in [Jobs -> JobRow], Aged(e, queue[u], r, top)
  PROVE  Aged(e, queue'[u], r, top)
<1>1. CASE queue'[u] = queue[u]
  BY <1>1
<1>2. ASSUME NEW call \in Call, IsTick(call), call.at = now, queue'[u] = queue[u] \o <<call>>
      PROVE  Aged(e, queue'[u], r, top)
  <2>1. queue[u] \in Seq(Call) /\ <<call>> \in Seq(Call)
    BY DEF TypeOK
  <2>2. \A n \in 1 .. Len(<<call>>) : <<call>>[n].at <= top /\ IsTick(<<call>>[n])
    BY <1>2
  <2>3. Aged(e, queue[u] \o <<call>>, r, top)
    BY <2>1, <2>2, AgedAppend
  <2> QED BY <1>2, <2>3
<1> QED BY <1>1, <1>2, WalkAppends, ZenonT(40)

\* A settled run writes the instant its start wrote: no row's time moves.
LEMMA RecordedTimes ==
  ASSUME TypeOK, NEW t \in Tenants, NEW outcome \in Outcomes, FinishRun(t, outcome),
         row[t][exec[t].call.job].lastRunAt = exec[t].call.at
  PROVE  \A u \in Tenants, i \in Jobs : row'[u][i].lastRunAt = row[u][i].lastRunAt
<1> DEFINE j == exec[t].call.job
<1>1. j \in Jobs
  BY OutcomeTypes DEF FinishRun
<1>2. row' = [row EXCEPT ![t][j] = Recorded(@, exec[t].call, outcome)]
  BY DEF FinishRun
<1>3. \A r : Recorded(r, exec[t].call, outcome).lastRunAt = exec[t].call.at
  BY DEF Recorded
<1> HIDE DEF j
<1>4. row'[t][j].lastRunAt = exec[t].call.at
  BY <1>1, <1>2, <1>3 DEF TypeOK
<1>5. \A u \in Tenants, i \in Jobs : ~(u = t /\ i = j) => row'[u][i] = row[u][i]
  BY <1>1, <1>2 DEF TypeOK
<1> QED BY <1>4, <1>5 DEF j

PassIsPast == pass.on => pass.now <= clock

LEMMA NextAged ==
  ASSUME ~DbMayFail
  PROVE  TypeInv /\ PassIsPast /\ LinesAged /\ [Next]_vars => LinesAged'
<1> SUFFICES ASSUME TypeOK, TypeOK', RunningTickIsAwaited, PassIsPast, LinesAged, [Next]_vars,
                    NEW u \in Tenants
             PROVE  Aged(exec'[u], queue'[u], row'[u], clock')
  BY NextTypes DEF TypeInv, PassInv, LinesAged
<1>1. /\ exec[u] \in Run \cup {NoRun} /\ queue[u] \in Seq(Call)
      /\ clock \in Nat /\ clock <= clock
      /\ row[u] \in [Jobs -> JobRow] /\ row'[u] \in [Jobs -> JobRow]
      /\ Aged(exec[u], queue[u], row[u], clock)
  BY DEF TypeOK, LinesAged
<1>2. exec[u] # NoRun => exec[u].call.job \in Jobs
  BY <1>1 DEF Run, Call
<1>3. CASE Boot
  <2>1. \A j \in Jobs : row'[u][j].lastRunAt = row[u][j].lastRunAt
    <3> TAKE j \in Jobs
    <3>1. row'[u][j] = ClearedRow(row[u][j]) /\ row[u][j] \in JobRow
      BY <1>1, <1>3 DEF Boot, ClearStaleRunning
    <3> QED BY <3>1 DEF ClearedRow, JobRow
  <2>2. Aged(exec[u], queue[u], row'[u], clock)
    BY <1>1, <1>2, <2>1, AgedLater, ZenonT(40)
  <2>3. UNCHANGED <<exec, clock>> /\ WalkFrom(inFlight, row', 1, 0, SeenIn(row', 1), clock)
    BY <1>3 DEF Boot, Tick
  <2>4. Aged(exec[u], queue'[u], row'[u], clock)
    BY <1>1, <2>2, <2>3, AgedWalk
  <2> QED BY <2>3, <2>4
<1>4. CASE ClockTick
  <2>1. clock' = clock + 1 /\ UNCHANGED <<exec, row>>
    BY <1>4 DEF ClockTick
  <2>2. clock + 1 \in Nat /\ clock <= clock + 1 /\ clock + 1 <= clock + 1
    BY <1>1
  <2>3. Aged(exec[u], queue[u], row[u], clock + 1)
    BY <1>1, <1>2, <2>2, AgedLater
  <2>4. CASE CanTick
    <3>1. WalkFrom(inFlight, row, 1, 0, SeenIn(row, 1), clock + 1)
      BY <1>4, <2>4 DEF ClockTick, Tick
    <3>2. Aged(exec[u], queue'[u], row[u], clock + 1)
      BY <1>1, <2>2, <2>3, <3>1, AgedWalk
    <3> QED BY <2>1, <3>2
  <2>5. CASE ~CanTick
    BY <1>4, <2>1, <2>3, <2>5 DEF ClockTick
  <2> QED BY <2>4, <2>5
<1>5. ASSUME NEW t \in Tenants, StartRun(t)
      PROVE  Aged(exec'[u], queue'[u], row'[u], clock')
  <2> DEFINE call == Head(queue[t])
  <2>1. /\ ~Busy(t) /\ queue[t] # <<>> /\ queue' = [queue EXCEPT ![t] = Tail(@)]
        /\ row' = [row EXCEPT ![t][call.job] = MarkedRunning(@, call)]
        /\ clock' = clock
    BY <1>5 DEF StartRun, Behind
  <2>2. PICK id : exec' = [exec EXCEPT ![t] = [call |-> call, id |-> id]]
    BY <1>5 DEF StartRun
  <2>3. CASE u = t
    <3>1. Aged(NoRun, queue[t], row[t], clock)
      BY <1>1, <2>1, <2>3 DEF Busy
    <3>2. Aged([call |-> call, id |-> id], Tail(queue[t]),
               [row[t] EXCEPT ![call.job] = MarkedRunning(@, call)], clock)
      BY <1>1, <2>1, <2>3, <3>1, AgedStart
    <3> HIDE DEF call
    <3>3. /\ exec'[t] = [call |-> call, id |-> id] /\ queue'[t] = Tail(queue[t])
          /\ row'[t] = [row[t] EXCEPT ![call.job] = MarkedRunning(@, call)]
      BY <2>1, <2>2 DEF TypeOK
    <3> QED BY <2>1, <2>3, <3>2, <3>3
  <2>4. CASE u # t
    <3> HIDE DEF call
    <3>1. exec'[u] = exec[u] /\ queue'[u] = queue[u] /\ row'[u] = row[u]
      BY <2>1, <2>2, <2>4 DEF TypeOK
    <3> QED BY <1>1, <2>1, <3>1
  <2> QED BY <2>3, <2>4
<1>6. ASSUME NEW t \in Tenants, NEW outcome \in Outcomes, FinishRun(t, outcome)
      PROVE  Aged(exec'[u], queue'[u], row'[u], clock')
  <2>1. Busy(t) /\ exec' = [exec EXCEPT ![t] = NoRun] /\ clock' = clock
    BY <1>6 DEF FinishRun
  <2>2. Aged(exec[t], queue[t], row[t], clock)
    BY DEF LinesAged
  <2>3. \A j \in Jobs : row'[u][j].lastRunAt = row[u][j].lastRunAt
    <3>1. row[t][exec[t].call.job].lastRunAt = exec[t].call.at
      BY <2>1, <2>2 DEF Aged, Busy
    <3> QED BY <1>6, <3>1, RecordedTimes
  <2>4. Aged(exec[u], queue[u], row'[u], clock) /\ Aged(NoRun, queue[u], row'[u], clock)
    <3>1. Aged(exec[u], queue[u], row'[u], clock)
      BY <1>1, <1>2, <2>3, AgedLater, ZenonT(40)
    <3>2. Aged(NoRun, queue[u], row'[u], clock)
      BY <3>1 DEF Aged
    <3> QED BY <3>1, <3>2
  <2>5. exec'[u] = exec[u] \/ exec'[u] = NoRun
    BY <2>1 DEF TypeOK
  <2>6. Aged(exec'[u], queue[u], row'[u], clock)
    BY <2>4, <2>5
  <2>7. CASE exec[t].call.chain = TickChain
    <3>1. pass.on
      BY <2>1, <2>7 DEF RunningTickIsAwaited, RunsTick, IsTick, Awaited
    <3>2. pass.now \in Nat /\ pass.now <= clock
      <4>1. pass \in Pass
        BY <3>1 DEF TypeOK, NoPass
      <4> QED BY <3>1, <4>1 DEF Pass, PassIsPast
    <3>3. WalkFrom(Released(t), row', pass.tenant, pass.job, pass.seen, pass.now)
      BY <1>6, <2>7 DEF FinishRun
    <3>4. Aged(exec'[u], queue'[u], row'[u], clock)
      BY <1>1, <2>6, <3>2, <3>3, AgedWalk
    <3> QED BY <2>1, <3>4
  <2>8. CASE exec[t].call.chain # TickChain
    BY <1>6, <2>1, <2>6, <2>8 DEF FinishRun
  <2> QED BY <2>7, <2>8
<1>7. ASSUME NEW t \in Tenants, NEW asked \in SUBSET Jobs, StartRefresh(t, asked),
             UNCHANGED <<exec, row, clock>>
      PROVE  Aged(exec'[u], queue'[u], row'[u], clock')
  <2>1. CASE u = t
    <3>1. PICK calls \in Seq(Call) :
            /\ queue'[t] = queue[t] \o calls
            /\ \A n \in 1 .. Len(calls) : calls[n].chain = refreshes' /\ calls[n].at = clock
      BY <1>7, RefreshAppends
    <3>2. \A n \in 1 .. Len(calls) : calls[n].at <= clock /\ calls[n].at = clock
      BY <1>1, <3>1
    <3>3. Aged(exec[u], queue[u] \o calls, row[u], clock)
      BY <1>1, <3>2, AgedAppend
    <3> QED BY <1>7, <2>1, <3>1, <3>3
  <2>2. CASE u # t
    <3>1. queue'[u] = queue[u]
      BY <1>7, <2>2, RefreshAppends
    <3> QED BY <1>1, <1>7, <3>1
  <2> QED BY <2>1, <2>2
<1>8. ASSUME NEW t \in Tenants, NEW asked \in Requests, Refresh(t, asked)
      PROVE  Aged(exec'[u], queue'[u], row'[u], clock')
  BY <1>7, <1>8, JobAssumption DEF Refresh
<1>9. ASSUME NEW t \in Tenants, Reset(t) PROVE Aged(exec'[u], queue'[u], row'[u], clock')
  BY <1>7, <1>9, JobAssumption DEF Reset
<1>10. CASE MemoryIsLost
  <2>1. exec'[u] = NoRun /\ queue'[u] = <<>> /\ UNCHANGED <<row, clock>>
    BY <1>10 DEF MemoryIsLost
  <2> QED BY <1>1, <2>1 DEF Aged
<1>11. CASE UNCHANGED <<queue, exec, row, clock>>
  BY <1>1, <1>11
<1> QED
  BY <1>3, <1>4, <1>5, <1>6, <1>8, <1>9, <1>10, <1>11
     DEF Next, StartRunFails, FinishRunFails, ZombieEnds, Shutdown, Exit, Crash, vars

(***************************************************************************)
(* A pass settles what is due. What it has walked past is settled for its  *)
(* instant and stays so; of the tenant it is in, what it read as settled   *)
(* still is, though it decides on what it read and not on the rows.        *)
(***************************************************************************)
Positions == TenantIndex \X JobIndex
Settled(rows, p, now) ==
  SettledFor(Registry[p[2]], now, rows[TenantOrder[p[1]]][Registry[p[2]]].lastRunAt)

Walked(rows, k, i, now) ==
  \A p \in Positions : p[1] < k \/ (p[1] = k /\ p[2] < i) => Settled(rows, p, now)
ReadIsBelieved(rows, k, seen, now) ==
  \A j \in Jobs : ~Due(j, now, seen[j]) => SettledFor(j, now, rows[TenantOrder[k]][j].lastRunAt)

PassHolds ==
  pass.on => /\ Walked(row, pass.tenant, pass.job, pass.now)
             /\ ReadIsBelieved(row, pass.tenant, pass.seen, pass.now)

\* Under every kind of schedule a job that is not due at an instant is not due
\* there when it last ran later than it did, up to that instant.
LEMMA NotDueAgain ==
  ASSUME NEW j \in Jobs, NEW now \in 0 .. MaxClock, NEW last \in 0 .. MaxClock,
         NEW at \in 0 .. MaxClock, last <= at, at <= now, ~Due(j, now, last)
  PROVE  ~Due(j, now, at)
<1>1. Schedule[j] \in Schedules
  BY ScheduleAssumption
<1>2. /\ Local[now] \in LocalTime /\ Local[last] \in LocalTime /\ Local[at] \in LocalTime
      /\ \/ Local[last].month < Local[at].month
         \/ Local[last].month = Local[at].month /\ Local[last].day <= Local[at].day
      /\ \/ Local[at].month < Local[now].month
         \/ Local[at].month = Local[now].month /\ Local[at].day <= Local[now].day
  BY LocalAssumption
<1>3. at # Never /\ last # Never
  BY DEF Never
<1>4. CASE Schedule[j].kind = "interval"
  <2>1. Schedule[j].period \in Nat
    BY <1>1, <1>4 DEF Schedules
  <2>2. now - last < Schedule[j].period
    BY <1>3, <1>4, <2>1 DEF Due
  <2>3. ~(now - at >= Schedule[j].period)
    BY <2>1, <2>2, LocalAssumption
  <2> QED BY <1>3, <1>4, <2>3 DEF Due
<1>5. CASE Schedule[j].kind = "daily"
  <2>1. SameDate(Local[last], Local[now]) \/ ~(Local[now].hour >= Schedule[j].hour)
    BY <1>3, <1>5 DEF Due
  <2>2. SameDate(Local[last], Local[now]) => SameDate(Local[at], Local[now])
    BY <1>2 DEF SameDate, LocalTime
  <2> QED BY <1>3, <1>5, <2>1, <2>2 DEF Due
<1>6. CASE Schedule[j].kind = "monthly"
  <2> DEFINE s == Schedule[j]
  <2>1. DueDay(s, Local[now]) \in Int
    BY <1>1, <1>2, <1>6 DEF Schedules, LocalTime, DueDay
  <2>2. RanThisCycle(s, Local[now], Local[last]) => RanThisCycle(s, Local[now], Local[at])
    BY <1>2, <2>1 DEF RanThisCycle, LocalTime
  <2> QED BY <1>3, <1>6, <2>2 DEF Due
<1> QED BY <1>1, <1>4, <1>5, <1>6 DEF Schedules

\* A job that last ran at an instant is not due there.
LEMMA NotDueAtOnce ==
  ASSUME NEW j \in Jobs, NEW now \in 0 .. MaxClock
  PROVE  ~Due(j, now, now)
<1>1. Schedule[j] \in Schedules /\ now # Never /\ now - now = 0
  BY ScheduleAssumption, LocalAssumption DEF Never
<1>2. CASE Schedule[j].kind = "interval"
  <2>1. Schedule[j].period \in Nat \ {0}
    BY <1>1, <1>2 DEF Schedules
  <2>2. ~(now - now >= Schedule[j].period)
    BY <1>1, <2>1
  <2> QED BY <1>1, <1>2, <2>2 DEF Due
<1>3. CASE Schedule[j].kind = "daily"
  BY <1>1, <1>3 DEF Due, SameDate
<1>4. CASE Schedule[j].kind = "monthly"
  BY <1>1, <1>4 DEF Due, RanThisCycle
<1> QED BY <1>1, <1>2, <1>3, <1>4 DEF Schedules

\* Walking on from what is settled ends with all settled, or at the next due.
LEMMA WalkSettles ==
  ASSUME NEW held, NEW rows, NEW k \in Int, NEW i \in Int, NEW seen, NEW now,
         WalkFrom(held, rows, k, i, seen, now),
         \A p \in Positions : Before(p, <<k, i>>) => Settled(rows, p, now),
         ReadIsBelieved(rows, k, seen, now)
  PROVE  \/ /\ pass' = NoPass
            /\ \A p \in Positions : Settled(rows, p, now)
         \/ /\ pass'.on
            /\ pass'.now = now
            /\ Walked(rows, pass'.tenant, pass'.job, now)
            /\ ReadIsBelieved(rows, pass'.tenant, pass'.seen, now)
<1> DEFINE due == DueAfter(rows, k, i, seen, now)
<1>1. ASSUME NEW p \in Positions, p \notin due PROVE Settled(rows, p, now)
  <2>1. p[1] \in TenantIndex /\ p[2] \in JobIndex /\ p[1] \in Int /\ p[2] \in Int
        /\ Registry[p[2]] \in Jobs
    BY OrderTypes DEF Positions, TenantIndex, JobIndex
  <2>2. CASE Before(p, <<k, i>>)
    BY <2>2
  <2>3. CASE ~Before(p, <<k, i>>)
    <3>1. p[1] > k \/ (p[1] = k /\ p[2] > i)
      BY <2>1, <2>3 DEF Before
    <3>2. ~Due(Registry[p[2]], now, IF p[1] = k THEN seen[Registry[p[2]]]
                    ELSE rows[TenantOrder[p[1]]][Registry[p[2]]].lastRunAt)
      BY <1>1, <3>1 DEF DueAfter, Positions
    <3>3. CASE p[1] = k
      BY <2>1, <3>2, <3>3 DEF ReadIsBelieved, Settled
    <3>4. CASE p[1] # k
      BY <3>2, <3>4 DEF Settled, SettledFor
    <3> QED BY <3>3, <3>4
  <2> QED BY <2>2, <2>3
<1>2. CASE due = {} /\ pass' = NoPass
  BY <1>1, <1>2
<1>3. ASSUME NEW p \in due, \A q \in due : Before(p, q),
             pass' = [on |-> TRUE, now |-> now, tenant |-> p[1], job |-> p[2],
                      seen |-> IF p[1] = k THEN seen ELSE SeenIn(rows, p[1])]
      PROVE  /\ pass'.on
             /\ pass'.now = now
             /\ Walked(rows, pass'.tenant, pass'.job, now)
             /\ ReadIsBelieved(rows, pass'.tenant, pass'.seen, now)
  <2>1. p[1] \in Int /\ p[2] \in Int
    BY DEF DueAfter, TenantIndex, JobIndex
  <2>2. ASSUME NEW q \in Positions, q[1] < p[1] \/ (q[1] = p[1] /\ q[2] < p[2])
        PROVE  Settled(rows, q, now)
    <3>1. q[1] \in Int /\ q[2] \in Int
      BY DEF Positions, TenantIndex, JobIndex
    <3>2. ~Before(p, q)
      BY <2>1, <2>2, <3>1 DEF Before
    <3>3. q \notin due
      BY <1>3, <3>2
    <3> QED BY <1>1, <3>3
  <2>3. ReadIsBelieved(rows, p[1], IF p[1] = k THEN seen ELSE SeenIn(rows, p[1]), now)
    <3>1. CASE p[1] = k
      BY <3>1
    <3>2. CASE p[1] # k
      BY <3>2 DEF ReadIsBelieved, SeenIn, SettledFor
    <3> QED BY <3>1, <3>2
  <2>4. /\ pass'.on /\ pass'.now = now /\ pass'.tenant = p[1] /\ pass'.job = p[2]
        /\ pass'.seen = IF p[1] = k THEN seen ELSE SeenIn(rows, p[1])
    BY <1>3
  <2>5. Walked(rows, p[1], p[2], now)
    BY <2>2 DEF Walked
  <2> QED BY <2>3, <2>4, <2>5
<1> QED BY <1>1, <1>2, <1>3 DEF WalkFrom

\* The first walk of a pass starts before every position, with fresh rows.
LEMMA TickSettles ==
  ASSUME NEW rows, NEW now, Tick(rows, now)
  PROVE  pass'.on => /\ pass'.now = now
                     /\ Walked(rows, pass'.tenant, pass'.job, now)
                     /\ ReadIsBelieved(rows, pass'.tenant, pass'.seen, now)
<1>1. \A p \in Positions : ~Before(p, <<1, 0>>)
  BY DEF Positions, TenantIndex, JobIndex, Before
<1>2. ReadIsBelieved(rows, 1, SeenIn(rows, 1), now)
  BY DEF ReadIsBelieved, SeenIn, SettledFor
<1>3. WalkFrom(inFlight, rows, 1, 0, SeenIn(rows, 1), now)
  BY DEF Tick
<1>4. 1 \in Int /\ 0 \in Int
  OBVIOUS
<1> QED BY <1>1, <1>2, <1>3, <1>4, WalkSettles DEF NoPass

\* Instants stay within the clock's bound, where the local time is known.
InTime == clock <= MaxClock /\ PassIsPast

LEMMA PassInTime ==
  ASSUME TypeOK, InTime, pass.on
  PROVE  pass.now \in 0 .. MaxClock
<1>1. pass \in Pass
  BY DEF TypeOK, NoPass
<1>2. pass.now \in Nat /\ pass.now <= clock /\ clock \in Nat /\ clock <= MaxClock
  BY <1>1 DEF Pass, InTime, PassIsPast, TypeOK
<1> QED BY <1>2, LocalAssumption

\* A start unsettles no job for the pass that is on: it writes the pass's own
\* instant, or one that is not older than what it replaces.
LEMMA StartKeepsSettled ==
  ASSUME TypeOK, WaitingTickIsAwaited, LinesAged, InTime, pass.on,
         NEW t \in Tenants, StartRun(t),
         NEW u \in Tenants, NEW j \in Jobs, SettledFor(j, pass.now, row[u][j].lastRunAt)
  PROVE  SettledFor(j, pass.now, row'[u][j].lastRunAt)
<1> DEFINE call == Head(queue[t])
<1>1. /\ queue[t] # <<>> /\ queue[t] \in Seq(Call) /\ row[t] \in [Jobs -> JobRow]
      /\ row' = [row EXCEPT ![t][call.job] = MarkedRunning(@, call)]
      /\ queue' = [queue EXCEPT ![t] = Tail(@)]
  BY DEF StartRun, Behind, TypeOK
<1>2. call \in Call /\ call.job \in Jobs /\ call.at \in Int
  BY <1>1, HeadTypes DEF Times, Never
<1>3. pass.now \in 0 .. MaxClock
  BY PassInTime
<1>5. 1 \in 1 .. Len(queue[t]) /\ call = queue[t][1]
  BY <1>1, HeadTailProperties, EmptySeq, LenProperties
<1>6. MarkedRunning(row[t][call.job], call).lastRunAt = call.at
  BY <1>1, <1>2 DEF MarkedRunning, JobRow
<1> HIDE DEF call
<1>7. CASE u = t /\ j = call.job
  <2>1. row'[u][j].lastRunAt = call.at
    BY <1>1, <1>2, <1>6, <1>7 DEF TypeOK
  <2>2. CASE IsTick(call)
    <3>1. WaitsTick(t, 1)
      BY <1>5, <2>2 DEF WaitsTick
    <3>2. call.at = pass.now
      BY <1>5, <3>1 DEF WaitingTickIsAwaited, Awaited
    <3> QED BY <1>3, <2>1, <3>2, NotDueAtOnce DEF SettledFor
  <2>3. CASE ~IsTick(call)
    <3>1. Young(queue[t], row[t], 1) /\ call.at <= clock
      BY <1>5, <2>3 DEF LinesAged, Aged
    <3>2. row[t][j].lastRunAt <= call.at
      BY <1>5, <3>1 DEF Young
    <3>3. row[t][j].lastRunAt \in Nat
      <4>1. row[t][j].lastRunAt \in Times
        BY <1>1 DEF JobRow
      <4>2. row[t][j].lastRunAt # Never
        BY <1>3, <1>7 DEF Due, SettledFor, Never
      <4> QED BY <4>1, <4>2 DEF Times
    <3>4. CASE call.at > pass.now
      BY <2>1, <3>4 DEF SettledFor
    <3>5. CASE ~(call.at > pass.now)
      <4>1. call.at <= pass.now /\ row[t][j].lastRunAt <= pass.now
        BY <1>2, <1>3, <3>2, <3>3, <3>5
      <4>2. row[t][j].lastRunAt \in 0 .. MaxClock /\ call.at \in 0 .. MaxClock
        BY <1>2, <1>3, <3>2, <3>3, <4>1, LocalAssumption
      <4>3. ~Due(j, pass.now, row[t][j].lastRunAt)
        BY <1>3, <1>7, <3>3, <4>1 DEF SettledFor
      <4>4. ~Due(j, pass.now, call.at)
        BY <1>3, <3>2, <4>1, <4>2, <4>3, NotDueAgain
      <4> QED BY <2>1, <4>4 DEF SettledFor
    <3> QED BY <3>4, <3>5
  <2> QED BY <2>2, <2>3
<1>8. CASE ~(u = t /\ j = call.job)
  <2>1. row'[u][j] = row[u][j]
    BY <1>1, <1>8 DEF TypeOK
  <2> QED BY <2>1
<1> QED BY <1>7, <1>8

\* What holds of a pass depends on the instants of the rows only.
LEMMA HoldsOfTimes ==
  ASSUME NEW rows, NEW after, NEW k \in TenantIndex, NEW i, NEW seen, NEW now,
         Walked(rows, k, i, now), ReadIsBelieved(rows, k, seen, now),
         \A u \in Tenants, j \in Jobs :
           SettledFor(j, now, rows[u][j].lastRunAt) => SettledFor(j, now, after[u][j].lastRunAt)
  PROVE  Walked(after, k, i, now) /\ ReadIsBelieved(after, k, seen, now)
<1>1. ReadIsBelieved(after, k, seen, now)
  BY OrderTypes DEF ReadIsBelieved
<1>2. ASSUME NEW p \in Positions, Settled(rows, p, now) PROVE Settled(after, p, now)
  <2>1. TenantOrder[p[1]] \in Tenants /\ Registry[p[2]] \in Jobs
    BY OrderTypes DEF Positions
  <2> QED BY <1>2, <2>1 DEF Settled
<1> QED BY <1>1, <1>2 DEF Walked

\* The end of a call of the ticker walks on, or ends the pass with all settled.
LEMMA FinishSettles ==
  ASSUME TypeOK, RunningTickIsAwaited, LinesAged, InTime, PassHolds, pass.on,
         NEW t \in Tenants, NEW outcome \in Outcomes, FinishRun(t, outcome)
  PROVE  /\ PassHolds'
         /\ ~pass'.on => \A p \in Positions : Settled(row', p, pass.now)
<1>1. Busy(t) /\ row[t][exec[t].call.job].lastRunAt = exec[t].call.at
  BY DEF FinishRun, LinesAged, Aged, Busy
<1>2. \A u \in Tenants, j \in Jobs : row'[u][j].lastRunAt = row[u][j].lastRunAt
  BY <1>1, RecordedTimes
<1>3. /\ pass.tenant \in TenantIndex /\ pass.job \in JobIndex /\ pass.now \in Nat
      /\ pass.tenant \in Int /\ pass.job \in Int
  <2>1. pass \in Pass
    BY DEF TypeOK, NoPass
  <2> QED BY <2>1 DEF Pass, TenantIndex, JobIndex
<1>4. /\ Walked(row', pass.tenant, pass.job, pass.now)
      /\ ReadIsBelieved(row', pass.tenant, pass.seen, pass.now)
  BY <1>2, <1>3, HoldsOfTimes DEF PassHolds
<1>5. CASE exec[t].call.chain = TickChain
  <2>1. /\ t = TenantOrder[pass.tenant] /\ exec[t].call.job = Registry[pass.job]
        /\ exec[t].call.at = pass.now
    BY <1>1, <1>5 DEF RunningTickIsAwaited, RunsTick, IsTick, Awaited
  <2>2. ASSUME NEW p \in Positions, Before(p, <<pass.tenant, pass.job>>)
        PROVE  Settled(row', p, pass.now)
    <3>1. p[1] \in Int /\ p[2] \in Int
      BY DEF Positions, TenantIndex, JobIndex
    <3>2. CASE p[1] = pass.tenant /\ p[2] = pass.job
      <4>1. Registry[pass.job] \in Jobs
        BY <1>3, OrderTypes
      <4>2. row'[t][Registry[pass.job]].lastRunAt = pass.now
        BY <1>1, <1>2, <2>1, <4>1
      <4>3. ~Due(Registry[pass.job], pass.now, pass.now)
        BY <4>1, PassInTime, NotDueAtOnce
      <4> QED BY <2>1, <3>2, <4>2, <4>3 DEF Settled, SettledFor
    <3>3. CASE ~(p[1] = pass.tenant /\ p[2] = pass.job)
      <4>1. p[1] < pass.tenant \/ (p[1] = pass.tenant /\ p[2] < pass.job)
        BY <1>3, <2>2, <3>1, <3>3 DEF Before
      <4> QED BY <1>4, <4>1 DEF Walked
    <3> QED BY <3>2, <3>3
  <2>3. WalkFrom(Released(t), row', pass.tenant, pass.job, pass.seen, pass.now)
    BY <1>5 DEF FinishRun
  <2>4. \/ /\ pass' = NoPass
           /\ \A p \in Positions : Settled(row', p, pass.now)
        \/ /\ pass'.on
           /\ pass'.now = pass.now
           /\ Walked(row', pass'.tenant, pass'.job, pass.now)
           /\ ReadIsBelieved(row', pass'.tenant, pass'.seen, pass.now)
    BY <1>3, <1>4, <2>2, <2>3, WalkSettles
  <2> QED BY <2>4 DEF NoPass, PassHolds
<1>6. CASE exec[t].call.chain # TickChain
  <2>1. pass' = pass
    BY <1>6 DEF FinishRun
  <2> QED BY <1>4, <2>1 DEF PassHolds
<1> QED BY <1>5, <1>6

LEMMA NextPassHolds ==
  ASSUME ~DbMayFail
  PROVE  TypeInv /\ InTime /\ LinesAged /\ PassHolds /\ [Next]_vars => PassHolds'
<1> SUFFICES ASSUME TypeOK, RunningTickIsAwaited, WaitingTickIsAwaited, InTime, LinesAged,
                    PassHolds, [Next]_vars, pass'.on
             PROVE  /\ Walked(row', pass'.tenant, pass'.job, pass'.now)
                    /\ ReadIsBelieved(row', pass'.tenant, pass'.seen, pass'.now)
  BY DEF TypeInv, PassInv, PassHolds
<1>1. CASE Boot
  BY <1>1, TickSettles DEF Boot
<1>2. CASE ClockTick
  <2>1. row' = row
    BY <1>2 DEF ClockTick
  <2>2. CASE CanTick
    BY <1>2, <2>1, <2>2, TickSettles DEF ClockTick
  <2>3. CASE ~CanTick
    BY <1>2, <2>1, <2>3 DEF ClockTick, PassHolds
  <2> QED BY <2>2, <2>3
<1>3. ASSUME NEW t \in Tenants, StartRun(t)
      PROVE  /\ Walked(row', pass'.tenant, pass'.job, pass'.now)
             /\ ReadIsBelieved(row', pass'.tenant, pass'.seen, pass'.now)
  <2>1. pass' = pass /\ pass.on
    BY <1>3 DEF StartRun
  <2>2. pass.tenant \in TenantIndex
    <3>1. pass \in Pass
      BY <2>1 DEF TypeOK, NoPass
    <3> QED BY <3>1 DEF Pass
  <2>3. \A u \in Tenants, j \in Jobs :
          SettledFor(j, pass.now, row[u][j].lastRunAt)
            => SettledFor(j, pass.now, row'[u][j].lastRunAt)
    BY <1>3, <2>1, StartKeepsSettled
  <2>4. /\ Walked(row', pass.tenant, pass.job, pass.now)
        /\ ReadIsBelieved(row', pass.tenant, pass.seen, pass.now)
    BY <2>1, <2>2, <2>3, HoldsOfTimes DEF PassHolds
  <2> QED BY <2>1, <2>4
<1>4. ASSUME NEW t \in Tenants, NEW outcome \in Outcomes, FinishRun(t, outcome)
      PROVE  /\ Walked(row', pass'.tenant, pass'.job, pass'.now)
             /\ ReadIsBelieved(row', pass'.tenant, pass'.seen, pass'.now)
  <2>1. pass.on
    <3>1. CASE exec[t].call.chain = TickChain
      BY <1>4, <3>1 DEF FinishRun, RunningTickIsAwaited, RunsTick, IsTick, Awaited
    <3>2. CASE exec[t].call.chain # TickChain
      BY <1>4, <3>2 DEF FinishRun
    <3> QED BY <3>1, <3>2
  <2> QED BY <1>4, <2>1, FinishSettles DEF PassHolds
<1>5. CASE MemoryIsLost
  BY <1>5 DEF MemoryIsLost, NoPass
<1>6. CASE UNCHANGED <<row, pass>>
  BY <1>6 DEF PassHolds
<1> QED
  BY <1>1, <1>2, <1>3, <1>4, <1>5, <1>6
     DEF Next, StartRunFails, FinishRunFails, ZombieEnds, Refresh, Reset, Shutdown, Exit,
         Crash, vars

LEMMA NextIsPast ==
  ASSUME ~DbMayFail
  PROVE  TypeInv /\ PassIsPast /\ [Next]_vars => PassIsPast'
<1> SUFFICES ASSUME TypeOK, RunningTickIsAwaited, PassIsPast, [Next]_vars, pass'.on
             PROVE  pass'.now <= clock'
  BY DEF TypeInv, PassInv, PassIsPast
<1>1. clock \in Nat
  BY DEF TypeOK
<1>2. \A rows, now : Tick(rows, now) => pass'.now = now
  BY TickSettles
<1>3. CASE Boot
  BY <1>1, <1>2, <1>3 DEF Boot
<1>4. CASE ClockTick
  <2>1. clock' = clock + 1
    BY <1>4 DEF ClockTick
  <2>2. CASE CanTick
    <3>1. pass'.now = clock + 1
      BY <1>2, <1>4, <2>2 DEF ClockTick
    <3> QED BY <1>1, <2>1, <3>1
  <2>3. CASE ~CanTick
    <3>1. pass' = pass
      BY <1>4, <2>3 DEF ClockTick
    <3>2. pass \in Pass
      BY <3>1 DEF TypeOK, NoPass
    <3>3. pass.now \in Nat /\ pass.now <= clock
      BY <3>1, <3>2 DEF PassIsPast, Pass
    <3> QED BY <1>1, <2>1, <3>1, <3>3
  <2> QED BY <2>2, <2>3
<1>5. ASSUME NEW t \in Tenants, NEW outcome \in Outcomes, FinishRun(t, outcome)
      PROVE  pass'.now <= clock'
  <2>1. clock' = clock
    BY <1>5 DEF FinishRun
  <2>2. CASE exec[t].call.chain = TickChain
    <3>1. pass.on
      BY <1>5, <2>2 DEF FinishRun, RunningTickIsAwaited, RunsTick, IsTick, Awaited
    <3>2. pass'.now = pass.now
      <4>1. WalkFrom(Released(t), row', pass.tenant, pass.job, pass.seen, pass.now)
        BY <1>5, <2>2 DEF FinishRun
      <4>2. \/ pass' = NoPass
            \/ \E tenant, job, seen :
                 pass' = [on |-> TRUE, now |-> pass.now, tenant |-> tenant, job |-> job,
                          seen |-> seen]
        BY <4>1, Zenon DEF WalkFrom
      <4>3. pass' = NoPass \/ pass'.now = pass.now
        BY <4>2
      <4> QED BY <4>3 DEF NoPass
    <3> QED BY <2>1, <3>1, <3>2 DEF PassIsPast
  <2>3. CASE exec[t].call.chain # TickChain
    BY <1>5, <2>1, <2>3 DEF FinishRun, PassIsPast
  <2> QED BY <2>2, <2>3
<1>6. CASE MemoryIsLost
  BY <1>6 DEF MemoryIsLost, NoPass
<1>7. CASE UNCHANGED <<clock, pass>>
  BY <1>7 DEF PassIsPast
<1> QED
  BY <1>3, <1>4, <1>5, <1>6, <1>7
     DEF Next, StartRun, StartRunFails, FinishRunFails, ZombieEnds, Refresh, Reset, Shutdown,
         Exit, Crash, vars

LEMMA NextInTime ==
  ASSUME ~DbMayFail
  PROVE  TypeInv /\ InTime /\ [Next]_vars => InTime'
<1>1. TypeInv /\ InTime /\ [Next]_vars => PassIsPast'
  BY NextIsPast DEF InTime
<1>2. TypeInv /\ InTime /\ [Next]_vars => clock' <= MaxClock
  <2> SUFFICES ASSUME TypeOK, clock <= MaxClock, [Next]_vars PROVE clock' <= MaxClock
    BY DEF TypeInv, InTime
  <2>1. CASE ClockTick
    BY <2>1, LocalAssumption DEF ClockTick, TypeOK
  <2>2. CASE UNCHANGED clock
    BY <2>2
  <2> QED
    BY <2>1, <2>2
       DEF Next, Boot, StartRun, StartRunFails, FinishRun, FinishRunFails, ZombieEnds, Refresh,
           Reset, Shutdown, Exit, Crash, MemoryIsLost, vars
<1> QED BY <1>1, <1>2 DEF InTime

\* A pass only ends, the process living on, in the walk after its last call.
LEMMA NextSettlesDue ==
  ASSUME ~DbMayFail
  PROVE  TypeInv /\ InTime /\ LinesAged /\ PassHolds /\ [Next]_vars => PassSettlesDue
<1> SUFFICES ASSUME TypeOK, DownIsIdle, RunningTickIsAwaited, InTime, LinesAged, PassHolds,
                    [Next]_vars, pass.on, ~pass'.on, phase' # "down"
             PROVE  \A t \in Tenants, j \in Jobs :
                      SettledFor(j, pass.now, row'[t][j].lastRunAt)
  BY DEF TypeInv, PassInv, PassSettlesDue
<1>1. PICK t \in Tenants : \E outcome \in Outcomes : FinishRun(t, outcome)
  BY DEF Next, Boot, DownIsIdle, ClockTick, CanTick, StartRun, StartRunFails, FinishRunFails,
         ZombieEnds, Refresh, Reset, Shutdown, Exit, Crash, MemoryIsLost, vars
<1>2. \A p \in Positions : Settled(row', p, pass.now)
  BY <1>1, FinishSettles
<1>3. ASSUME NEW u \in Tenants, NEW j \in Jobs
      PROVE  SettledFor(j, pass.now, row'[u][j].lastRunAt)
  <2>1. PICK k \in TenantIndex, i \in JobIndex : u = TenantOrder[k] /\ j = Registry[i]
    BY DEF Tenants, Jobs, TenantIndex, JobIndex
  <2>2. <<k, i>> \in Positions
    BY DEF Positions
  <2> QED BY <1>2, <2>1, <2>2 DEF Settled
<1> QED BY <1>3

\* With a database that answers, a pass that runs to its end skips nobody: no job
\* of any tenant is due at its instant any more, but for those a refresh accepted
\* later has run, whatever refreshes wrote to the rows after it had read them; and
\* a run that settles leaves at most Keep rows of history.
THEOREM EndsSettled == ASSUME ~DbMayFail PROVE Spec => EndsAreSettled
<1> DEFINE Inv == HistoryFinite /\ InTime /\ LinesAged /\ PassHolds
<1>1. Init => Inv
  <2>1. Init => InTime /\ PassHolds
    BY LocalAssumption DEF Init, InTime, PassIsPast, PassHolds, NoPass
  <2>2. Init => LinesAged
    BY DEF Init, LinesAged, Aged, Never
  <2> QED BY <2>1, <2>2, InitFinite
<1>2. TypeInv /\ Inv /\ [Next]_vars => Inv'
  <2>1. TypeInv /\ Inv /\ [Next]_vars => LinesAged'
    BY NextAged DEF InTime
  <2> QED BY <2>1, NextFinite, NextInTime, NextPassHolds DEF TypeInv
<1>3. TypeInv /\ Inv /\ [Next]_vars => PassSettlesDue /\ HistoryIsBounded
  BY NextSettlesDue, NextHistory DEF TypeInv
<1> QED BY <1>1, <1>2, <1>3, TypeInvInvariant, PTL DEF Spec, EndsAreSettled
=============================================================================
