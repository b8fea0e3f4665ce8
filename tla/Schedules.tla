------------------------------ MODULE Schedules ------------------------------
(***************************************************************************)
(* When a job is due (src/jobs/schedule.ts). Instants are hours; the local *)
(* clock is one hour ahead between SummerFrom and SummerTo, so one local   *)
(* day has 23 hours and another has 25.                                    *)
(***************************************************************************)
EXTENDS Calendar, FiniteSetsExt

CONSTANTS
  SummerFrom, SummerTo,  \* the instants at which the local clock changes
  ProbeHorizon           \* PROBE_HORIZON_MS, in hours; a probe steps one hour here

ASSUME SchedulesAssumption ==
  SummerFrom \in Int /\ SummerTo \in Int /\ ProbeHorizon \in Nat

LocalHours(t) == t + (IF SummerFrom <= t /\ t < SummerTo THEN 1 ELSE 0)
DateIn(t) == LocalHours(t) \div 24
HourIn(t) == LocalHours(t) % 24

Never == -1

\* A monthly job's due day, on the months that have it; the last day on the others.
DueDay(s, m) == Least(s.day, MonthLengths[m])

\* A run before the due day leaves the month's slot open.
RanThisMonth(s, last, month) == MonthOf(DateIn(last)) = month
RanThisCycle(s, last, month) ==
  MonthOf(DateIn(last)) = month /\ DayOf(DateIn(last)) >= DueDay(s, month)

IsDue(s, now, last) ==
  \/ last = Never
  \/ s.kind = "interval" /\ now - last >= s.hours
  \/ s.kind = "daily" /\ DateIn(last) # DateIn(now) /\ HourIn(now) >= s.hour
  \/ /\ s.kind = "monthly"
     /\ LET month == MonthOf(DateIn(now))
        IN /\ ~RanThisCycle(s, last, month)
           /\ DayOf(DateIn(now)) >= DueDay(s, month)
           /\ HourIn(now) >= s.hour

\* nextRunAt asks isDue at every step until the horizon, for the operations table.
NextRunAt(s, now, last) ==
  LET due == {t \in now .. now + ProbeHorizon : IsDue(s, t, last)}
  IN IF due = {} THEN Never ELSE Min(due)

(***************************************************************************)
(* A ticker that is up at some instants, and one run by hand               *)
(***************************************************************************)
\* The scheduled runs after last. A run by hand moves lastRunAt like any other.
Runs(s, ticks, byHand, last) ==
  LET after[l \in ticks \cup {byHand, last}] ==
        LET due == {t \in ticks : t > l /\ IsDue(s, t, l)}
        IN IF byHand > l /\ \A t \in due : byHand <= t THEN after[byHand]
           ELSE IF due = {} THEN {} ELSE {Min(due)} \cup after[Min(due)]
  IN after[last]

(***************************************************************************)
(* What a schedule promises                                                *)
(***************************************************************************)
\* A slot is a local day or month, and opens at its due day and hour. Its first tick
\* runs the job, once and late if it must be, unless somebody ran it on the day or
\* after the due day of the month already.
SlotOf(s, t) == IF s.kind = "daily" THEN DateIn(t) ELSE MonthOf(DateIn(t))
InCycle(s, t) == s.kind = "monthly" => DayOf(DateIn(t)) >= DueDay(s, MonthOf(DateIn(t)))
SlotRuns(s, ticks, byHand, slot) ==
  LET open == {t \in ticks : SlotOf(s, t) = slot /\ InCycle(s, t) /\ HourIn(t) >= s.hour}
  IN IF open = {} \/ (SlotOf(s, byHand) = slot /\ InCycle(s, byHand) /\ byHand <= Min(open))
     THEN {} ELSE {Min(open)}

KeepsSlots(s, ticks, byHand, last) ==
  LET slots == {SlotOf(s, t) : t \in ticks} \ {SlotOf(s, last)}
  IN {t \in Runs(s, ticks, byHand, last) : SlotOf(s, t) \in slots}
       = UNION {SlotRuns(s, ticks, byHand, slot) : slot \in slots}

\* A daily job always has a next run within the horizon, on the day of 25 hours too,
\* and it is the next instant the ticker would start it.
NextIsFound(s, last) ==
  LET at == NextRunAt(s, last, last)
  IN /\ at # Never /\ HourIn(at) >= s.hour /\ DateIn(at) = DateIn(last) + 1
     /\ \A t \in last .. at - 1 : ~IsDue(s, t, last)
=============================================================================
