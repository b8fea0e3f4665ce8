---------------------------- MODULE MCJobRunner ----------------------------
(***************************************************************************)
(* Small instances of JobRunner: the part of the registry whose order      *)
(* matters (signals reads what sync writes), for one tenant and for two.   *)
(***************************************************************************)
EXTENDS JobRunner

CONSTANTS a, b

OneTenant == <<a>>
TwoTenant == <<a, b>>

TwoJobs == <<"sync", "signals">>
TwoDependents == [j \in {"sync", "signals"} |-> IF j = "sync" THEN {"signals"} ELSE {}]
\* sync has an interval; signals is due once a day, or on the 31st of a month,
\* that is on the last day of this one.
Scheduled(nightly) == [j \in {"sync", "signals"} |->
                         IF j = "sync" THEN [kind |-> "interval", period |-> 1] ELSE nightly]
NightlySchedules == Scheduled([kind |-> "daily", hour |-> 0])
MonthlySchedules == Scheduled([kind |-> "monthly", day |-> 31, hour |-> 23])

\* The clock goes from the last hour of a day to the first of the next.
OverMidnight(month, length, day) ==
  [n \in 0 .. MaxClock |->
     IF n = 0 THEN [month |-> month, length |-> length, day |-> day, hour |-> 23]
     ELSE IF day < length THEN [month |-> month, length |-> length, day |-> day + 1, hour |-> 0]
     ELSE [month |-> month + 1, length |-> 31, day |-> 1, hour |-> 0]]
MidMonth == OverMidnight(6, 30, 10)
MonthEnd == OverMidnight(6, 30, 30)
TwoRequests == {{"sync"}, {"signals"}}
TwoReset == {"sync", "signals"}
=============================================================================
