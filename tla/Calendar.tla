------------------------------ MODULE Calendar ------------------------------
(***************************************************************************)
(* Dates and months (src/util/month.ts, src/domain/loan/amortization.ts).  *)
(* A date is a day number and a month an index into MonthLengths; every    *)
(* date this project computes with lies inside those months.               *)
(***************************************************************************)
EXTENDS Money, Sequences, FiniteSetsExt

CONSTANTS
  MonthLengths,  \* the days of each month, in order
  FirstWeekday   \* the weekday of date 0; 0 is a Sunday

ASSUME CalendarAssumption ==
  /\ MonthLengths \in Seq(28 .. 31) /\ MonthLengths # <<>>
  /\ FirstWeekday \in 0 .. 6

Months == 1 .. Len(MonthLengths)
StartOfMonth == [m \in Months |-> SumOver(MonthLengths, 1 .. m - 1)]
EndOfMonth(m) == StartOfMonth[m] + MonthLengths[m] - 1
Dates == 0 .. EndOfMonth(Len(MonthLengths))

MonthAt == [d \in Dates |-> CHOOSE m \in Months : StartOfMonth[m] <= d /\ d <= EndOfMonth(m)]
MonthOf(d) == MonthAt[d]
DayOf(d) == d - StartOfMonth[MonthOf(d)] + 1
DateOf(m, day) == StartOfMonth[m] + day - 1
DayOfWeek(d) == (FirstWeekday + d) % 7

\* addMonths of amortization.ts keeps the day, or takes the month's last one.
AddMonths(d, n) ==
  LET m == MonthOf(d) + n IN DateOf(m, Least(DayOf(d), MonthLengths[m]))

MonthsApart(from, to) == MonthOf(to) - MonthOf(from)

\* monthsBetween of amortization.ts counts the months that have fully elapsed.
MonthsBetween(from, to) ==
  MonthsApart(from, to) - (IF DayOf(to) < DayOf(from) THEN 1 ELSE 0)
=============================================================================
