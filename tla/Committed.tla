------------------------------ MODULE Committed ------------------------------
(***************************************************************************)
(* What scheduled payments a month still owes                              *)
(* (src/domain/aggregate/committed.ts): the recurrences of Actual are      *)
(* expanded into dates here, moved off weekends, and split into what has   *)
(* been paid and what is still to come.                                    *)
(* Two payments may fall on one date after a weekend, so an expansion maps *)
(* each occurrence to the date it is paid on.                              *)
(***************************************************************************)
EXTENDS Calendar, FiniteSetsExt

CONSTANT ScanSlack  \* SCAN_SLACK_DAYS

ASSUME CommittedAssumption == ScanSlack \in Nat

\* When a schedule happens: its frequency and interval, the patterns of a monthly one,
\* where weekends are solved, its start, and its end by count or by date. One that
\* happens once has a date, which is not moved.
Frequencies == {"once", "daily", "weekly", "monthly", "yearly"}
DayPattern == 7  \* a pattern's type is this or a weekday
Weekend == {0, 6}

(***************************************************************************)
(* The expansion                                                           *)
(***************************************************************************)
\* A weekday's days in a month, ascending, are counted from either end.
MatchingDays(m, weekday) == {day \in 1 .. MonthLengths[m] : DayOfWeek(DateOf(m, day)) = weekday}

PatternDay(m, p) ==
  LET length == MonthLengths[m]
      matching == MatchingDays(m, p.type)
      index == IF p.value > 0 THEN p.value ELSE Cardinality(matching) + p.value + 1
  IN IF p.type = DayPattern
     THEN {IF p.value < 0 THEN length + p.value + 1 ELSE p.value} \cap 1 .. length
     ELSE {day \in matching : Cardinality({e \in matching : e <= day}) = index}

MonthlyDays(r, m) ==
  IF r.patterns = {} \/ r.frequency = "yearly"
  THEN {DayOf(r.start)} \cap 1 .. MonthLengths[m]
  ELSE UNION {PatternDay(m, p) : p \in r.patterns}

Endless == -1
WithinEnd(r, d) == r.until = Endless \/ d <= r.until
FirstOf(r, candidates) ==
  IF r.limit = Endless THEN candidates
  ELSE {d \in candidates : Cardinality({e \in candidates : e < d}) < r.limit}

\* Daily and weekly recurrences step from the start, or from the last step before
\* the window when no occurrences have to be tallied on the way.
SteppedOccurrences(r, from, to) ==
  LET step == r.interval * (IF r.frequency = "weekly" THEN 7 ELSE 1)
      first == IF r.limit = Endless /\ from > r.start THEN (from - r.start) \div step ELSE 0
      last == (to - r.start) \div step
  IN {r.start + i * step : i \in {i \in first .. last : r.limit = Endless \/ i < r.limit}}

\* Monthly and yearly ones walk the months from the start. A date before the start
\* is no occurrence, and does not consume the count.
CalendarMonths(r, to) ==
  LET period == r.interval * (IF r.frequency = "yearly" THEN 12 ELSE 1)
      first == MonthOf(r.start)
  IN {first + p * period : p \in 0 .. (MonthOf(to) - first) \div period}
NotBefore(r, candidates) == {d \in candidates : d >= r.start}
CountedAll(r, candidates) == FirstOf(r, candidates) \cap {d \in candidates : d >= r.start}
Counted(r, candidates) == FirstOf(r, NotBefore(r, candidates))
MonthlyOccurrences(r, to) ==
  Counted(r, UNION {{DateOf(m, day) : day \in MonthlyDays(r, m)} : m \in CalendarMonths(r, to)})

RawOccurrences(r, from, to) ==
  {d \in IF r.frequency \in {"daily", "weekly"}
         THEN SteppedOccurrences(r, from, to) ELSE MonthlyOccurrences(r, to) :
     from <= d /\ d <= to /\ WithinEnd(r, d)}

\* getDateWithSkippedWeekend: forward to Monday, or back to Friday.
SolveWeekend(r, d) ==
  IF r.weekend = "kept" \/ DayOfWeek(d) \notin Weekend THEN d
  ELSE IF r.weekend = "after" THEN d + (IF DayOfWeek(d) = 6 THEN 2 ELSE 1)
  ELSE d - (IF DayOfWeek(d) = 6 THEN 1 ELSE 2)

\* expandOccurrences looks a few days around the window, for a weekend may carry a
\* payment into it from either side.
Expansion(r, from, to) ==
  LET raw == IF r.frequency = "once" THEN {r.start}
             ELSE RawOccurrences(r, from - ScanSlack, to + ScanSlack)
  IN [d \in {d \in raw : SolveWeekend(r, d) \in from .. to} |-> SolveWeekend(r, d)]

(***************************************************************************)
(* The month                                                               *)
(***************************************************************************)
\* A linked transaction is Actual's own sign that an occurrence is paid: those
\* beyond the occurrences before today retire the ones still to come.
Retired(paid, prior, upcoming) == Least(upcoming, Greatest(0, paid - prior))

\* One schedule: the payments made by now and the payments still to come. With no
\* occurrence in the month, Actual's own next date counts.
Split(dates, paid, nextDate, today, last) ==
  LET prior == Cardinality({d \in DOMAIN dates : dates[d] < today})
      upcoming == Cardinality(DOMAIN dates) - prior
      retired == Retired(paid, prior, upcoming)
  IN [toDate |-> prior + retired,
      remaining |-> IF DOMAIN dates = {} /\ nextDate \in today .. last THEN 1
                    ELSE upcoming - retired]

Costs(s) == ~s.completed /\ s.amount < 0
\* committedForMonth over schedules with their expansions; a schedule of no category
\* is in the total only.
Remaining(s, month, today) ==
  IF ~Costs(s) \/ MonthOf(today) # month THEN 0
  ELSE (0 - s.amount) * Split(Expansion(s.recurrence, StartOfMonth[month], EndOfMonth(month)),
                              s.paid, s.nextDate, today, EndOfMonth(month)).remaining
InCategory(schedules, c, month, today) ==
  SumOver([i \in DOMAIN schedules |->
             IF schedules[i].category = c THEN Remaining(schedules[i], month, today) ELSE 0],
          DOMAIN schedules)
Total(schedules, month, today) ==
  SumOver([i \in DOMAIN schedules |-> Remaining(schedules[i], month, today)], DOMAIN schedules)

(***************************************************************************)
(* What the expansion should be                                            *)
(***************************************************************************)
\* A date matches a recurrence by its own place in the calendar, without a walk
\* from the start: how far it is from the start, which day of its month it is, and
\* which weekday from which end.
MatchesPattern(d, p) ==
  LET day == DayOf(d)
      length == MonthLengths[MonthOf(d)]
  IN IF p.type = DayPattern THEN p.value \in {day, day - length - 1}
     ELSE /\ DayOfWeek(d) = p.type
          /\ p.value \in {(day + 6) \div 7, 0 - ((length - day + 7) \div 7)}
Matches(r, d) ==
  /\ d >= r.start
  /\ CASE r.frequency = "once"    -> d = r.start
       [] r.frequency = "daily"   -> (d - r.start) % r.interval = 0
       [] r.frequency = "weekly"  -> (d - r.start) % (7 * r.interval) = 0
       [] r.frequency = "monthly" -> /\ (MonthOf(d) - MonthOf(r.start)) % r.interval = 0
                                     /\ IF r.patterns = {} THEN DayOf(d) = DayOf(r.start)
                                        ELSE \E p \in r.patterns : MatchesPattern(d, p)
       [] r.frequency = "yearly"  -> /\ (MonthOf(d) - MonthOf(r.start)) % (12 * r.interval) = 0
                                     /\ DayOf(d) = DayOf(r.start)
Occurs(r, d) ==
  /\ Matches(r, d) /\ WithinEnd(r, d)
  /\ r.limit # Endless => Cardinality({e \in r.start .. d - 1 : Matches(r, e)}) < r.limit

\* An occurrence is expanded exactly when its payment falls in the window, into which
\* a weekend carries it from two days away at most.
ExpandsRight(r, from, to) ==
  Expansion(r, from, to) =
    [d \in {d \in from - 2 .. to + 2 : Occurs(r, d) /\ SolveWeekend(r, d) \in from .. to} |->
       SolveWeekend(r, d)]

\* The payments of a month are each made or still to come: as many are made as have
\* fallen due before today, or as are linked if those are more, but never more than the
\* month has. Every payment to come is in one category or in none of them.
SplitsRight(s, month, today) ==
  LET dates == Expansion(s.recurrence, StartOfMonth[month], EndOfMonth(month))
      due == Cardinality(DOMAIN dates)
      behind == Cardinality({d \in DOMAIN dates : dates[d] < today})
      open == due - Greatest(behind, Least(s.paid, due))
      unseen == due = 0 /\ s.nextDate \in today .. EndOfMonth(month)
  IN Remaining(s, month, today) = (0 - s.amount) * (IF unseen THEN 1 ELSE open)
AddsUp(schedules, month, today) ==
  LET categories == {schedules[i].category : i \in DOMAIN schedules}
  IN Total(schedules, month, today) =
       SumOver([c \in categories |-> InCategory(schedules, c, month, today)], categories)
=============================================================================
