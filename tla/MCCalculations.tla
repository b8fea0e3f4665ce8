---------------------------- MODULE MCCalculations ----------------------------
(***************************************************************************)
(* The calculations of src/domain and of the server, each over every input *)
(* of a small set. A behaviour picks a calculation, then one input of it.  *)
(***************************************************************************)
EXTENDS Committed, Schedules, RateWindow, Persistence, Forecast, Goals, Loans, Redirects

VARIABLE input

\* 2028 is a leap year and begins on a Saturday; its summer time, an hour, is moved to
\* where the schedules below meet both of its ends.
Year2028 == <<31, 29, 31, 30, 31, 30, 31, 31, 30, 31, 30, 31, 31, 28, 31>>
SpringForward == 24 * 60 + 1
AutumnBack == 24 * 63 + 1

(***************************************************************************)
(* Inputs                                                                  *)
(***************************************************************************)
On(m, day) == DateOf(m, day)
PatternSets == {{}, {[value |-> -1, type |-> DayPattern]}, {[value |-> 31, type |-> DayPattern]},
                {[value |-> 5, type |-> 5]}, {[value |-> 1, type |-> 0], [value |-> 15, type |-> DayPattern]},
                {[value |-> -1, type |-> 6]}}
Recurrences ==
  [frequency : Frequencies, interval : {1, 2}, patterns : PatternSets, weekend : {"kept", "before", "after"},
   start : {On(1, 1), On(1, 29), On(1, 30), On(1, 31), On(2, 29)},
   limit : {Endless, 2}, until : {Endless, On(2, 27)}]
Sensible(r) ==
  /\ r.frequency # "monthly" => r.patterns = {}
  /\ r.limit = Endless \/ r.until = Endless
  /\ r.frequency = "once" =>
       r.interval = 1 /\ r.weekend = "kept" /\ r.limit = Endless /\ r.until = Endless

PickRecurrence ==
  \E r \in Recurrences, m \in {2, 3, 14} :
    Sensible(r) /\ input' = [kind |-> "recurrence", r |-> r, month |-> m, open |-> FALSE]

PickMonth ==
  \E paid \in 0 .. 3, day \in {1, 12, 14, 29}, next \in {On(2, 13), On(3, 1)}, c \in {"none", "rent"},
     r \in {r \in Recurrences : Sensible(r) /\ r.weekend # "kept" /\ r.frequency \in {"weekly", "monthly"}
                                 /\ r.limit = Endless /\ r.until = Endless} :
    input' = [kind |-> "month", open |-> FALSE, today |-> On(2, day),
              schedules |-> <<[completed |-> FALSE, amount |-> -7, recurrence |-> r, paid |-> paid,
                               nextDate |-> next, category |-> c],
                              [completed |-> FALSE, amount |-> -5, paid |-> 0, nextDate |-> next, category |-> "rent",
                               recurrence |-> [r EXCEPT !.start = On(1, 1), !.interval = 1]],
                              [completed |-> TRUE, amount |-> -3, recurrence |-> r, paid |-> 0,
                               nextDate |-> next, category |-> c]>>]

MonthlyTicks == 24 * On(1, 27) .. 24 * On(4, 2)
DailyTicks == 24 * On(2, 28) .. 24 * On(3, 7)
PickMonthly ==
  \E day \in {1, 28, 29, 31}, hour \in {0, 3, 23}, off \in {{}, 24 * On(2, 28) .. 24 * On(3, 2) + 2},
     byHand \in {24 * On(1, 27) - 1, 24 * On(2, 20), 24 * On(2, 29) + 1, 24 * On(3, 30)} :
    input' = [kind |-> "schedule", open |-> FALSE, ticks |-> MonthlyTicks \ off, byHand |-> byHand,
              last |-> 24 * On(1, 27) - 1, s |-> [kind |-> "monthly", day |-> day, hour |-> hour]]
PickDaily ==
  \E hour \in {0, 1, 2, 3, 23}, off \in {{}, 24 * On(3, 1) .. 24 * On(3, 3) + 5}, byHand \in DailyTicks :
    input' = [kind |-> "schedule", open |-> FALSE, ticks |-> DailyTicks \ off, byHand |-> byHand,
              last |-> 24 * On(2, 28) - 1, s |-> [kind |-> "daily", hour |-> hour]]
PickSchedule == PickMonthly \/ PickDaily

PickRequests ==
  \E times \in [1 .. 6 -> 0 .. 6] :
    /\ \A i \in 1 .. 5 : times[i] <= times[i + 1]
    /\ \E swept \in SUBSET {2, 4, 6} : input' = [kind |-> "requests", open |-> FALSE, times |-> times, swept |-> swept]

Histories ==
  LET ends == [share : {1, 5, 9}, measured : BOOLEAN]
  IN {h \in UNION {[1 .. n -> [month : 1 .. 5, end : ends]] : n \in 1 .. 3} :
        \A i, j \in DOMAIN h : i < j => h[i].month < h[j].month}
PickHistory ==
  \E h \in Histories, today \in {"inside", "above", "below"} :
    input' = [kind |-> "history", open |-> FALSE, today |-> today,
              history |-> [i \in DOMAIN h |-> [month |-> h[i].month, share |-> h[i].end.share,
                                                measured |-> h[i].end.measured]]]

Series == {[m \in 1 - Detection .. 0 |-> IF m = last THEN 90 ELSE IF m = earlier THEN 40 ELSE 0] :
             last \in {1 - Detection, -12, -11, -4, -3, -2, 0}, earlier \in {-13, -5, 1}}
Categories(frequencies) ==
  [nature : {"fixed", "income"}, frequency : frequencies, hidden : BOOLEAN, baseline : {NoBaseline, 8}, series : Series]
PickForecast ==
  \E bill \in Categories({"quarterly", "annual", "irregular"}), baseline \in {NoBaseline, 0, 8}, typical \in {0, 7, 8, 20, 50} :
    bill.baseline = NoBaseline /\
    input' = [kind |-> "forecast", open |-> FALSE, typical |-> typical,
              categories |-> {bill, [bill EXCEPT !.frequency = "monthly", !.nature = "fixed", !.baseline = baseline]}]

GoalRows == [target : {1, 3, 10}, months : {0, 1, 3, 12}]
PickPool ==
  \E goals \in UNION {[1 .. n -> GoalRows] : n \in 1 .. 3}, pool \in {-7, -1, 0, 1, 5, 10} :
    input' = [kind |-> "pool", open |-> FALSE, pool |-> pool, goals |-> goals]
PickTrend ==
  \E target \in {5, 6, 20}, rate \in -1 .. 4, from \in {-3, 0, 5}, months \in (SUBSET (0 .. 6)) \ {{}} :
    input' = [kind |-> "trend", open |-> FALSE, target |-> target, rate |-> rate, from |-> from, months |-> months]

PickLoan ==
  \E principal \in {0, 1, 48, 100}, day \in {1, 15, 28}, payment \in {0, 2, 4, 26, 50, 105}, term \in 0 .. 4, d \in On(1, 1) .. On(7, 1) :
    input' = [kind |-> "loan", open |-> FALSE, date |-> d,
              loan |-> [principal |-> principal, anchor |-> On(1, day), payment |-> payment, term |-> term]]

Urls == {[host |-> "home", port |-> 1, path |-> 1], [host |-> "home", port |-> 1, path |-> 2],
         [host |-> "home", port |-> 2, path |-> 1], [host |-> "away", port |-> 1, path |-> 1],
         [host |-> "self", port |-> 1, path |-> 1]}
Answers == {Final, Invalid} \cup {Redirect(to) : to \in Urls}
PickSite ==
  \E mode \in {"follow", "manual", "error"}, url \in {[host |-> h, port |-> 1, path |-> 1] : h \in {"home", "self"}},
     site \in [Urls -> Answers] :
    /\ mode = "follow" \/ \A u \in Urls : site[u] = site[url]
    /\ input' = [kind |-> "site", open |-> FALSE, site |-> site, mode |-> mode, url |-> url]

InitInput == input \in [kind : {"recurrence", "month", "schedule", "requests", "history", "forecast", "pool",
                           "trend", "loan", "site"}, open : {TRUE}]
PickInput ==
  /\ input.open
  /\ \/ input.kind = "recurrence" /\ PickRecurrence
     \/ input.kind = "month" /\ PickMonth
     \/ input.kind = "schedule" /\ PickSchedule
     \/ input.kind = "requests" /\ PickRequests
     \/ input.kind = "history" /\ PickHistory
     \/ input.kind = "forecast" /\ PickForecast
     \/ input.kind = "pool" /\ PickPool
     \/ input.kind = "trend" /\ PickTrend
     \/ input.kind = "loan" /\ PickLoan
     \/ input.kind = "site" /\ PickSite
Inputs == InitInput /\ [][PickInput]_input

Chosen(kind) == ~input.open /\ input.kind = kind

(***************************************************************************)
(* Properties                                                              *)
(***************************************************************************)
\* A scheduled payment is expanded to exactly the dates its recurrence names, weekends
\* moved, whichever month is asked for and wherever the walk starts; and what a month
\* still owes counts each of them once: payments made or linked are not owed again,
\* payments to come are, and the categories add up to the total.
PaymentsAreOwedOnce ==
  /\ Chosen("recurrence") => ExpandsRight(input.r, StartOfMonth[input.month], EndOfMonth(input.month))
  /\ Chosen("month") =>
       /\ \A i \in DOMAIN input.schedules :
            LET s == input.schedules[i] IN Costs(s) => SplitsRight(s, MonthOf(input.today), input.today)
       /\ AddsUp(input.schedules, MonthOf(input.today), input.today)

\* Every local day or month in which the ticker is up at the due hour or after it has
\* one scheduled run, on days of 23 and 25 hours and in months without the due day; a
\* run by hand before the due day does not take the month's. A daily job's next run is
\* found within the horizon.
SlotsRunOnce ==
  Chosen("schedule") =>
    /\ KeepsSlots(input.s, input.ticks, input.byHand, input.last)
    /\ input.s.kind = "daily" => NextIsFound(input.s, input.byHand)

\* A request is the nth of its window exactly when n - 1 requests came since the window
\* opened, whatever was swept, and a peek agrees with the request after it.
WindowCountsItsOwn ==
  Chosen("requests") =>
    /\ CountsItsWindow(input.times, input.swept)
    /\ \A now \in input.times[Len(input.times)] .. 10 : PeekAgrees(input.times, input.swept, now)

\* A class is said to be outside its band for the months that were seen outside it on
\* that side without a break, and a break is also a month nobody could measure.
MonthsOutsideAreEarned == Chosen("history") => CountIsEarned(input.today, input.history)

\* A bill lands on its own months, and what is spent anyway leaves the account once.
ForecastSpendsOnce ==
  Chosen("forecast") =>
    /\ \A c \in input.categories : BillsRecur(c)
    /\ SpendsOnce(input.categories, input.typical)

\* Goals that share an envelope get all of it and no more, the more urgent at least as
\* much; a goal on a steady trend is reached in the month that was said, whichever months
\* have a snapshot; and saving what is required a month reaches it on time.
GoalsAreKept ==
  /\ Chosen("pool") => PoolIsSplit(input.pool, input.goals)
  /\ Chosen("trend") =>
       /\ EtaHolds(input.target, input.rate, input.from, input.months)
       /\ \A months \in {0, 1, 3, 12} : RequiredSuffices(input.target, input.from, months)

\* The payoff date and the balance beside it agree.
PayoffAgreesWithBalance ==
  Chosen("loan") /\ AnchoredEveryMonth(input.loan) /\ input.date >= input.loan.anchor =>
    PayoffAgrees(input.loan, input.date)

\* A redirect is followed only to where the caller could have gone by name, a bounded
\* number of times, and never takes credentials to another origin.
RedirectsAreGuarded == Chosen("site") => FollowsSafely(input.site, input.mode, input.url)
=============================================================================
