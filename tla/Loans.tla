-------------------------------- MODULE Loans --------------------------------
(***************************************************************************)
(* Fixed-schedule loans (src/domain/loan/amortization.ts). Interest is a   *)
(* fraction of the balance every month, so a balance after n months is     *)
(* kept as a whole number of 1 / RateOf ^ n cents.                         *)
(***************************************************************************)
EXTENDS Calendar

CONSTANT RateOf  \* the monthly rate is 1 / RateOf; 0 is a loan without interest

ASSUME LoansAssumption == RateOf \in Nat

\* A loan is [principal, anchor, payment, term].
Units(loan) ==
  LET unit[n \in 0 .. loan.term] == IF n = 0 \/ RateOf = 0 THEN 1 ELSE RateOf * unit[n - 1]
  IN unit

\* One month: interest, then payment; a balance that is gone does not grow again.
NextBalance(b, n, loan) ==
  IF b <= 0 THEN b
  ELSE IF RateOf = 0 THEN b - loan.payment
  ELSE b * (RateOf + 1) - loan.payment * Units(loan)[n]
BalanceAfter(loan) ==
  LET balance[n \in 0 .. loan.term] ==
        IF n = 0 THEN loan.principal ELSE NextBalance(balance[n - 1], n, loan)
  IN balance

MonthsElapsed(loan, d) == Least(Greatest(0, MonthsBetween(loan.anchor, d)), loan.term)
\* What is owed before it is rounded to a cent, and as it is shown.
Owed(loan, d) == BalanceAfter(loan)[MonthsElapsed(loan, d)]
AmortizedBalance(loan, d) ==
  LET unit == Units(loan)[MonthsElapsed(loan, d)]
  IN Greatest(0, (2 * Owed(loan, d) + unit) \div (2 * unit))

NoPayoff == -1
MonthsToPayoff(loan) ==
  LET cleared == {n \in 0 .. loan.term : BalanceAfter(loan)[n] <= 0}
  IN IF cleared = {} THEN NoPayoff
     ELSE CHOOSE n \in cleared : \A k \in cleared : n <= k
ProjectedPayoffDate(loan) ==
  IF MonthsToPayoff(loan) = NoPayoff THEN NoPayoff ELSE AddMonths(loan.anchor, MonthsToPayoff(loan))

(***************************************************************************)
(* A payoff date never disagrees with the balance shown beside it, for a   *)
(* loan anchored on a day that every month has: nothing is shown from that *)
(* date on, and before it something is owed.                               *)
(***************************************************************************)
AnchoredEveryMonth(loan) == DayOf(loan.anchor) <= 28
PayoffAgrees(loan, d) ==
  LET payoff == ProjectedPayoffDate(loan)
  IN IF payoff # NoPayoff /\ d >= payoff THEN AmortizedBalance(loan, d) = 0
     ELSE Owed(loan, d) > 0
=============================================================================
