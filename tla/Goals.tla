-------------------------------- MODULE Goals --------------------------------
(***************************************************************************)
(* Savings goals that share one envelope, and when a goal is reached       *)
(* (src/domain/aggregate/goals.ts). A goal is [target, months], months     *)
(* counting from this month to the month of its target date.               *)
(***************************************************************************)
EXTENDS Money, Sequences, FiniteSets, FiniteSetsExt

CONSTANT Common  \* every monthsRemaining in use divides it, so weights are whole numbers

ASSUME GoalsAssumption == Common \in Nat \ {0}

MonthsRemaining(months) == Greatest(1, months)
UrgencyWeight(goal) == goal.target * (Common \div MonthsRemaining(goal.months))
TotalWeight(goals) == SumOver([g \in DOMAIN goals |-> UrgencyWeight(goals[g])], DOMAIN goals)

\* The exact share of each goal, floored, and what the flooring lost of it.
Floor(pool, goals, g) == (pool * UrgencyWeight(goals[g])) \div TotalWeight(goals)
Fraction(pool, goals, g) == (pool * UrgencyWeight(goals[g])) % TotalWeight(goals)
Remainder(pool, goals) == pool - SumOver([g \in DOMAIN goals |-> Floor(pool, goals, g)], DOMAIN goals)

\* The lost cents go to the largest fractions, a tie to the lesser id.
Before(pool, goals, g, h) ==
  \/ Fraction(pool, goals, g) > Fraction(pool, goals, h)
  \/ Fraction(pool, goals, g) = Fraction(pool, goals, h) /\ g < h
HandedBack(pool, goals, g) ==
  IF Cardinality({h \in DOMAIN goals : Before(pool, goals, h, g)}) < Remainder(pool, goals)
  THEN 1 ELSE 0
SplitPool(pool, goals) == [g \in DOMAIN goals |-> Floor(pool, goals, g) + HandedBack(pool, goals, g)]

\* The trend is the value at each month end that has a snapshot on or before it; the
\* rate is measured over the months that elapsed, however many points there are.
RateOverPoints(trend) == Rounded(trend[Max(DOMAIN trend)] - trend[Min(DOMAIN trend)], Cardinality(DOMAIN trend) - 1)
MonthlyRate(trend) ==
  Rounded(trend[Max(DOMAIN trend)] - trend[Min(DOMAIN trend)], Max(DOMAIN trend) - Min(DOMAIN trend))

NoEta == -1
MonthsToTarget(target, current, trend) ==
  IF current >= target THEN 0
  ELSE IF Cardinality(DOMAIN trend) < 2 \/ MonthlyRate(trend) <= 0 THEN NoEta
  ELSE 0 - ((current - target) \div MonthlyRate(trend))
RequiredMonthly(target, current, months) ==
  IF current >= target THEN 0 ELSE 0 - ((current - target) \div MonthsRemaining(months))

(***************************************************************************)
(* What the two promise                                                    *)
(***************************************************************************)
\* The shares are the pool to the cent, overspent or not, none is a cent or more from
\* its exact share, and of two equal goals the more urgent never gets less of a pool.
PoolIsSplit(pool, goals) ==
  LET shares == SplitPool(pool, goals)
      total == TotalWeight(goals)
  IN /\ SumOver(shares, DOMAIN goals) = pool
     /\ \A g \in DOMAIN goals :
          shares[g] * total - pool * UrgencyWeight(goals[g]) \in 1 - total .. total - 1
     /\ \A g, h \in DOMAIN goals :
          UrgencyWeight(goals[g]) > UrgencyWeight(goals[h]) /\ pool >= 0 => shares[g] >= shares[h]

\* At the rate of a trend that grows the same every month, a goal is reached in the
\* month it is said to be and not a month before, whichever months have a snapshot.
EtaHolds(target, rate, from, months) ==
  LET trend == [m \in months |-> from + rate * m]
      current == trend[Max(months)]
      eta == MonthsToTarget(target, current, trend)
  IN IF current >= target THEN eta = 0
     ELSE IF Cardinality(months) < 2 \/ rate <= 0 THEN eta = NoEta
     ELSE current + eta * rate >= target /\ current + (eta - 1) * rate < target

\* Saving what is required each month reaches the target on time.
RequiredSuffices(target, current, months) ==
  current + RequiredMonthly(target, current, months) * MonthsRemaining(months) >= target
=============================================================================
