------------------------------- MODULE Forecast -------------------------------
(***************************************************************************)
(* The checking balance a year out (src/domain/aggregate/forecast.ts).     *)
(* Month 0 is the anchor, the latest month with facts.                     *)
(***************************************************************************)
EXTENDS Money, Sequences, FiniteSetsExt

CONSTANTS
  Horizon,   \* FORECAST_HORIZON_MONTHS
  Detection  \* DETECTION_WINDOW_MONTHS

ASSUME ForecastAssumption == Horizon \in Nat \ {0} /\ Detection \in Nat

FrequencyWindow == [quarterly |-> 3, annual |-> 12]
HorizonMonths == 1 .. Horizon

\* A category is [nature, frequency, hidden, baseline, series]: its baseline is a
\* monthly rate, NoBaseline before there is one, and its series what it spent in each
\* month of the detection window.
NoBaseline == -1
Monthly(c) == c.frequency = "monthly"
Projected(c) ==
  /\ ~c.hidden /\ c.nature \in {"income", "fixed"} /\ c.frequency # "irregular"
  /\ Monthly(c) => c.baseline # NoBaseline

Spent(c) == {m \in 1 - Detection .. 0 : c.series[m] # 0}
LastMonth(c) == Max(Spent(c))

\* The first occurrence strictly after the anchor, then one every step.
FirstStep(c) == (0 - LastMonth(c)) \div FrequencyWindow[c.frequency] + 1
BillMonths(c) ==
  LET step == FrequencyWindow[c.frequency]
  IN IF Spent(c) = {} THEN {}
     ELSE {LastMonth(c) + n * step : n \in FirstStep(c) .. FirstStep(c) + Horizon} \cap HorizonMonths

Leg(c, m) ==
  IF ~Projected(c) THEN 0
  ELSE IF Monthly(c) THEN c.baseline
  ELSE IF m \in BillMonths(c) THEN c.series[LastMonth(c)] ELSE 0

LegsIn(categories, nature, m) ==
  SumOver([c \in categories |-> IF c.nature = nature THEN Leg(c, m) ELSE 0], categories)
Known(categories) == SumOver([m \in HorizonMonths |-> LegsIn(categories, "fixed", m)], HorizonMonths)

\* Only what the typical spend has on top of the tagged legs is added, as a flat cost.
ResidualAll(categories, typical) == typical
Residual(categories, typical) ==
  Greatest(0, typical - Rounded(Known(categories), Horizon))

FixedIn(categories, typical, m) == LegsIn(categories, "fixed", m) + Residual(categories, typical)
Net(categories, typical, m) == LegsIn(categories, "income", m) - FixedIn(categories, typical, m)
Balance(categories, typical, start, m) ==
  start + SumOver([k \in 1 .. m |-> Net(categories, typical, k)], 1 .. m)

(***************************************************************************)
(* What the projection promises                                            *)
(***************************************************************************)
\* A bill lands on every month that is a whole number of its steps from where it was
\* last seen, and on no other: any stretch of one step has it once.
BillsRecur(c) ==
  ~Monthly(c) /\ Projected(c) /\ Spent(c) # {} =>
    \A m \in HorizonMonths :
      m \in BillMonths(c) <=> (m - LastMonth(c)) % FrequencyWindow[c.frequency] = 0

\* Over the horizon the typical spend leaves the account once, within the rounding of
\* the monthly figure, and never less than the legs that are known.
SpendsOnce(categories, typical) ==
  LET earned == SumOver([m \in HorizonMonths |-> LegsIn(categories, "income", m)], HorizonMonths)
      spent == earned - Balance(categories, typical, 0, Horizon)
      known == Known(categories)
      expected == Greatest(Horizon * typical, known)
  IN 2 * (spent - expected) \in -Horizon .. Horizon
=============================================================================
