----------------------------- MODULE Persistence -----------------------------
(***************************************************************************)
(* How long a class of the portfolio has been outside its band             *)
(* (src/domain/advice/persistence.ts, src/domain/advice/drift.ts).         *)
(***************************************************************************)
EXTENDS Integers, Sequences, FiniteSets, FiniteSetsExt

CONSTANTS
  Low, High,       \* the edges of the class's band, as today's profile has them
  PersistentMonths \* params.drift.persistentMonths

ASSUME PersistenceAssumption == PersistentMonths \in Nat

StateOf(share) == IF share > High THEN "above" ELSE IF share < Low THEN "below" ELSE "inside"

\* A month end is [month, share, measured]: measured is FALSE when the invested value
\* was never recorded. The chain walks back from the newest and stops at the first
\* month that is missing or cannot be measured.
ChainFiltered(history) ==
  [i \in 1 .. Len(SelectSeq(history, LAMBDA e : e.measured)) |->
     LET kept == SelectSeq(history, LAMBDA e : e.measured) IN StateOf(kept[Len(kept) + 1 - i].share)]
Chain(history) ==
  LET n == Len(history)
      holds == {k \in 0 .. n : \A i \in 1 .. k :
                  /\ history[n + 1 - i].measured
                  /\ i > 1 => history[n + 1 - i].month = history[n + 2 - i].month - 1}
  IN [i \in 1 .. Max(holds) |-> StateOf(history[n + 1 - i].share)]

MonthsObserved(history) == Len(Chain(history))

\* Today's report is the authority on today: outside with no observation is one month.
MonthsOutside(today, history) ==
  LET chain == Chain(history)
      same == {k \in 0 .. Len(chain) : \A i \in 1 .. k : chain[i] = today}
  IN IF today = "inside" THEN 0 ELSE IF Max(same) > 1 THEN Max(same) ELSE 1

Signalled(today, history) == today # "inside" /\ MonthsOutside(today, history) >= PersistentMonths

(***************************************************************************)
(* What the count says: every month it names was looked at, and the class  *)
(* was outside on the same side in each.                                   *)
(***************************************************************************)
At(history, month) == {history[i] : i \in {i \in DOMAIN history : history[i].month = month}}
SeenOutside(today, history, month) ==
  \E e \in At(history, month) : e.measured /\ StateOf(e.share) = today

CountIsEarned(today, history) ==
  LET n == MonthsOutside(today, history)
      newest == history[Len(history)].month
      seen == SeenOutside(today, history, newest)
  IN IF today = "inside" THEN n = 0
     ELSE /\ n >= 1
          /\ n > 1 => \A back \in 0 .. n - 1 : SeenOutside(today, history, newest - back)
          /\ seen => ~SeenOutside(today, history, newest - n)
          /\ ~seen => n = 1
          /\ n <= MonthsObserved(history) \/ n = 1
          /\ Signalled(today, history) /\ PersistentMonths > 1 =>
               \A back \in 0 .. PersistentMonths - 1 : SeenOutside(today, history, newest - back)
=============================================================================
