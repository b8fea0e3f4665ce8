------------------------------ MODULE RateWindow ------------------------------
(***************************************************************************)
(* The counters behind the rate limits (src/server/rate-limit.ts): one row *)
(* per bucket and client, advanced by one upsert per request, swept now    *)
(* and then when its window is over.                                       *)
(***************************************************************************)
EXTENDS Integers, Sequences, FiniteSets

CONSTANT Window  \* timeWindow

ASSUME WindowAssumption == Window \in Nat \ {0}

NoRow == [count |-> 0, expires |-> 0]
Starts(now) == [count |-> 1, expires |-> now + Window]
Advances(row) == [row EXCEPT !.count = @ + 1]

\* An elapsed window restarts at one, a live one keeps its end.
UpsertLate(row, now) == IF row = NoRow \/ row.expires < now THEN Starts(now) ELSE Advances(row)
Upsert(row, now) == IF row = NoRow \/ row.expires <= now THEN Starts(now) ELSE Advances(row)
Sweep(row, now) == IF row.expires < now THEN NoRow ELSE row
Read(row, now) == IF row.expires > now THEN row.count ELSE 0

\* A request is counted, and every so often, on whichever client's write, the
\* table is swept after it.
RowAfter(times, swept) ==
  LET row[i \in 0 .. Len(times)] ==
        IF i = 0 THEN NoRow
        ELSE LET counted == Upsert(row[i - 1], times[i])
             IN IF i \in swept THEN Sweep(counted, times[i]) ELSE counted
  IN row

(***************************************************************************)
(* What a window promises: a request opens one when none is open, and      *)
(* counts in it while it lasts, swept or not.                              *)
(***************************************************************************)
OpenedAt(times) ==
  LET at[i \in 1 .. Len(times)] ==
        IF i > 1 /\ times[i] < at[i - 1] + Window THEN at[i - 1] ELSE times[i]
  IN at

CountsItsWindow(times, swept) ==
  \A i \in 1 .. Len(times) :
    RowAfter(times, swept)[i].count =
      Cardinality({j \in 1 .. i : OpenedAt(times)[j] = OpenedAt(times)[i]})

\* A peek and the request after it agree on whether the window is still open.
PeekAgrees(times, swept, now) ==
  LET row == RowAfter(times, swept)[Len(times)]
  IN Upsert(row, now).count = Read(row, now) + 1
=============================================================================
