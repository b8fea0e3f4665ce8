------------------------------- MODULE NetWorth -------------------------------
(***************************************************************************)
(* The series of net worth, one total per day out of the accounts that     *)
(* count (src/jobs/networth.ts, src/jobs/backfill.ts).                     *)
(* The nightly job values today's accounts; the backfill fills the ends of *)
(* past months from the same map, once. Both read account_map, await the   *)
(* sources, and write what they found, while syncs and owners change the   *)
(* map under them. Of the rows a job read, the ones that count are all it  *)
(* uses, so they are what it holds.                                        *)
(***************************************************************************)
EXTENDS AccountMap

CONSTANTS
  MonthDays,    \* days of a month
  FirstMonth,   \* the earliest month of the budget (earliestStoredMonth)
  History,      \* months the install reports on (JOBS_HISTORY_MONTHS)
  MaxDay,       \* bound on the clock
  MaxSyncs,     \* bound on the syncs
  MaxChanges,   \* bound on the syncs and the answers of owners together
  MaxNights     \* bound on the runs of the net worth job

ASSUME NetWorthAssumption ==
  /\ MonthDays \in Nat \ {0} /\ MaxDay \in Nat
  /\ FirstMonth \in Nat /\ History \in Nat
  /\ MaxSyncs \in Nat /\ MaxChanges \in Nat /\ MaxNights \in Nat

VARIABLES
  today,     \* the clock, in days
  syncs,     \* the syncs so far
  answers,   \* the answers of owners so far
  nights,    \* the runs of the net worth job so far
  snapshot,  \* net_worth_snapshots: the accounts each date counts
  nightly,   \* the net worth job
  filler     \* the backfill

vars == <<account, today, syncs, answers, nights, snapshot, nightly, filler>>

Days == 0 .. MaxDay
Month(d) == d \div MonthDays
MonthEnd(m) == m * MonthDays + MonthDays - 1
Stored(d) == snapshot[d] # {}

\* resolveInclusion: a group counts through its source of truth, and not at all
\* without one. Nothing of one row depends on another.
CountsAll(row) == row.counts
Counts(row) == row.counts /\ (row.group = NoGroup \/ row.truth)
Counting == {a \in DOMAIN account : Counts(account[a])}

\* History a job carries: the pairs of accounts that were one group whenever it read
\* the map, with those of the two that were a source of truth at one of its reads.
Pairs == {p \in SUBSET DOMAIN account :
            /\ Cardinality(p) = 2
            /\ \E g \in SUBSET Accounts : p \subseteq Members(g)}
Speaking(p) == {a \in p : account[a].truth}
Twins == {[pair |-> p, spoke |-> Speaking(p)] : p \in Pairs}
StillTwins(twins) ==
  {[pair |-> t.pair, spoke |-> t.spoke \cup Speaking(t.pair)] :
     t \in {u \in twins : u.pair \in Pairs}}

IdleNightly == [at |-> "idle", date |-> 0, counting |-> {}, twins |-> {}]
IdleFiller == [at |-> "idle", months |-> {}, had |-> {}, counting |-> {},
               open |-> {}, held |-> {}, twins |-> {}]

Init ==
  /\ MapInit
  /\ today = 0 /\ syncs = 0 /\ answers = 0 /\ nights = 0
  /\ snapshot = [d \in Days |-> {}]
  /\ nightly = IdleNightly /\ filler = IdleFiller

(***************************************************************************)
(* The map changes under the jobs, and the days go by                      *)
(***************************************************************************)
Sync ==
  /\ syncs < MaxSyncs /\ syncs + answers < MaxChanges
  /\ SyncAccounts
  /\ syncs' = syncs + 1
  /\ UNCHANGED <<today, answers, nights, snapshot, nightly, filler>>

Answer ==
  /\ syncs + answers < MaxChanges
  /\ OwnerAnswers
  /\ answers' = answers + 1
  /\ UNCHANGED <<today, syncs, nights, snapshot, nightly, filler>>

NextDay ==
  /\ today < MaxDay
  /\ today' = today + 1
  /\ UNCHANGED <<account, syncs, answers, nights, snapshot, nightly, filler>>

(***************************************************************************)
(* The net worth job                                                       *)
(***************************************************************************)
\* collectAccountValues loads the map and awaits Actual, then Ghostfolio.
StartNightly ==
  /\ nightly.at = "idle" /\ nights < MaxNights
  /\ nights' = nights + 1
  /\ nightly' = [at |-> "asking", date |-> today, counting |-> Counting, twins |-> Twins]
  /\ UNCHANGED <<account, today, syncs, answers, snapshot, filler>>

\* The accounts that are open in Actual have a value, and those Ghostfolio answers
\* with and does not exclude: none when it is out, which is only logged.
\* persistNetWorth replaces the rows of the date.
FinishNightly ==
  /\ nightly.at = "asking"
  /\ \E valued \in SUBSET nightly.counting :
       snapshot' = [snapshot EXCEPT ![nightly.date] = valued]
  /\ nightly' = IdleNightly
  /\ UNCHANGED <<account, today, syncs, answers, nights, filler>>

\* Actual is out: the job throws.
FailNightly ==
  /\ nightly.at = "asking"
  /\ nightly' = IdleNightly
  /\ UNCHANGED <<account, today, syncs, answers, nights, snapshot, filler>>

(***************************************************************************)
(* The backfill                                                            *)
(***************************************************************************)
\* targetMonths: the settled months, from the first one a sync has stored, and of
\* those the ones without a row.
Settled == {m \in 0 .. Month(today) : m < Month(today) /\ m + History >= Month(today)}
UnstoredAny(months) == months
Unstored(months) == {m \in months : ~Stored(MonthEnd(m))}
Pending == Unstored({m \in Settled : syncs > 0 /\ m >= FirstMonth})

StartBackfill ==
  /\ filler.at = "idle" /\ Pending # {}
  /\ filler' = [IdleFiller EXCEPT !.at = "charting", !.months = Pending,
                                  !.had = {d \in Days : Stored(d)}]
  /\ UNCHANGED <<account, today, syncs, answers, nights, snapshot, nightly>>

\* The chart of the whole portfolio has come, and the map is loaded.
Chart ==
  /\ filler.at = "charting"
  /\ filler' = [filler EXCEPT !.at = "collecting", !.counting = Counting, !.twins = Twins]
  /\ UNCHANGED <<account, today, syncs, answers, nights, snapshot, nightly>>

\* Today's picture decides which Ghostfolio accounts are asked for their past,
\* one after the other: none when Ghostfolio is out just then, which
\* collectAccountValues only logs.
Collect ==
  /\ filler.at = "collecting"
  /\ \E held \in SUBSET (Ghostfolio \cap filler.counting) :
       filler' = [filler EXCEPT !.at = "asking", !.held = held]
  /\ UNCHANGED <<account, today, syncs, answers, nights, snapshot, nightly>>

\* Their series have come, and the map is loaded again for the accounts that are
\* open in Actual.
Scope ==
  /\ filler.at = "asking"
  /\ \E open \in SUBSET (Actual \cap Counting) :
       filler' = [filler EXCEPT !.at = "filling", !.open = open, !.twins = StillTwins(@)]
  /\ UNCHANGED <<account, today, syncs, answers, nights, snapshot, nightly>>

\* One month after the other, oldest first. A series that has not started by the
\* date adds nothing; one with a hole there leaves the date alone.
Oldest == {m \in filler.months : \A n \in filler.months : m <= n}
Done(m) ==
  filler' = IF filler.months = {m} THEN IdleFiller ELSE [filler EXCEPT !.months = @ \ {m}]

FillMonth ==
  /\ filler.at = "filling"
  /\ \E m \in Oldest, started \in SUBSET filler.held :
       /\ snapshot' = [snapshot EXCEPT ![MonthEnd(m)] = filler.open \cup started]
       /\ Done(m)
  /\ UNCHANGED <<account, today, syncs, answers, nights, nightly>>

SkipMonth ==
  /\ filler.at = "filling" /\ filler.held # {}
  /\ \E m \in Oldest : Done(m)
  /\ UNCHANGED <<account, today, syncs, answers, nights, snapshot, nightly>>

\* A call throws, or there is no chart or no series to be had.
FailBackfill ==
  /\ filler.at # "idle"
  /\ filler' = IdleFiller
  /\ UNCHANGED <<account, today, syncs, answers, nights, snapshot, nightly>>

Next ==
  \/ Sync \/ Answer \/ NextDay
  \/ StartNightly \/ FinishNightly \/ FailNightly
  \/ StartBackfill \/ Chart \/ Collect \/ Scope \/ FillMonth \/ SkipMonth \/ FailBackfill

Spec == Init /\ [][Next]_vars

(***************************************************************************)
(* Properties                                                              *)
(***************************************************************************)
TypeOK ==
  /\ MapTypeOK
  /\ today \in Days
  /\ syncs \in 0 .. MaxSyncs /\ answers \in 0 .. MaxChanges /\ nights \in 0 .. MaxNights
  /\ snapshot \in [Days -> SUBSET Accounts]
  /\ nightly.at \in {"idle", "asking"} /\ nightly.date \in Days
  /\ filler.at \in {"idle", "charting", "collecting", "asking", "filling"}
  /\ \A job \in {nightly, filler} :
       /\ job.counting \subseteq Accounts
       /\ job.twins \subseteq [pair : SUBSET Accounts, spoke : SUBSET Accounts]
  /\ filler.had \subseteq Days /\ filler.months \subseteq 0 .. Month(MaxDay)

\* What a person has decided about an account survives every sync.
DecisionsStand == [][syncs' # syncs => AnswersKept]_vars

\* The nightly job, which reads the map once, never counts both of two accounts that
\* were one group at its read. The backfill reads it once for Ghostfolio and again for
\* Actual (Chart, Scope): of two accounts that were one group at both reads it counts
\* both only if the source of truth was moved from the one to the other in between
\* (resolveInclusion, backfillNetWorth).
Both(t, d) == t.pair \subseteq snapshot'[d]
TwinsCountOnce ==
  [][\A d \in Days : snapshot'[d] # snapshot[d] =>
       /\ nightly' # nightly => \A t \in nightly.twins : ~Both(t, d)
       /\ filler' # filler => \A t \in filler.twins : Both(t, d) => t.spoke = t.pair]_vars

\* A date that was stored when a backfill began is left to the nightly job
\* (snapshotDates).
StoredDatesAreLeft ==
  [][filler' # filler => \A d \in filler.had : snapshot'[d] = snapshot[d]]_vars

(***************************************************************************)
(* What the source says and the code does not do                           *)
(***************************************************************************)
\* db/schema.ts:232: net worth sums only source-of-truth rows, so the same money can
\* never be counted twice.
NoTwinsInATotal ==
  [][\A d \in Days : snapshot'[d] # snapshot[d] =>
       \A t \in IF nightly' # nightly THEN nightly.twins ELSE filler.twins : ~Both(t, d)]_vars
=============================================================================
