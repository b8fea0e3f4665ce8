# Balancr in TLA+

Balancr is a self-hosted service that mirrors a household's Actual Budget and
Ghostfolio data, computes facts from it on a schedule, asks an AI provider about
those facts, and offers the answers as proposals an owner may apply. It is one
Node process (`src/src/main.ts`) over one SQLite file, with one forked child per
tenant that owns that tenant's Actual data directory.

This directory holds its specification: what is modelled is the control that is
shared between callbacks, requests, timers and processes, and what each of them
finds when it goes on after an `await`.

Run a model with `tlc -config <run>.cfg <MC module>.tla`, check the proofs of a
module with `tlapm <module>.tla`. `PROJECT.json` maps every definition to the
source lines it translates, and lists the runs, hazards, findings, theorems, and
one mutant of the code for every property, which the property must catch.

The properties are invariants, action properties and liveness properties of whole
components, and each one is there because several steps, often of several actors,
could break it. Where one name covers several statements, it is the conjunction of
named parts, each with its own comment.

## 1. The system

### Parts with behaviour of their own

| part | state | operations | talks to | what is hard | correct when |
|---|---|---|---|---|---|
| job runner (`jobs/runner.ts`, `util/serialise.ts`) | a queue per tenant, the `inFlight` set, tables `jobs` and `job_runs` | `runJob`, `runDueJobs`, `pruneJobRuns`, `clearStaleRunning` | ticker, refresh, every job | a run that times out goes on as a zombie; any write may fail; a kill leaves rows running | claims and rows say what is going on; every call is answered |
| ticker (`jobs/scheduler.ts`) | the `ticking` flag, a timer | `start`, `tick`, `stop` | runner | one pass may last longer than its period; requests change the rows while it runs | one pass at a time, each ends, none skips a due job on either side of midnight |
| refresh and reset (`jobs/refresh.ts`, `server/routes/refresh.ts`) | none of its own | `startRefresh`, the two routes | runner, computed facts | check and claim must be one step; a reset deletes what a job may be writing | chains run in order, never interleaved; no wipe under a running job |
| Actual gateway (`adapters/actual/client.ts`, `worker.ts`) | the `workers` map, a serialiser, pending requests and a request counter per worker | `withActual`, `withActualBatch`, `syncActual`, `closeActual`; in the child: open, call, batch, sync, shutdown | every job and request that reads or writes Actual | a worker dies, its exit event comes later; timers race replies | one owner of a data directory, one operation in it, every caller answered |
| proposals (`domain/ai/proposals.ts`) | table `proposals`, audit rows | create, apply, adjust, reject, expire | gateway, audit, AI jobs | the row is read, Actual is written, then the row is updated, with an await in each gap | one decision, one audit entry, one card per target |
| AI runs (`domain/ai/runs.ts`, `analysis.ts`, `budget.ts`, `jobs/ai*.ts`) | table `ai_runs`, findings, the retention bookmark | reuse, guard, call, record, retain | adapters, proposals | guard and record are on two sides of the provider call; two transactions for one answer | the month's limit holds, an answer is neither lost nor paid twice |
| local login, sessions (`server/auth/local.ts`, `sessions.ts`, `users.ts`) | accounts with lockout counters, the last accepted code step, sessions | login, code, renew, revoke, disable | routes | the account is read before the password check is awaited | a code is used once, a lock holds, somebody can still log in |
| OIDC, onboarding, invites (`server/auth/login-flow.ts`, `onboarding.ts`, `domain/tenant/invites.ts`) | flows, pending identities, invites | start, callback, complete, redeem, revoke | provider | each is single use and two requests may hold one | an identity has one tenant, an invite one user |
| account map (`domain/aggregate/accounts.ts`, `jobs/sync.ts`) | rows of `account_map`, the fields a person decided | sync, classify, mirror, patch, group, ungroup | Actual, Ghostfolio | any sequence of syncs and answers about one group | answers stand, a group counts through one account unless a person left it out |
| net worth (`jobs/networth.ts`, `jobs/backfill.ts`) | `net_worth_snapshots` | nightly snapshot, backfill of past month ends | account map, both sources | the map is read, the sources are awaited, the map has changed | no total holds twins but those whose source of truth was moved between the two reads, stored dates are left alone |
| backups (`backup/*.ts`) | files | snapshot, prune, verify, restore | runner, file system | several renames, each may fail, possibly after taking effect, with a server that opens the path meanwhile; scratch files a kill leaves half written | no database is lost, a name is a whole snapshot, the newest stay |
| rate limiter (`server/rate-limit.ts`) | counter rows | hit, peek, sweep | routes | window edges | a limit is a limit |
| schedules (`jobs/schedule.ts`) | none | `isDue`, `nextRunAt` | runner | month ends, clock changes, runs by hand | a due day is neither missed nor used twice |
| egress guard (`egress.ts`) | host list | the redirect walk | adapters | chains and loops | the walk ends where the caller could have gone |
| calculations (`domain/aggregate/*.ts`, `domain/advice/*.ts`, `domain/loan/*.ts`) | none | committed payments, forecast, goals, loans, drift persistence | facts | calendars, rounding, gaps in a history | another way of counting gives the same |

The remaining parts (other aggregation, tax, advice, portfolio metrics, redaction and
prompts, the adapters of the providers, settings, migrations, the web client) are
computations over stored rows, text, or one request with one answer. `PROJECT.json`
lists each with the reason it has no module.

### How they interact

`main.ts` migrates the database, starts listening and starts the scheduler. The
ticker and the refresh routes call `runJob`, which claims synchronously and then
queues behind the tenant's serialiser. A job's body calls the gateway, which
queues behind the worker's own serialiser and exchanges messages with the child.
AI jobs store proposals; routes apply them through the same gateway. On
shutdown the timer and the server stop, then the workers are closed, then the
database. Everything in the main process runs on one thread, so a step of a
model is what runs between two awaits that can really give way.

## 2. The modules

| module | is | uses |
|---|---|---|
| `JobRunner` | runner, ticker, refresh and reset | |
| `MCJobRunner` | its small instances | extends `JobRunner` |
| `JobRunnerProofs` | theorems about it | extends `JobRunner` |
| `ActualWorkers` | one tenant's gateway and its workers | |
| `MCActualWorkers`, `ActualWorkersProofs` | its small instances; its theorems | extend `ActualWorkers` |
| `ProposalLedger` | the abstract promise of propose-and-apply | |
| `Proposals` | the handlers, which implement it | instantiates `ProposalLedger` |
| `MCProposals` | its small instances | extends `Proposals` |
| `ProposalsProofs` | invariants, the refinement, and what follows from the promise | extends `Proposals` |
| `AiLedger` | one tenant's AI runs over one month of spending | |
| `MCAiLedger` | its small instance | extends `AiLedger` |
| `AiLedgerProofs` | its safety invariants, proved | extends `AiLedger` |
| `LocalLogin` | logins by password and code, sessions, disabling | |
| `MCLocalLogin`, `LocalLoginProofs` | its small instance; its theorems | extend `LocalLogin` |
| `Onboarding` | flows, pending identities, invites, households | |
| `MCOnboarding`, `OnboardingProofs` | its small instance; its theorems | extend `Onboarding` |
| `Backup` | snapshots, their pruning, and the restore | |
| `MCBackup`, `BackupProofs` | its small instance; its theorems | extend `Backup` |
| `AccountMap` | the rows that decide what counts, with syncs and answers | |
| `NetWorth` | the two jobs that write the series from them | extends `AccountMap` |
| `MCNetWorth` | its small instance | extends `NetWorth` |
| `Money`, `Calendar` | least, greatest, rounding, sums; dates and months | `Calendar` extends `Money` |
| `Committed`, `Schedules`, `Loans` | calculations on the calendar | extend `Calendar` |
| `RateWindow`, `Persistence`, `Forecast`, `Goals`, `Redirects` | calculations without one | |
| `MCCalculations` | all of these over small inputs | extends them |
| `FiguresProofs` | theorems about the series and the calculations | extends `NetWorth`, `MCCalculations` |

### JobRunner

*State.* `inFlight` is the set of the code, a **set**: two claims of one job are
one member, and the first release takes it away. `queue[t]` are the calls of
`runJob` that have claimed and wait; `exec[t]` is the one that holds the
serialiser. `zombies` counts functions whose `withTimeout` has rejected and
which nobody can stop. `row` and `runs` are the two tables, the only state a
crash leaves. `pass` is the closure of `runDueJobs` at its await: the instant,
the position in tenants and registry, and the `lastRunAt` values read when the
walk reached the tenant, which are stale by the time they are used. `facts` is
the set of tenants with computed facts, for the reset.

*Actions.*

| action | code |
|---|---|
| `Boot` | `clearStaleRunning` and the first tick, in the same turn |
| `ClockTick` | the interval fires; skipped while a pass is on |
| `StartRun`, `StartRunFails` | a serialised function from its start to `job.run`: both rows written; or the database throws there, before the `try` |
| `FinishRun`, `FinishRunFails` | the job settles: both rows, the release and the prune, and the pass that awaited it walks on to its next due job, all in one turn; or the database throws at any of the writes |
| `ZombieEnds` | a timed-out function ends, having written its facts or not |
| `Refresh`, `Reset` | busy check, expansion, claim of the whole chain; the reset wipes |
| `Shutdown`, `Exit`, `Crash` | the timer stops, queued work may still start, memory goes |

*Left out.* The `jobs.cursor` column (the bookmark of one job), durations and
messages, audit rows of a refresh, the rate limit in front of the routes.
A database that fails goes on failing
until the end of the turn: the catch block of a failing success path fails too.
`Schedule` gives each job one of the three kinds of `schedule.ts`, and `Due` is `isDue` with
all three; `Local` is what `dateIn` makes of the clock's instants in the operator's time zone. Its
dates never go back (`LocalAssumption`): a zone that puts the clock back across
midnight, where a day comes twice, is left out.
Facts are present or absent for a tenant, not per table.

### ActualWorkers

Every structure of the gateway is keyed by tenant and nothing is shared between
tenants, so the module is one tenant. `entry` is that tenant's value in the
`workers` map. `process[w]` tells a child that is dead from one whose `exit`
event the parent has handled (`"gone"`): the gap between the two is where the
findings live. `inbox`, `handling` and `outbox` are the IPC channel and the
handlers that have started, `pending[w]` the promises `sendRequest` keeps,
`line[w]` the worker's serialiser, whose head holds it, and `actor[a]` where an
operation stands.

| action | code |
|---|---|
| `Join`, `Spawn` | the two branches of `getOrSpawnWorker`; the map is set before the open is awaited |
| `Send`, `Finish` | a request made by a callback of `withActual`, and its return |
| `Close` | `closeActual`, as `closeAllActual` calls it for the tenant |
| `Deliver`, `Timeout`, `Exited` | the message, timer and exit callbacks, with the continuations they release |
| `Receive`, `EndOpen`, `EndCall`, `EndShutdown` | the child: a handler starts on arrival, beside any other, and ends with a reply |
| `Killed`, `Crash` | external: the signal takes effect; the child dies unasked |

A send to a child that has exited either loses the message or raises an `error`
event on the child, which has no listener and so ends the main process: `Sent`
allows both, and the module's `parent` records it. The children of a main
process that has gone may go on. What an Actual call computes and the health
snapshot are left out.

### Proposals and ProposalLedger

`ProposalLedger` is what the layer promises: a suggestion is pending until it is
decided once (with one audit entry) or retired (with none), and a new suggestion
about a target retires the older one. `Proposals` is the code: the three kinds of
handler differ in where they await Actual, so a change of kind
`category_meta.set` is created and applied in one step, `budget_amount.set`
awaits its write only, and `transaction_category.set` awaits its diff both when
it is created and when it is applied. Between those awaits other generators
create, owners reject and adjust, the nightly job expires, another request
applies the same proposal. `wrote` is a history variable: the proposals whose
value has reached its place. `stray` are writes the gateway gave up on while the
worker still had them.

The refinement mapping takes `status` and `about` from the rows and `entries` from
the length of the audit trail. Values are left out: whether a diff is empty, and
so whether a suggestion is refused, is a free choice.

### AiLedger

`runs` is the table `ai_runs`; a row's place in it is its id. `spent` is the view
`ai_spend_monthly`, the sum of the rows' costs. `kept` are the runs whose findings or verdict
were stored, `review` the rows of `ai_narratives`, `verdict` what `promptGateState` answers
for each edited prompt version, and `caller[c]` the call a request or the nightly pass awaits.
A question stands for one reuse key (month, language, payload, prompt, model). A row's
`charged` is history: what the provider billed for the answers behind it.

A run is two turns. The first reads everything that decides (gate, reuse, cached review,
cap, budget) and ends in a row or in an awaited call:

| action | code |
|---|---|
| `Analyse` | `runAnalysis`: gate, then reuse, then budget; a dry run is the same run with a kind of its own and without findings |
| `Narrate`, `Translate` | `runNarrative`, `translateNarrative`: a month that has its review is served without a row |
| `Validate` | `validateOnce`, which `runExclusively` starts only when no other check of the tenant is on |
| `AskPlainly` | `runCategoryGuess`, `runBudgetNudge`, whose proposals are the matter of `Proposals` |

The second turn writes:

| action | code |
|---|---|
| `CallFails` | the catch block: a row at no cost |
| `CutOff` | `callNarrativeModel`: an answer that hit the ceiling is asked for once more, and its price is added |
| `AnswerRejected` | an answer that does not parse, is blank or is cut off twice: a row at its price |
| `AnswerUsed` | the row, then the findings, the review or the verdict |
| `Crash` | the process dies, possibly between the row and what should follow it |

*Left out.* The end of the month and a changed allowance, a prompt version made or activated
while the model runs (`PromptFor` and `Bodies` are fixed), the questions an analysis enqueues,
the sweep that clears texts, a database that fails.

### LocalLogin

One tenant's accounts. `credentialed`, `failed`, `lockedUntil` and `lastStep` are the
columns of `local_credentials`, `sessions` the table of the same name, `request[r]` a login
between the read of its account and the end of its awaited password check, `command` the
process of `scripts/local-user.ts`. Time is counted in code steps, so a code *is* the step it
belongs to, and whether a password matches is free: `Accept` and `Refuse` are both possible for
a request whose code would do.

| action | code |
|---|---|
| `Attempt` | `verifyLocalLogin` up to its await: refusals that read only are left out |
| `Accept` | the conditional update consumes the step, the session is created, the browser's old one ends |
| `Refuse` | `recordFailure`: increments and compares in SQL, locks at the threshold |
| `OidcSignIn`, `Read`, `Logout` | the other ways to get, renew and end a session |
| `StartCommand`, `WriteCredential`, `EndSessions` | `provisionLocalCredential` around its awaited hash, in another process |
| `Disable`, `Enable` | `PATCH /api/settings/users/:id`, with the guard for the last owner |

`overtaken`, `uses`, `guesses` and `locked` are history: what a login in flight missed, and the
counts the properties bound. Left out: CSRF tokens, the language of a user, hashing.

### Onboarding

`flows` and `pending` are the two short-lived tables, `users`, `tenants`, `invites` and `audit`
the lasting ones, and a browser is its cookies, so that it may send the same request twice and
hold on to a cookie whose row is gone. `StartLogin`, `Callbacks`, `RefuseCallback` and the three
returns from the provider (`ReturnKnown`, `ReturnUnknown`, `ReturnFailed`) are the login;
`CreateTenant` and `RedeemInvite` the two ways into a household; `CreateInvite`,
`RevokeInvite`, `Logout` and `Tick` the rest. The only await is the one on the provider: a
transaction that throws leaves everything as it was. Discovery of the provider and the
checks of its tokens are its await's outcome.

### Backup

A database is known by its number: the first, one for each that the server creates, one for each
that a restore decrypts. A `-wal` or `-shm` file carries the number of the database it was written
for. `serves` is the database the server has open, `live` what lies at the three paths,
`scratch` what lies in the `.plain` and `.part` files of each day's name, `snapshots` what lies under
the names themselves, `job[j]` a run of the backup job, of which two overlap when one has timed
out, and `restore` the command, with the plan it made, what it believes it moved and what the files
held when it planned.

| action | code |
|---|---|
| `BeginBackup`, `Vacuum`, `VacuumEnds`, `Encrypt`, `EncryptEnds`, `Publish`, `FailBackup` | `writeSnapshot`: scratch files cleared, the worker's copy begun and ended, the encryption begun and ended, the rename to the name |
| `ListSnapshots`, `Unlink`, `EndBackup` | `prune`: the oldest of a list read once, one unlink after the other |
| `BeginRestore`, `PlanRestore`, `Decrypt` | `verifyBackup`, `planPreservation`, `decryptFile` beside the target |
| `MoveAside`, `CheckTarget`, `InstallCopy`, `Catch`, `CheckUndo`, `Undo`, `GiveUp` | the renames, each of which may fail without or *after* taking effect, and the roll-back in reverse order |
| `StartServer`, `StopServer` | `openDatabase` creates the database it does not find, and in WAL mode the sidecars it does not find; `closeDatabase` folds the log into the database and deletes both |
| `KillServer`, `KillRestore` | either process dies between any two steps, with what it had half written left behind |

The vacuum's worker reads whatever database lies at the path and leaves its files alone. What SQLite does with
sidecars it meets is external and follows how `db/index.ts` opens the file: beside a database that
is there they are taken for its own, beside one just created they are deleted, and a
close deletes them unless the path no longer holds the database that was opened. `replaced` is
history: what restores set out to replace, without the sidecars SQLite has taken since.

The documentation asks that the server be stopped before a restore (`README.md`, "Stop the server
first"), and nothing enforces it: `StartServer` may fire under one. That is
what the check before the install and the occupied-path rule of the roll-back are for, and where
four statements of the source fail (section 5). If putting a file back fails, the restore ends
`"stuck"`, with the copy kept and the operator told; one that is stuck is put in order by hand before
the next (`BeginRestore`).

*Left out.* A second snapshot within one day (a name carries the second, a run takes the day
here), the cipher, the free space of the disk, a worker that outlives its server and writes on into a
file whose name is gone. Whether a snapshot that is whole verifies is a free choice.

### AccountMap and NetWorth

`account` is `account_map` as a function from the accounts that have a row. `SyncAccounts` is the
whole of the sync's part in it: the upsert, the classification and the derived mirrors, skipped
when Ghostfolio is out. `OwnerAnswers` are the routes of the settings page. A dedupe group, a
fresh uuid in the code, is the set of accounts it was made for; the set stays the name while
accounts are taken out of it.

`NetWorth` adds the two jobs. Both read the map, await the sources, and write what they hold,
and the backfill reads the map a second time for Actual (`Chart`, `Scope`) with awaited calls in between.
`nightly` and `filler` hold only the accounts that count, because that is all the jobs use of the
rows. Their `twins` are history of the reads: the pairs of accounts that were one group whenever the
job read the map, each with those of the two that were its source of truth at one of those reads. What
becomes of the map afterwards changes nothing in them, since it changes nothing a job writes. `snapshot`
maps a date to the accounts its total counts, values left out. `History`
and `FirstMonth` are the two limits of `targetMonths`.

*Left out.* Whether an account of Actual is off budget (both kinds are "checking" here), the
suggestions of `dedupeCandidates`, the portfolio half of the backfill, which writes totals that
need no account.

### The calculations

Each module is the calculation, in the order of the source, and below it what it promises,
reached another way: a count where the code walks, a divisibility where the code steps. None
keeps state, so `MCCalculations` is one variable: a behaviour picks a calculation and then an
input of it, and the properties speak of the input chosen.

| module | code | promise |
|---|---|---|
| `Committed` | `expandRecurrence`, `monthCommitments` and what they call | an expansion is exactly the dates the recurrence names, weekends moved, whichever window is asked for; a payment is owed once, paid or not |
| `Schedules` | `isDue`, `nextRunAt`, the decision of `runDueJobs` | one run a slot, on days of 23 and 25 hours and in short months, runs by hand included |
| `RateWindow` | the upsert, the peek and the sweep | the nth request of a window is told n, whatever was swept |
| `Persistence` | `measurableChain`, `driftPersistence`, `driftSignals` | every month counted was measured and was outside on that side |
| `Forecast` | `projectCashflow` | bills recur; the typical spend leaves the account once |
| `Goals` | `splitCategoryPool`, `projectGoal`, `requiredMonthlySavingsCents` | shares add up; a goal is reached in the month said, not before |
| `Loans` | `amortizedBalanceCents`, `monthsToPayoff`, `projectedPayoffDate` | the date and the balance beside it agree |
| `Redirects` | the walk of `installEgressGuard` in enforcing mode | it ends, asks no URL twice, and credentials stay with their origin |

Floating-point numbers of the code are exact fractions here: `Loans` keeps a balance as a whole
number of 1/`RateOf`^n cents and `Goals` shares over one denominator. What a sum of doubles rounds to is
not claimed.

## 3. The runs

| run | instance | states | shows |
|---|---|---|---|
| `runner_core` | 2 tenants, 2 dependent jobs (an interval and a daily one), a tick on each side of midnight, 3 refreshes, 1 stop, history of 2 | 1.24 M | claims are held by live calls; rows say running exactly for the run that is; refreshes never interleave; what a pass and a run leave is settled (`EndsAreSettled`: nothing due but what ran since, history bounded) |
| `runner_answers` | 1 tenant, a monthly job due on the 31st at the end of June, timeouts and failing writes, fair | 144 k | every pass and every refresh ends |
| `workers_calm` | 3 callers, 3 workers, 2 crashes, no timer, no refused open | 26 k | the entry is the one owner of the directory, one call in it |
| `workers_answers` | 2 callers and a close, every timer, refused opens, 1 crash, fair | 60 k | every call is kept (promises and waiters match, the line is kept, a close waits its turn), every caller is answered |
| `proposals_ledger` | 1 target of each kind, 2 proposals, 2 generators, 2 apply requests, writes given up on, crashes | 96 k | newest card only, trail is the decision, applied is written, and the refinement |
| `ai_ledger` | 2 callers of every kind, 1 question, a review in 2 languages, 2 edited versions (1 with fence markers), budget 2, cap 2, 4 rows, crashes | 1.65 M | the overspend is bounded, verdicts are kept (one per text, within the cap, shown reviews vetted), reuses trace to one call |
| `ai_reuse_violation` | the same without crashes, 3 rows | 259 | the finding of section 5 |
| `local_login` | 2 people, 2 logins in flight, threshold 2, 2 sessions, 1 command, 2 ticks, an empty tenant or two owners | 954 k | a code is spent once, guesses are bounded, changes end sessions, an owner remains |
| `onboarding` | 2 browsers, 3 people, 2 households, 2 invites, 3 logins, every lifetime 1 | 149 k | one owner each, flows used once, tables and trail tell one story |
| `backup` | 2 runs of the job over 6 days, 2 days and 2 files to keep, 1 undatable name that may be there, kills at every step; 2 restores, 2 failing renames, 2 starts of the server, 4 databases, all on the first day | 4.0 M | nothing is lost, a restore ends in one of its three ways, names are whole snapshots, retention holds |
| `networth` | 2 accounts in Actual, 1 in Ghostfolio, one name; 3 changes of which 2 syncs, 3 days of one-day months, 1 nightly run, any backfills | 4.1 M | decisions stand, a whole group counts through one account or was left out by an answer, twins are counted once by the nightly job and by a backfill whose reads saw one source of truth, stored dates are left |
| `calculations` | the inputs below | 150 k | the promises of the eight calculations |

*Why the bounds are enough.* The runner's hazards need a pass that holds stale
rows of one tenant while a refresh of the same or the other tenant settles a job
the pass will come to: two tenants, two jobs of which one reads the other's
output, three refreshes (one to be claimed beside the ticker's own call, and the two that the claim
it loses lets into one line) and a clock that makes both jobs due again, the daily one by
passing midnight, which is where a refresh may date a row on the next day while the pass of the day
before still walks. One stop is one
row left running and one boot that finds it. A history of two is full at the
third run, which the clock and the refreshes reach. The liveness instance has one tenant,
because queues of different tenants meet only in the pass, and two jobs, so that
a pass and a chain have a next call. For the gateway, the second worker is the successor
and the third the one that would be forked beside it; two crashes are one of
each; three callers are one in flight, one queued and one that comes afterwards,
and the callers are symmetric. For the proposals, the second proposal
of a target is the one that supersedes while the first is being written, and two
requests on one proposal are the race and the retry.

For the AI
ledger, two callers in flight are the pair that races past the guard, the gate, the cap or a
reuse; the rows of both races, and one attempt after them, fit in four. A budget of two is
spent by two calls that each saw it unspent, and exceeded by the two answers of a retried
narrative. A cap of two is reached while one check is on its way. One language under edited
instructions and one under the built-in text are the two ways through the gate, and the
translation between them reaches a language without asking the gate.

Two logins in flight are the two that present one code, and a threshold of two is reached by one
of them while the other waits; two owners are the pair that disable one another. A lock of
one step and a session of one tick both end inside two ticks. Two browsers are the
doubled request and the race for a subject, two invites one redeemed and one revoked; the
third person is the one who comes to a household that has its owner. Six days with
`Keep` = 2 make the first three names old in the end; where no snapshot was made for some days the
count keeps what the age would not. The second name has no date: where it is there, it does not hold the first
name, and does hold the third. Two runs prune the same name. What restores and servers do is on the
first day, since no rule of theirs looks at the date; two
restores are one over what the other left; two failures are one on the way and one on the way
back; the fourth database is the one a server creates under the second restore; two starts of the server
are one before a restore and one under it. Two Actual
accounts and one Ghostfolio account are the fewest in which a group can lose an account to
another; two syncs are one that creates rows and one that must leave them alone. On the third of three
days two dates are settled, so that a backfill may fill one while the nightly job has stored the other.

*The inputs of `calculations`.* A calendar of 15 months from January 2028, which has 29 days in
February and in the second year 28, so that month ends of every length meet starts on the 29th,
30th and 31st; every frequency, both weekend rules, patterns from both ends, intervals 1 and 2,
ends by count and by date. For schedules, hours as instants, with summer time moved to March
1st and 4th so that the probes of a daily job and the ticks of a monthly one cross both ends,
tickers that are down over the due time, and four moments for a run by hand. Request times up to 6 under a
window of 2, with every choice of sweeps. Histories of up to three month ends in five months,
measured or not. Categories of every frequency last seen at each edge of the detection window.
Up to three goals on a pool that may be negative; trends with any months missing. Loans
with and without a payment that covers the interest, over each day of six months. Every
site of five URLs in three hosts (the own one among them), under each redirect mode.

*Runs without a deadlock check.* The bounds end every instance, and a process
that has stopped is a legitimate end.

*Conditions the passing runs state.* `ClaimsAreReal` and `RunningRowsAreLive` are
checked and proved for a database that answers, `EntryIsTheOwner`
and `OneCallAtATime` without refused opens and timers: with
them the code does not keep these (section 5; a timed-out call goes on in the
child beside the next one, which `client.ts` accepts). `PayoffAgreesWithBalance` is stated for
loans anchored on a day every month has.

## 4. Fairness

*JobRunner.* Weak fairness for `Starts(t)` and `Settles(t)`: the serialiser chains
each call to the settled tail of its predecessor, and `withTimeout` settles every
run, with a value, an error or its own timer. A failing database may take either of the two
forms, so each fair action is the disjunction with its failing twin. Nothing makes
a zombie end, a minute pass, a person ask or a process stop.

*ActualWorkers.* Weak fairness for the parent's own callbacks: a released
continuation runs (`Send`, `Finish`), a message or an exit event is delivered,
a timer fires. Nothing makes a worker answer, die or stay alive: that callers
are answered rests on the timers alone, which cover every kind of request.

The other modules have no liveness property: whether a proposal is ever
decided is up to its owner, a provider or a source that never answers is the business of the
job's timeout, which is `JobRunner`'s, and a restore that nobody goes on with stays where it is.

## 5. Where the code and its words disagree

`ai_reuse_violation` is kept as a run: a dry run stores no findings, but answers for the next
dry run of the same question, which reports success and an empty list
(`domain/ai/analysis.ts:672`, against `:364` and `server/routes/ai.ts:359`).

The others are stated in the modules and can be seen by a configuration that is small
enough to give here; each lists only what differs from the run named.

| property (module) | what happens | to see it |
|---|---|---|
| `ClaimsAreReal` (`JobRunner`) | the first writes of `runJob` stand before the `try`; when one throws, the claim stays, and later refreshes of the tenant are refused until a later run of the same job releases it (`jobs/runner.ts:293`, against `:370`) | `runner_answers` with `Outcomes = {"ok"}`, no clock, no refresh, `Spec`, as an INVARIANT |
| `ResetWaitsForRunningJobs` (`JobRunner`) | a refresh and the ticker have both claimed a job, the first to end releases the one key, and a reset is accepted while the second runs (`server/routes/refresh.ts:233`, against `:229`) | `runner_answers` with `Outcomes = {"ok", "timeout"}`, `DbMayFail = FALSE`, 2 refreshes, `Spec`, as a PROPERTY |
| `SingleOwner` (`ActualWorkers`) | an open is refused, its worker is signalled and a second one forked; the first one's exit event deletes the entry of the second, and a third is forked beside it (`adapters/actual/client.ts:135`, against `docs/architecture.md:18`) | `workers_calm` with 2 callers, `MaxRequests = 1`, `OpenMayFail = TRUE`, `MaxOps = 3`, no crash |
| `RefusedApplyWroteNothing` (`Proposals`) | the write lands, its answer does not come in time, `applyRemote` throws, and the row is pending over a changed budget (`domain/ai/proposals.ts:975`, against `:929`) | `proposals_ledger` with only `Budgets <- OneBudget`, no maker, one applier, no crash, 1 proposal, no symmetry |
| `RowsCarryTheBill` (`AiLedger`) | a narrative's first answer is billed and cut off, the second call throws, and the row of the attempt costs nothing, so the guard does not see it (`domain/ai/narrative.ts:658`, against `:645`) | `ai_ledger` with 3 rows and no crash |
| `EveryGroupHasASpeaker` (`AccountMap`) | `setDedupeGroup` refuses a group without a source of truth because it "counts as nothing at all" (`domain/aggregate/accounts.ts:331`), but takes an account out of the group it was in, and if that was its source of truth the rest count as nothing | `networth` with this INVARIANT |
| `NoTwinsInATotal` (`NetWorth`) | the backfill reads the map for Ghostfolio, an owner moves the source of truth of a group to its Actual account, the backfill reads the map for Actual: both accounts of the group are in a settled month, which nothing writes again (`jobs/backfill.ts:210`, against `db/schema.ts:232`, "the same money can never be counted twice") | `networth` with this PROPERTY |
| `SidecarsFollow` (`Backup`) | a server opens the path after the plan was made without sidecars; they are not in the plan, and the copy is installed beside them (`backup/restore.ts:119`, against `:19`, "the single way this could corrupt data") | `backup` with 1 job, 1 fault, 1 restore, 1 start, 2 days, 3 databases, no symmetry, this INVARIANT |
| `FilesFoundAreKept` (`Backup`) | a restore has moved the database and not yet its log, or was killed there; a server that starts creates a database at the path, and SQLite deletes the log, which may hold committed work (`backup/restore.ts:168`, against `:16`, "Nothing is deleted") | the same, with this PROPERTY |
| `NewcomersStay` (`Backup`) | a server creates its database between the look at the target and the rename of the copy, which overwrites it (`backup/restore.ts:179`, against `:174`, "must not have its file overwritten") | the same, with this PROPERTY |
| `FailedChangesNothing` (`Backup`) | the first rename takes effect and reports a failure, a server creates a database at the path, and the test for a move that took effect finds the path it came from occupied: nothing is put back, no failed roll-back is reported, and the restore says "Nothing was changed" (`backup/restore.ts:186`, against `scripts/backup-restore.ts:117`) | the same, with this INVARIANT |

The last four need a server that opens the path under a restore, or after one that was killed, against the
documentation's "stop the server first".

Three more were met while modelling and have no property, because the model's data does not
tell them apart, or states the property without the case:

- The backfill refuses to write an Actual-only history when Ghostfolio is out, since it "draws as
  a fall to zero and back" (`jobs/backfill.ts:276`). It tests this on the chart; when Ghostfolio goes
  out between the chart and `collectAccountValues`, which only logs it, no Ghostfolio account is held and
  the Actual-only history is written. `Collect` allows it (`held` may be empty).
- A loan anchored on the 29th, 30th or 31st: `projectedPayoffDate` clamps to the end of a short
  month, `monthsBetween` counts that month only from the next one on, so on the payoff date itself the
  balance beside it is still shown, against "a payoff date can never disagree with the balance
  shown beside it" (`domain/loan/amortization.ts:131`).
- A budget's diff is read in a mirror that is stale until the next sync
  (`domain/ai/proposals.ts:417`); the module leaves amounts out.

That a rejection may be recorded while a write is in flight is not among them:
`docs/decisions.md` accepts it, and the model allows it.

## 6. What is proved

All theorems hold for every value of the constants that satisfies the named assumptions of the
modules: the orders list each tenant and job once; the kinds of target are disjoint; the sets of
accounts are disjoint and finite; periods, windows, horizons, retentions and the common
denominator are positive; other bounds and rates are natural numbers; months have 28 to 31 days, and the
dates of the runner's clock do not go back.
Where a theorem needs more, it says so in its own `ASSUME`, and the paragraph below says why.

Every safety property of the runs, invariant or action property, is stated by a theorem.

*JobRunner.* `PassAwaits` holds with failing writes too. Types alone are
not inductive: `FinishRun` of a ticker's call reads `pass`, which has a position
only while it is on. The invariant is therefore `TypeInv`: `TypeOK`, that a
process which is down has no queue, run or pass (`DownIsIdle`), and that the
ticker's call exists exactly when a pass is on, at the place the pass is at
(`PassInv`, in three named parts). `ClaimsReal` and `RowsLive`, for a database that
answers, rest on `TypeInv`; the second needs
nothing but types beside itself, because a prune only ever sees settled rows: the
run that prunes has just settled its own, and no other run of the tenant is on.

`ChainsInOrder` needs no such condition. Its invariant `LinesOrdered` says that in a tenant's
line, the run in progress included, the calls of refreshes stand by refresh and within one in registry order, and
that no call there is of a refresh still to come, which is what keeps the order when the next
chain is appended (`LaterRefresh`), whatever claim was lost to let it in. `EndsSettled` is for
a database that answers, and for every registry whose schedules are of the three kinds. The hard part is that a row's
`lastRunAt` may go *back*: a ticker's call is
as old as its pass and may run behind a refresh accepted after the pass began; and that it may
go *past* the pass: a job that a refresh ran after midnight is due again, for a daily schedule, by the
reckoning of the pass's own day. So a job is settled for a pass if it last ran after the pass's instant,
or is not due at it. `LinesAged`
says that a refresh's call is never older than what ran or waits before it, so a job once
settled for the pass stays settled: a job that is not due at an instant is not due there for any later last
run up to it, which is a lemma for each kind of schedule (`NotDueAgain`), and rests, for the daily and
monthly ones, on dates that do not go back. `PassHolds` says that what the pass has walked past is
settled, and that of its present tenant what it *read* as settled still is, though it decides on what it
read; `PassIsPast`, `PassInTime` and `HistoryFinite` (for the count of the history) complete it.

*ActualWorkers.* `IInv` has, beside types: a worker's line is a queue of its operations and only
the head waits (`Lines`); operations and the map name workers that were forked (`Placed`); an id is
pending exactly while one operation awaits it, and 1 is the open's (`Awaited`); ids are below the
next one (`Numbered`); nobody waits for a call older than a shutdown (`LastToGo`). `CallsAreKept` follows, with
every timer, refusal and crash. `OneCall` is stated for calls that cannot time out
(`"call" \notin Timeouts`), since a call given up on goes on in the child: it adds that a request is
in one place and of the kind its sender awaits (`Tracked`), and that the sender of a call in the
child still waits (`CallsAwaited`). `OneOwner` needs an open that neither is
refused nor times out (section 5 shows what a refused one does) and no close, which signals a worker that is slow to end: then nobody is signalled, and the worker that lives,
or whose death the parent has not been told of, is the one the map names (`Alone`).

*Proposals.* `FourKinds` reduces every step, as far as rows and trail go, to
storing, deciding, expiring, or leaving both alone; `TypeCorrect`, `NewestShown` and
`TrailTrue` then take one case each. `AppliedWritten` needs to know that an
answer which is there was preceded by its write (`LandedIsWritten`). `Implements` is the
refinement: initial states are initial states of the ledger, and `InsertSuggests`,
`RecordedDecides` and `ExpireRetires` show which step of the ledger each step is.

What the ledger states of itself is proved of the handlers too, under the refinement mapping: one
audit entry for each decision (`EntriesAreDecisions`), one pending card for each target
(`OneCard`, from `NewestShown`), and a decision that is final (`FinalForGood`).

*AiLedger.* Two lemmas, `FirstTurns` and `SecondTurns`, reduce every step to the few shapes of
change the invariants can see: a refusal, a call sent, a call paid once, a row appended with
its effects. `Overspend` needs `Promised`: what the month has spent stays below the budget
plus two answers for every caller that is *idle*. A caller let go by the guard takes its two
answers out of that room and puts them back when it has written its row, which costs no more. `OneVerdict` and
`CapHolds` share `Judging`: at most one check is on its way, it is on a text without a
stored verdict, and the cap has room for it. `ReviewsVetted` needs `Vetting`: a narrative on its way
was let go under a version that is safe, and a safe verdict is never taken back. `ReuseTraced`
follows from the types. `VerdictsKept` joins the three about verdicts.

*LocalLogin.* A code is spent once because a step that was accepted is never later than the row's
last one (`Spent`), which only grows until the password changes. Failures are counted because the
column *is* the number of refusals (`Counted`): the increment is the database's, not the
handler's. A lock lets through only what was in flight because under a standing lock each
guess answered is a login less in flight (`LockHolds`, by cardinalities): their sum stays below the
number of logins. `ChangesEndSessions` needs that a login nothing overtook is about an account that
is open (`OpenUnlessOvertaken`); an owner remains because the one guard looks at the others.

*Onboarding.* The tables change in four ways only: a household with its owner, a viewer by an
invite, an invite made, an invite closed (`StepsOnTables`). The invariant adds that rows name
households there are (`Placed`), that only a redeemed invite names somebody (`Named`), and that a flow in
the table has let nobody through yet (`FreshFlows`).

*Backup.* `NothingIsLost` and the ends of a restore are one invariant, `Whole`: what a restore set out to replace
survives the moves because the restore knows what lies aside, even of the one move whose answer it
cannot trust, and the end it reports is right for the same reason. `Early` says that nothing moved before the
first move; `InOrder` that the database goes first and the copy last, and all comes back in reverse;
`Unmoved`, `LiesAside` and `Doubtful` where each file is before, after and during the doubtful move;
`PutBack` where it is once the roll-back has passed it; `CopyIsPlaced` where the copy is. A server under
the restore is what makes it long: whatever it creates has a number that no restore has
seen (`Numbered`, `Newcomers`), and sidecars appear only where a server opened the path
(`SidecarsGone`). That the test for a failed move is right (`TookEffect` looks at which of its two
ends is there) is where `RestoreEndsWhole` would break, and is its mutant.

`NamesAreWhole` rests on `OwnScratch`: no two runs have scratch files of one name, and a run that is about
to rename has sealed its own, in spite of what a killed run of the same day left in them.

`RetentionKept` is about a list that is stale: a run unlinks what was old when it listed the
directory, and an overlapping run publishes and unlinks since. `Dooms` says that every name a run
still means to unlink has `Keep` newer ones in the directory *now*. It is inductive because each run unlinks its
names from the oldest up, so what another may still take away above a name is doomed itself.

*NetWorth.* `OneSpeaker` rests on `MapInv`: an account belongs to the set its group was made for
(`Belongs`), at most one of a group speaks (`Alone`), a group that has lost none of its
accounts has a speaker (`Voiced`), and an account that does not count was left out by an answer
(`LeftOutByAnswer`). `DecisionsStand` needs `Answered`: a source of truth is decided
together with the group or inside one that only a decision gives up, so a derived mirror, which
writes both fields, never meets a decided one on an account whose group is undecided.
`TwinsCountOnce` follows from `Spoken`: of twins, a job holds only those that were a source of truth at one
of its reads (`TwinsSpeak` for the first, `StillSpoken` for the second), and at one read there is one
(`Alone`). The nightly job reads once, so it never holds both; the backfill holds both only if each spoke
once. `StoredDatesAreLeft` needs that the months
left to fill had no row when the job began.

*The calculations.* Most of them walk: a counter, a chain of redirects, a loan's balance, a search for
an occurrence. A walk is a function defined by recursion, so two things have to be proved
before it can be used: that such a function exists (`WalkExists`), and that what holds at the start
and is kept by a step holds everywhere (`InductionUpTo`). Both come from the numbers being well founded:
a set of numbers that has a value missing has a least one. `FiniteInduction` is the same for
finite sets, from their cardinalities; sums over any finite index set (`SumsAdd` and the lemmas around
it) and the places an element has in an order (`FirstAreCounted`) rest on it. A calculation's promise
counts where the code walks, so each proof ends in an equality of counts, by a bijection: the
occurrences of a recurrence are the multiples of its interval (`StepsAreTallied`,
`PeriodsAreMultiples`, `WalksMatch`), and a month's days of one weekday are seven apart
(`WeekdaysAreSevenApart`).

| theorem | for every | and where it stops |
|---|---|---|
| `CountsEveryWindow` | sequence of requests in time order, any sweeps | |
| `FollowingIsSafe` | set of URLs, site over it, mode, limit | |
| `MonthsAreEarned` | history with one entry a month, any band | |
| `ExpandsInFull` | recurrence, window, slack of two days or more | a window the calendar holds; one that happens once has no end |
| `SplitsInFull`, `CategoriesAddUp` | payment, month, number of linked payments; finite set of schedules | |
| `SlotsAreKept` | finite set of ticks after the last run, due day and hour, clock changes anywhere, run by hand | |
| `NextRunsAreFound` | daily job and last run, two days of probes or more | an hour of 23 that the clock skips (below) |
| `BillsLandOnce`, `SpentOnce` | category; finite set of them, any typical spend | |
| `PoolsAreSplit` | sequence of goals, pool of either sign | the common denominator is a multiple of each goal's months left |
| `GoalsAreReached`, `SavingReaches` | target, rate, gaps in the snapshots; amount and months | a trend that grows alike every month, in whole cents |
| `PayoffsAgree` | loan, rate, date | anchored on a day every month has (section 5) |

From these follow the properties of the run, for every value of the constants that its literal
inputs make sense for: `WindowsAreCounted`, `RedirectsStayGuarded`, `OutsideIsEarned` and
`ForecastIsSpentOnce` as they stand; `PaymentsOwedOnce` in a calendar of 15 months or more,
`PayoffDatesAgree` of 7, `SlotRunsKept` of 4 (the months its inputs name); `GoalsKept` if 12 divides the
common denominator.

The proof of `NextRunsAreFound` found its own exception. If the hour the clock skips is 23, as in
Nuuk, which changes with Europe, the day of the change has no hour of 23, and
no later one to stand in for it: a daily job due at 23 is not found on that day, and waits for the next.
The hypothesis is `SummerFrom % 24 # 23`, for that hour only.

*Only model-checked.* Liveness (`PassEnds`, `RefreshesEnd`, `CallersAreAnswered`): its proofs need
`ENABLED` and fairness, which are beyond this prover. The MC modules of components only give
constants their values, so no theorem speaks of them.

## 7. What is not modelled

Values (amounts, texts, names) outside the calculations, cryptography, rendering, prompts and
redaction, floating-point series, generated migrations, the web client. Most of the code by lines is of
this kind: routes that validate and present, schemas, prompts, queries that map rows, and
aggregation that sums them. A component without a module has its reason in `PROJECT.json`. Of the
modelled ones: the `cursor`
column, the audit rows of refreshes and resets, the health snapshot of the gateway, the
one-shot worker of the connection test, the questions an analysis enqueues, the sweep of old
texts, and what a job meets when it runs on while the workers and the database close: `JobRunner`
lets queued calls and the rest of a pass start while stopping, as the code does, and the product
with `ActualWorkers` that would show what they meet is beyond the bounds at which either case happens.

## 8. What could come next

1. Weaker conditions: whether `EntryIsTheOwner` holds when the process may close but no open is
   refused, and what of `EndsAreSettled` is left when writes may fail. TLC has to say first.
2. `Shutdown`: an abstraction of `ActualWorkers` as a worker that answers, refuses or has gone,
   composed with `JobRunner`.
3. The clarification queue, whose promise is that a question is asked once, with the runs that
   enqueue and the people who answer; and the retention sweep with its bookmark.
4. The configurations of section 5 as passing runs, once the code is repaired.
