------------------------------ MODULE AiLedger ------------------------------
(***************************************************************************)
(* One tenant's AI ledger over one month of spending: every attempt at a   *)
(* model call is a row of ai_runs (domain/ai/runs.ts), the budget guard    *)
(* reads the sum of the rows (budget.ts), and five callers share both:     *)
(* analysis, narrative and its translation, prompt validation, category    *)
(* guesses and budget nudges.                                              *)
(*                                                                         *)
(* A run decides everything (gate, reuse, cache, cap, budget) in one turn  *)
(* up to its awaited call, and writes in another when the answer comes.    *)
(* Between the two any other caller may decide or write. Only prompt       *)
(* validations are kept from doing so, by a queue per tenant.              *)
(*                                                                         *)
(* Payloads, texts, models and tokens are left out: a question stands for  *)
(* one reuse key, a review for one language of the month's narrative, and  *)
(* an answer for its price.                                                *)
(***************************************************************************)
EXTENDS Integers, Sequences, FiniteSets

CONSTANTS
  Callers,          \* requests and nightly passes that may be in progress at once
  Questions,        \* reuse keys of analyses: month, language, payload, prompt, model
  Reviews,          \* languages the month's narrative may be written in
  AnalysisBodies,   \* edited versions of analysis.system
  NarrativeBodies,  \* edited versions of narrative.system
  Fenced,           \* the edited versions that contain the data fence's own markers
  BuiltIn,          \* the text this build ships, and every prompt nobody can edit
  PromptFor,        \* the version each question and each review is asked with
  Locked,           \* whether PROMPT_EDITING is "locked", which gates analyses too
  Plain,            \* kinds of run that are only priced, called and recorded
  Budget,           \* the month's allowance
  Estimates,        \* what a call may be expected to cost
  Prices,           \* what an answered call may cost
  MaxPrice,         \* the dearest of them
  DailyCap,         \* PROMPT_VALIDATIONS_PER_DAY
  MayCrash,         \* whether the process may die
  MaxRuns           \* bound on the rows of the ledger

Bodies == AnalysisBodies \cup NarrativeBodies

ASSUME KindsAssumption ==
  /\ AnalysisBodies \cap NarrativeBodies = {}
  /\ BuiltIn \notin Bodies
  /\ Fenced \subseteq Bodies
  /\ Questions \cap Reviews = {}
  /\ PromptFor \in [Questions \cup Reviews -> Bodies \cup {BuiltIn}]
  /\ \A q \in Questions : PromptFor[q] \in AnalysisBodies \cup {BuiltIn}
  /\ \A l \in Reviews : PromptFor[l] \in NarrativeBodies \cup {BuiltIn}
  /\ Plain \subseteq {"category_guess", "budget_nudge"}

ASSUME NumbersAssumption ==
  /\ IsFiniteSet(Callers)
  /\ Locked \in BOOLEAN /\ MayCrash \in BOOLEAN
  /\ Budget \in Nat /\ DailyCap \in Nat /\ MaxRuns \in Nat /\ MaxPrice \in Nat
  /\ Estimates \subseteq Nat
  /\ Prices \subseteq 0 .. MaxPrice

VARIABLES
  runs,     \* ai_runs, oldest first: a row's place is its id
  spent,    \* the month's cost in ai_spend_monthly: the sum over runs
  kept,     \* runs whose findings are in ai_findings, or whose verdict is stored
  review,   \* per language, the run its ai_narratives row came from, or NoRun
  verdict,  \* per edited version, what promptGateState reads from its row
  caller    \* per caller, the call it awaits

vars == <<runs, spent, kept, review, verdict, caller>>

NoRun == 0
Runs == 1 .. Len(runs)
Asks == {"findings", "dryrun", "narrative", "translation", "prompt_validation"} \cup Plain
Kinds == Asks \ {"translation"}
Abouts == Questions \cup Reviews \cup Bodies \cup {BuiltIn}
Status == {"ok", "error", "blocked", "capped", "reused"}
Verdicts == {"unvalidated", "safe", "unsafe"}

\* A row; "charged" is history: what the provider charged for the answers behind it.
Row == [kind : Kinds, about : Abouts, prompt : Bodies \cup {BuiltIn}, status : Status,
        cost : Nat, charged : Nat, from : Nat]

\* A call on its way: "paid" is the price of a first answer that was cut off.
Call == [ask : Asks, about : Abouts, prompt : Bodies \cup {BuiltIn}, paid : Nat,
         retry : BOOLEAN]
Idle == [ask |-> "none"]
Busy == {c \in Callers : caller[c] # Idle}

\* Whether a caller may start: the row it will write must fit the bound.
Ready(c) == caller[c] = Idle /\ Len(runs) + Cardinality(Busy) < MaxRuns

(***************************************************************************)
(* Rows                                                                    *)
(***************************************************************************)
StoredKind(ask) == IF ask = "translation" THEN "narrative" ELSE ask

\* recordRun: one row, at the cost the caller computed.
Record(call, status, cost, charged, from) ==
  /\ runs' = Append(runs, [kind |-> StoredKind(call.ask), about |-> call.about,
                           prompt |-> call.prompt, status |-> status, cost |-> cost,
                           charged |-> charged, from |-> from])
  /\ spent' = spent + cost

To(ask, about, prompt) ==
  [ask |-> ask, about |-> about, prompt |-> prompt, paid |-> 0, retry |-> FALSE]

\* A refusal is a row too, and costs nothing.
Refuse(call, status) ==
  /\ Record(call, status, 0, 0, NoRun)
  /\ UNCHANGED caller

\* findReusableRun: the newest answer to the same question.
AnyMatch(kind, q) == {i \in Runs : runs[i].kind = kind /\ runs[i].about = q}
Matching(kind, q) == {i \in AnyMatch(kind, q) : runs[i].status = "ok"}
Newest(i, ids) == i \in ids /\ \A j \in ids : j <= i

\* countRunsSince, over the day the model spans: the checks that reached the judge.
ChecksToday ==
  {i \in Runs : runs[i].kind = "prompt_validation" /\ runs[i].status \in {"ok", "error"}}

(***************************************************************************)
(* The guards                                                              *)
(***************************************************************************)
\* checkBudget.
Unguarded(e) == e <= Budget
Allowed(e) == spent < Budget /\ e <= Budget - spent

\* isGatedKey and promptGateState together: may a run use this version?
Gated(b) == b \in NarrativeBodies \/ (b \in AnalysisBodies /\ Locked)
Usable(b) == Gated(b) => verdict[b] = "safe"

\* Priced, then sent or refused: the end of every run's first turn.
Ask(c, call) ==
  \E e \in Estimates :
    \/ /\ Allowed(e)
       /\ caller' = [caller EXCEPT ![c] = call]
       /\ UNCHANGED <<runs, spent>>
    \/ ~Allowed(e) /\ Refuse(call, "capped")

(***************************************************************************)
(* First turns                                                             *)
(***************************************************************************)
\* runAnalysis. A dry run is the same run under a kind of its own, never forced.
Analyse(c, kind, q, force) ==
  LET call == To(kind, q, PromptFor[q])
      matching == Matching(kind, q)
      serve == ~force /\ matching # {}
  IN /\ Ready(c)
     /\ kind = "dryrun" => ~force
     /\ \/ ~Usable(call.prompt) /\ Refuse(call, "blocked")
        \/ /\ Usable(call.prompt) /\ serve
           /\ \E i \in matching :
                Newest(i, matching) /\ Record(call, "reused", 0, 0, i)
           /\ UNCHANGED caller
        \/ Usable(call.prompt) /\ ~serve /\ Ask(c, call)
     /\ UNCHANGED <<kept, review, verdict>>

\* runNarrative: a month that has its review is served without a row.
Narrate(c, l, force) ==
  LET call == To("narrative", l, PromptFor[l])
  IN /\ Ready(c)
     /\ force \/ review[l] = NoRun
     /\ \/ ~Usable(call.prompt) /\ Refuse(call, "blocked")
        \/ Usable(call.prompt) /\ Ask(c, call)
     /\ UNCHANGED <<kept, review, verdict>>

\* translateNarrative, with a prompt of the code's own.
Translate(c, from, to, force) ==
  /\ Ready(c)
  /\ from # to
  /\ review[from] # NoRun
  /\ force \/ review[to] = NoRun
  /\ Ask(c, To("translation", to, BuiltIn))
  /\ UNCHANGED <<kept, review, verdict>>

\* runExclusively: a check starts when no other check of the tenant is in progress.
Unqueued == TRUE
CheckMayStart == \A d \in Callers : caller[d].ask # "prompt_validation"

\* storePromptValidation: a refusal under the same rules is never overwritten.
Judged(b, v) ==
  verdict' = [verdict EXCEPT ![b] = IF @ = "unsafe" THEN @ ELSE v]

CapReached == Cardinality(ChecksToday) >= DailyCap

\* validateOnce. A version with a verdict, or not gated, is answered without a row.
Validate(c, b) ==
  LET call == To("prompt_validation", b, BuiltIn)
  IN /\ Ready(c)
     /\ CheckMayStart
     /\ Gated(b) /\ verdict[b] = "unvalidated"
     /\ \/ CapReached /\ Refuse(call, "blocked") /\ UNCHANGED verdict
        \/ /\ ~CapReached /\ b \in Fenced
           /\ Judged(b, "unsafe")
           /\ UNCHANGED <<runs, spent, caller>>
        \/ ~CapReached /\ b \notin Fenced /\ Ask(c, call) /\ UNCHANGED verdict
     /\ UNCHANGED <<kept, review>>

\* runCategoryGuess and runBudgetNudge: what they propose is module Proposals' matter.
AskPlainly(c, kind) ==
  /\ Ready(c)
  /\ Ask(c, To(kind, BuiltIn, BuiltIn))
  /\ UNCHANGED <<kept, review, verdict>>

(***************************************************************************)
(* Second turns: the call returns                                          *)
(***************************************************************************)
Prose == {"narrative", "translation"}
Done(c) == caller' = [caller EXCEPT ![c] = Idle]

\* The call throws. The row is priced at nothing, whatever was paid before.
CallFails(c) ==
  /\ caller[c] # Idle
  /\ Record(caller[c], "error", 0, caller[c].paid, NoRun)
  /\ Done(c)
  /\ UNCHANGED <<kept, review, verdict>>

\* callNarrativeModel: an answer cut off at the ceiling is asked for once more.
CutOff(c) ==
  /\ caller[c].ask \in Prose /\ ~caller[c].retry
  /\ \E p \in Prices : caller' = [caller EXCEPT ![c].paid = p, ![c].retry = TRUE]
  /\ UNCHANGED <<runs, spent, kept, review, verdict>>

\* An answer nobody can use (unparseable, blank, cut off twice) is billed all the same.
AnswerRejected(c) ==
  /\ caller[c] # Idle
  /\ \E p \in Prices :
       Record(caller[c], "error", caller[c].paid + p, caller[c].paid + p, NoRun)
  /\ Done(c)
  /\ UNCHANGED <<kept, review, verdict>>

\* What a usable answer leaves behind besides its row.
Shown(call, i) == review' = [review EXCEPT ![call.about] = i]

Effects(call, i) ==
  /\ kept' = IF call.ask \in {"findings", "prompt_validation"} THEN kept \cup {i} ELSE kept
  /\ IF call.ask \in Prose THEN Shown(call, i) ELSE UNCHANGED review
  /\ IF call.ask = "prompt_validation"
     THEN \E v \in {"safe", "unsafe"} : Judged(call.about, v)
     ELSE UNCHANGED verdict

AnswerUsed(c) ==
  /\ caller[c] # Idle
  /\ \E p \in Prices :
       Record(caller[c], "ok", caller[c].paid + p, caller[c].paid + p, NoRun)
  /\ Effects(caller[c], Len(runs) + 1)
  /\ Done(c)

(***************************************************************************)
(* The process dies: between two turns, or between the row of an answer    *)
(* and what it leaves behind, which are separate transactions.             *)
(***************************************************************************)
Crash ==
  /\ MayCrash
  /\ \/ UNCHANGED <<runs, spent>>
     \/ \E c \in Busy, p \in Prices :
          Record(caller[c], "ok", caller[c].paid + p, caller[c].paid + p, NoRun)
  /\ caller' = [c \in Callers |-> Idle]
  /\ UNCHANGED <<kept, review, verdict>>

(***************************************************************************)
Init ==
  /\ runs = <<>>
  /\ spent = 0
  /\ kept = {}
  /\ review = [l \in Reviews |-> NoRun]
  /\ verdict \in [Bodies -> {"unvalidated", "safe"}]
  /\ \A b \in Fenced : verdict[b] = "unvalidated"
  /\ caller = [c \in Callers |-> Idle]

Begin(c) ==
  \/ \E kind \in {"findings", "dryrun"}, q \in Questions, force \in BOOLEAN :
       Analyse(c, kind, q, force)
  \/ \E l \in Reviews, force \in BOOLEAN : Narrate(c, l, force)
  \/ \E from, to \in Reviews, force \in BOOLEAN : Translate(c, from, to, force)
  \/ \E b \in Bodies : Validate(c, b)
  \/ \E kind \in Plain : AskPlainly(c, kind)

End(c) == CallFails(c) \/ CutOff(c) \/ AnswerRejected(c) \/ AnswerUsed(c)

Next == (\E c \in Callers : Begin(c) \/ End(c)) \/ Crash

Spec == Init /\ [][Next]_vars

(***************************************************************************)
(* Properties                                                              *)
(***************************************************************************)
\* Rows, calls and what they leave behind keep their shapes.
TypeOK ==
  /\ runs \in Seq(Row)
  /\ spent \in Nat
  /\ kept \subseteq Nat
  /\ review \in [Reviews -> Nat]
  /\ verdict \in [Bodies -> Verdicts]
  /\ caller \in [Callers -> Call \cup {Idle}]

\* The budget is read before a call and charged after it, so callers in flight do
\* not see each other: the month may end above its budget, but never by more than
\* what one call of each caller costs (two answers, when the first was cut off), and
\* never at all under a budget of zero.
OverspendIsBounded ==
  spent > 0 => Budget > 0 /\ spent < Budget + 2 * MaxPrice * Cardinality(Callers)

\* However checks of one text overlap, one verdict on it is ever stored: a refusal
\* cannot be shaken loose by asking the judge twice at once. (A verdict the process
\* died over before storing it is asked for again.)
OneVerdictPerBody ==
  \A i, j \in Runs \cap kept :
    (/\ runs[i].kind = "prompt_validation" /\ runs[j].kind = "prompt_validation"
     /\ runs[i].about = runs[j].about) => i = j

\* However checks overlap or fail, a day never buys more of them than the cap.
DailyCapHolds == Cardinality(ChecksToday) <= DailyCap

\* What a reader is shown as the month's review is a usable answer in that language,
\* written under instructions that have passed their check, even if the verdict
\* came, the process died or another run finished while it was being written.
ShownReviewsAreVetted ==
  \A l \in Reviews : review[l] # NoRun =>
    /\ review[l] \in Runs
    /\ runs[review[l]].kind = "narrative" /\ runs[review[l]].about = l
    /\ runs[review[l]].status = "ok"
    /\ Gated(runs[review[l]].prompt) => verdict[runs[review[l]].prompt] = "safe"

\* The check of a text in one: it is judged once, within the day's cap, and no
\* review is shown that was written under a text that did not pass.
VerdictsAreKept == OneVerdictPerBody /\ DailyCapHolds /\ ShownReviewsAreVetted

\* Every row that says "reused" names one real, earlier call that answered the same
\* question: never a refusal, a failure, or another reuse.
ReuseTracesToOneCall ==
  \A i \in Runs : runs[i].status = "reused" =>
    /\ runs[i].from \in 1 .. i - 1
    /\ runs[runs[i].from].status = "ok"
    /\ runs[runs[i].from].kind = runs[i].kind
    /\ runs[runs[i].from].about = runs[i].about

\* A served answer has its findings where they are read back from: the comment in
\* analysis.ts takes "the stored finding" as the ground truth of every reuse.
ReusedFindingsAreKept ==
  \A i \in Runs : runs[i].status = "reused" => runs[i].from \in kept

\* What the provider charged for the answers behind a row is the row's cost: both
\* attempts at a narrative are billed.
RowsCarryTheBill == \A i \in Runs : runs[i].cost = runs[i].charged
==============================================================================
