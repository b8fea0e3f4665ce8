------------------------------ MODULE Proposals ------------------------------
(***************************************************************************)
(* Propose-and-apply (domain/ai/proposals.ts): suggestions are stored as   *)
(* pending rows, and an owner applies, adjusts or rejects them while the   *)
(* generators go on making new ones. Two kinds of change are written to    *)
(* Actual, outside and before the local transaction that records them.     *)
(*                                                                         *)
(* An await on a value already there gives no other request a turn, so a   *)
(* handler is cut into two actions only where it awaits Actual. What the   *)
(* values are is left out: whether a diff is empty is a free choice.       *)
(***************************************************************************)
EXTENDS Integers, Sequences, FiniteSets

CONSTANTS
  Meta,            \* targets of category_meta.set: rows of Balancr's own table
  Transactions,    \* targets of transaction_category.set, read and written in Actual
  Budgets,         \* targets of budget_amount.set: written in Actual, read in a mirror
  Makers,          \* generators that may be storing a proposal at the same time
  Appliers,        \* apply requests that may be in progress at the same time
  RemoteMayGiveUp, \* whether the gateway may give up on a write it has sent
  MayCrash,        \* whether the process may die
  MaxProposals     \* bound on the proposals made

Targets == Meta \cup Transactions \cup Budgets
Ids == 1 .. MaxProposals

ASSUME KindAssumption ==
  /\ Meta \cap Transactions = {} /\ Meta \cap Budgets = {} /\ Transactions \cap Budgets = {}
  /\ Targets # {}

ASSUME BoundAssumption ==
  /\ RemoteMayGiveUp \in BOOLEAN /\ MayCrash \in BOOLEAN
  /\ MaxProposals \in Nat

VARIABLES
  made,      \* how many proposals there are: ids 1 .. made
  proposal,  \* the proposals table
  lapsed,    \* proposals whose expiresAt has passed
  audit,     \* per proposal, the actions of the audit rows that name it
  maker,     \* per generator, the transaction whose diff it awaits
  applier,   \* per apply request, where it stands
  stray,     \* writes whose request was given up on and that Actual may still do
  wrote      \* history: proposals whose value has been put where it belongs

vars == <<made, proposal, lapsed, audit, maker, applier, stray, wrote>>
table == <<made, proposal, lapsed, audit>>

Status == {"none", "pending", "applied", "rejected", "expired"}
Row == [target : Targets, status : Status]
NoRow == [target |-> CHOOSE t \in Targets : TRUE, status |-> "none"]
Action == {"proposal.apply", "proposal.reject"}

Quiet == [at |-> "idle"]
Making == [at : {"diff"}, target : Transactions]
Applying == [at : {"diff", "write"}, id : Ids, landed : BOOLEAN]
At(step, p) == [at |-> step, id |-> p, landed |-> FALSE]

Pending(p) == proposal[p].status = "pending"

(***************************************************************************)
(* createProposal. Its transaction retires whatever is pending for the     *)
(* target at that moment, and inserts.                                     *)
(***************************************************************************)
RetiredNothing(t) == {}
Superseded(t) == {q \in Ids : Pending(q) /\ proposal[q].target = t}

Insert(t) ==
  /\ made < MaxProposals
  /\ made' = made + 1
  /\ proposal' =
       [q \in Ids |->
          IF q = made + 1 THEN [target |-> t, status |-> "pending"]
          ELSE IF q \in Superseded(t) THEN [proposal[q] EXCEPT !.status = "expired"]
          ELSE proposal[q]]

\* For a value kept here the diff is at hand.
Create(t) ==
  /\ t \notin Transactions
  /\ Insert(t)
  /\ UNCHANGED <<lapsed, audit, maker, applier, stray, wrote>>

\* For a transaction it is awaited first ...
AskDiff(g, t) ==
  /\ maker[g] = Quiet
  /\ maker' = [maker EXCEPT ![g] = [at |-> "diff", target |-> t]]
  /\ UNCHANGED <<table, applier, stray, wrote>>

\* ... and stored when it comes, or refused when it is empty or the read failed.
CreateAfterDiff(g) ==
  /\ maker[g] # Quiet
  /\ maker' = [maker EXCEPT ![g] = Quiet]
  /\ \/ Insert(maker[g].target)
     \/ UNCHANGED <<made, proposal>>
  /\ UNCHANGED <<lapsed, audit, applier, stray, wrote>>

(***************************************************************************)
(* Recording a decision, in one transaction with the status                *)
(***************************************************************************)
Recorded(p, status, action) ==
  /\ proposal' = [proposal EXCEPT ![p].status = status]
  /\ audit' = [audit EXCEPT ![p] = Append(@, action)]

\* rejectProposal.

Unapplied(p) == proposal[p].status \in {"pending", "rejected"}
Declinable(p) == Pending(p)

Declined(p) ==
  /\ Declinable(p)
  /\ Recorded(p, "rejected", "proposal.reject")
  /\ UNCHANGED made

Reject(p) ==
  /\ Declined(p)
  /\ UNCHANGED <<lapsed, maker, applier, stray, wrote>>

\* adjustProposal: the owner's amount replaces the suggestion, or declines it
\* when it is the amount the category already has.
Adjust(p) ==
  /\ Pending(p)
  /\ proposal[p].target \in Budgets
  /\ \/ Declined(p)
     \/ Insert(proposal[p].target) /\ UNCHANGED audit
  /\ UNCHANGED <<lapsed, maker, applier, stray, wrote>>

\* expireProposals, the nightly job: every pending proposal past its date.
Expire ==
  /\ proposal' = [q \in Ids |-> IF Pending(q) /\ q \in lapsed
                                THEN [proposal[q] EXCEPT !.status = "expired"]
                                ELSE proposal[q]]
  /\ UNCHANGED <<made, lapsed, audit, maker, applier, stray, wrote>>

(***************************************************************************)
(* applyProposal                                                           *)
(***************************************************************************)
Appliable(p) == Pending(p) /\ p \notin lapsed

\* A category_meta.set has nothing to await: checked, applied and recorded.
ApplyHere(p) ==
  /\ Appliable(p)
  /\ proposal[p].target \in Meta
  /\ Recorded(p, "applied", "proposal.apply")
  /\ wrote' = wrote \cup {p}
  /\ UNCHANGED <<made, lapsed, maker, applier, stray>>

\* Phase 1 begins: a transaction's diff is awaited; a budget's is at hand, so
\* its write is asked for at once.
BeginApply(a, p) ==
  /\ applier[a] = Quiet
  /\ Appliable(p)
  /\ \/ /\ proposal[p].target \in Transactions
        /\ applier' = [applier EXCEPT ![a] = At("diff", p)]
     \/ /\ proposal[p].target \in Budgets
        /\ applier' = [applier EXCEPT ![a] = At("write", p)]
  /\ UNCHANGED <<table, maker, stray, wrote>>

DiffComes(a) ==
  /\ applier[a].at = "diff"
  /\ applier' = [applier EXCEPT ![a].at = "write"]
  /\ UNCHANGED <<table, maker, stray, wrote>>

\* Actual does the write: the row still knows nothing of it.
WriteLands(a) ==
  /\ applier[a].at = "write"
  /\ ~applier[a].landed
  /\ wrote' = wrote \cup {applier[a].id}
  /\ applier' = [applier EXCEPT ![a].landed = TRUE]
  /\ UNCHANGED <<table, maker, stray>>

AnyAnswer(a) == TRUE
WriteSucceeded(a) == applier[a].landed

AsItWas(p) == TRUE
StillPending(p) == Pending(p)

\* Phase 2, when the write is confirmed: record the decision, unless somebody
\* else has decided in the meantime.
Commit(a) ==
  LET p == applier[a].id IN
  /\ applier[a].at = "write"
  /\ WriteSucceeded(a)
  /\ IF StillPending(p)
     THEN Recorded(p, "applied", "proposal.apply")
     ELSE UNCHANGED <<proposal, audit>>
  /\ applier' = [applier EXCEPT ![a] = Quiet]
  /\ UNCHANGED <<made, lapsed, maker, stray, wrote>>

\* The diff or the write is refused: nothing was written, nothing is recorded.
RemoteFails(a) ==
  /\ applier[a] # Quiet
  /\ ~applier[a].landed
  /\ applier' = [applier EXCEPT ![a] = Quiet]
  /\ UNCHANGED <<table, maker, stray, wrote>>

\* The gateway gives up: its timer wins, or the worker exits before it replies.
\* The write has landed, or the worker may still have it.
RemoteGivesUp(a) ==
  /\ RemoteMayGiveUp
  /\ applier[a].at = "write"
  /\ stray' = IF applier[a].landed THEN stray ELSE stray \cup {applier[a].id}
  /\ applier' = [applier EXCEPT ![a] = Quiet]
  /\ UNCHANGED <<table, maker, wrote>>

StrayLands(p) ==
  /\ p \in stray
  /\ stray' = stray \ {p}
  /\ wrote' = wrote \cup {p}
  /\ UNCHANGED <<table, maker, applier>>

(***************************************************************************)
(* Around it                                                               *)
(***************************************************************************)
\* The date a proposal expires on goes by.
Lapse(p) ==
  /\ Pending(p)
  /\ p \notin lapsed
  /\ lapsed' = lapsed \cup {p}
  /\ UNCHANGED <<made, proposal, audit, maker, applier, stray, wrote>>

\* The process dies with its requests, and its worker with the writes it held.
Crash ==
  /\ MayCrash
  /\ maker' = [g \in Makers |-> Quiet]
  /\ applier' = [a \in Appliers |-> Quiet]
  /\ stray' = {}
  /\ UNCHANGED <<table, wrote>>

Init ==
  /\ made = 0
  /\ proposal = [p \in Ids |-> NoRow]
  /\ lapsed = {}
  /\ audit = [p \in Ids |-> <<>>]
  /\ maker = [g \in Makers |-> Quiet]
  /\ applier = [a \in Appliers |-> Quiet]
  /\ stray = {}
  /\ wrote = {}

Next ==
  \/ \E t \in Targets : Create(t)
  \/ \E g \in Makers, t \in Transactions : AskDiff(g, t)
  \/ \E g \in Makers : CreateAfterDiff(g)
  \/ \E p \in Ids : Reject(p) \/ Adjust(p) \/ ApplyHere(p) \/ StrayLands(p) \/ Lapse(p)
  \/ \E a \in Appliers, p \in Ids : BeginApply(a, p)
  \/ \E a \in Appliers :
       DiffComes(a) \/ WriteLands(a) \/ Commit(a) \/ RemoteFails(a) \/ RemoteGivesUp(a)
  \/ Expire
  \/ Crash

Spec == Init /\ [][Next]_vars

(***************************************************************************)
(* Properties                                                              *)
(***************************************************************************)

\* Type invariant: rows, audit entries and requests in progress keep the shapes
\* the schema and the handlers give them, and ids are used in order.
TypeOK ==
  /\ made \in 0 .. MaxProposals
  /\ proposal \in [Ids -> Row]
  /\ \A p \in Ids : p <= made <=> proposal[p].status # "none"
  /\ lapsed \subseteq Ids
  /\ audit \in [Ids -> Seq(Action)]
  /\ maker \in [Makers -> Making \cup {Quiet}]
  /\ applier \in [Appliers -> Applying \cup {Quiet}]
  /\ stray \subseteq Ids /\ wrote \subseteq Ids

\* The card on the screen is the newest suggestion for its target: nothing older
\* is ever left waiting beside it, however the generators interleave.
PendingIsNewest ==
  \A p, q \in Ids :
    Pending(p) /\ q > p /\ q <= made => proposal[q].target # proposal[p].target

\* The audit trail of a proposal is exactly its decision, once: two requests that
\* race, or a retry, never leave two entries, and an expiry leaves none.
TrailIsTheDecision ==
  \A p \in Ids :
    audit[p] = CASE proposal[p].status = "applied" -> <<"proposal.apply">>
                 [] proposal[p].status = "rejected" -> <<"proposal.reject">>
                 [] OTHER -> <<>>

\* An applied proposal was really written before it was recorded, even when an
\* earlier attempt at it failed, timed out or died with the process.
AppliedIsWritten == \A p \in Ids : proposal[p].status = "applied" => p \in wrote

\* The layer keeps the promise ProposalLedger states.
Ledger == INSTANCE ProposalLedger WITH
  status <- [p \in Ids |-> proposal[p].status],
  about <- [p \in Ids |-> proposal[p].target],
  entries <- [p \in Ids |-> Len(audit[p])]

\* Every step of the handlers is a step of the ledger, or changes nothing in it.
KeepsTheLedger == Ledger!Spec

(***************************************************************************)
(* What the source says and the code does not do                           *)
(***************************************************************************)

\* proposals.ts:930: when applyRemote throws, the proposal stays pending and the
\* write did not happen: nothing pending, with no request at work on it, has been
\* written to Actual.
RefusedApplyWroteNothing ==
  \A p \in wrote :
    Pending(p) => \E a \in Appliers : applier[a] # Quiet /\ applier[a].id = p
==============================================================================
