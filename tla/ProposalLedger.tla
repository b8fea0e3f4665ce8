--------------------------- MODULE ProposalLedger ---------------------------
(***************************************************************************)
(* What the propose-and-apply layer promises, whatever happens in between: *)
(* a suggestion waits until it is decided, is decided once and for good,   *)
(* and leaves an audit entry exactly when a person decided it. A newer     *)
(* suggestion about the same target retires the older one.                 *)
(***************************************************************************)
EXTENDS Integers

CONSTANTS
  Ids,      \* the proposals that may ever be made
  Targets   \* what a proposal may be about

VARIABLES
  status,   \* per proposal: "none" until it is made, then its status
  about,    \* per proposal, its target
  entries   \* per proposal, how many audit entries speak of it

vars == <<status, about, entries>>

Status == {"none", "pending", "applied", "rejected", "expired"}
Decided == {"applied", "rejected"}
PendingAbout(t) == {p \in Ids : status[p] = "pending" /\ about[p] = t}

Init ==
  /\ status = [p \in Ids |-> "none"]
  /\ about \in [Ids -> Targets]
  /\ entries = [p \in Ids |-> 0]

Suggest(p, t) ==
  /\ status[p] = "none"
  /\ status' = [q \in Ids |-> IF q = p THEN "pending"
                              ELSE IF q \in PendingAbout(t) THEN "expired" ELSE status[q]]
  /\ about' = [about EXCEPT ![p] = t]
  /\ UNCHANGED entries

Decide(p, verdict) ==
  /\ status[p] = "pending"
  /\ status' = [status EXCEPT ![p] = verdict]
  /\ entries' = [entries EXCEPT ![p] = @ + 1]
  /\ UNCHANGED about

Retire(S) ==
  /\ \A p \in S : status[p] = "pending"
  /\ status' = [p \in Ids |-> IF p \in S THEN "expired" ELSE status[p]]
  /\ UNCHANGED <<about, entries>>

Next ==
  \/ \E p \in Ids, t \in Targets : Suggest(p, t)
  \/ \E p \in Ids, verdict \in Decided : Decide(p, verdict)
  \/ \E S \in SUBSET Ids : Retire(S)

Spec == Init /\ [][Next]_vars

(***************************************************************************)
(* What follows from the promise                                           *)
(***************************************************************************)
TypeOK ==
  /\ status \in [Ids -> Status]
  /\ about \in [Ids -> Targets]
  /\ entries \in [Ids -> Nat]

\* A person's decision leaves one audit entry; nothing else leaves any.
OneEntryPerDecision ==
  \A p \in Ids : entries[p] = (IF status[p] \in Decided THEN 1 ELSE 0)

\* At most one card waits for each target.
OnePendingPerTarget ==
  \A p, q \in Ids : status[p] = "pending" /\ status[q] = "pending" /\ about[p] = about[q]
                      => p = q

\* A decided or retired proposal stays as it is.
KeepsTheDecided ==
  \A p \in Ids : status[p] \notin {"none", "pending"} => status'[p] = status[p]
DecisionIsFinal == [][KeepsTheDecided]_vars
=============================================================================
