--------------------------- MODULE ProposalsProofs ---------------------------
(***************************************************************************)
(* Proofs about Proposals, for every set of targets, generators and apply  *)
(* requests and every bound: the rows keep their shape, the card shown is  *)
(* the newest, the trail is the decision, an applied change was written,   *)
(* and the handlers implement ProposalLedger.                              *)
(***************************************************************************)
EXTENDS Proposals, TLAPS

LEMMA NoRowIsRow == NoRow \in Row /\ NoRow.status = "none"
<1>1. PICK some \in Targets : TRUE  BY KindAssumption
<1>2. (CHOOSE t \in Targets : TRUE) \in Targets  BY <1>1
<1> QED  BY <1>2 DEF NoRow, Row, Status

\* The request an action speaks of, once it is known to be busy.
LEMMA BusyMaker ==
  ASSUME TypeOK, NEW g \in Makers, maker[g] # Quiet
  PROVE  maker[g] \in Making /\ maker[g].target \in Transactions
BY DEF TypeOK, Making

LEMMA BusyApplier ==
  ASSUME TypeOK, NEW a \in Appliers, applier[a] # Quiet
  PROVE  applier[a] \in Applying /\ applier[a].id \in Ids
BY DEF TypeOK, Applying

LEMMA WritingIsBusy ==
  ASSUME NEW a \in Appliers, applier[a].at \in {"diff", "write"}
  PROVE  applier[a] # Quiet
BY DEF Quiet

\* What storing a proposal does to the table.
LEMMA InsertKeepsRows ==
  ASSUME TypeOK, NEW t \in Targets, Insert(t)
  PROVE  /\ made + 1 \in Ids
         /\ made' \in 0 .. MaxProposals
         /\ proposal' \in [Ids -> Row]
         /\ \A p \in Ids : p <= made' <=> proposal'[p].status # "none"
<1>1. made + 1 \in Ids /\ made' \in 0 .. MaxProposals /\ made' = made + 1
  BY BoundAssumption DEF TypeOK, Insert, Ids
<1>2. [target |-> t, status |-> "pending"] \in Row  BY DEF Row, Status
<1>3. \A q \in Ids : [proposal[q] EXCEPT !.status = "expired"] \in Row
  BY DEF TypeOK, Row, Status
<1>4. proposal' \in [Ids -> Row]  BY <1>2, <1>3 DEF TypeOK, Insert
<1>5. ASSUME NEW p \in Ids  PROVE p <= made' <=> proposal'[p].status # "none"
  <2>1. CASE p = made + 1  BY <2>1, <1>1 DEF Insert, TypeOK, Ids
  <2>2. CASE p # made + 1
    <3>1. proposal'[p].status # "none" <=> proposal[p].status # "none"
      BY <2>2 DEF Insert, Superseded, Pending, TypeOK, Row
    <3>2. p <= made' <=> p <= made  BY <2>2, <1>1 DEF TypeOK, Ids
    <3> QED  BY <3>1, <3>2 DEF TypeOK
  <2> QED  BY <2>1, <2>2
<1> QED  BY <1>1, <1>4, <1>5

\* Deciding a proposal keeps the rows and the audit entries well-formed.
LEMMA RecordedKeepsRows ==
  ASSUME TypeOK, NEW p \in Ids, Pending(p),
         NEW s \in {"applied", "rejected"}, NEW c \in Action, Recorded(p, s, c)
  PROVE  /\ proposal' \in [Ids -> Row]
         /\ \A q \in Ids : q <= made <=> proposal'[q].status # "none"
         /\ audit' \in [Ids -> Seq(Action)]
<1>1. [proposal[p] EXCEPT !.status = s] \in Row  BY DEF TypeOK, Row, Status
<1>2. proposal' \in [Ids -> Row]  BY <1>1 DEF TypeOK, Recorded
<1>3. proposal[p].status # "none"  BY DEF Pending
<1>4. \A q \in Ids : q <= made <=> proposal'[q].status # "none"
  BY <1>3 DEF TypeOK, Recorded, Row
<1>5. Append(audit[p], c) \in Seq(Action)  BY DEF TypeOK
<1>6. audit' \in [Ids -> Seq(Action)]  BY <1>5 DEF TypeOK, Recorded
<1> QED  BY <1>2, <1>4, <1>6

LEMMA RecordedKeepsTargets ==
  ASSUME TypeOK, NEW d \in Ids, Pending(d), NEW s, NEW c, Recorded(d, s, c)
  PROVE  \A p \in Ids : proposal'[p].target = proposal[p].target /\ (Pending(p)' => Pending(p))
<1> TAKE p \in Ids
<1>1. CASE p = d  BY <1>1 DEF Recorded, TypeOK, Row
<1>2. CASE p # d  BY <1>2 DEF Recorded, Pending, TypeOK, Row
<1> QED  BY <1>1, <1>2

LEMMA TypeInit == Init => TypeOK
<1> SUFFICES ASSUME Init PROVE TypeOK  OBVIOUS
<1>1. made \in 0 .. MaxProposals  BY BoundAssumption DEF Init
<1>2. proposal \in [Ids -> Row]  BY NoRowIsRow DEF Init
<1>3. \A p \in Ids : p <= made <=> proposal[p].status # "none"
  BY NoRowIsRow, BoundAssumption DEF Init, Ids
<1>4. audit \in [Ids -> Seq(Action)]  BY DEF Init
<1> QED  BY <1>1, <1>2, <1>3, <1>4 DEF Init, TypeOK

LEMMA TypeStep == TypeOK /\ [Next]_vars => TypeOK'
<1> SUFFICES ASSUME TypeOK, [Next]_vars PROVE TypeOK'  OBVIOUS
<1>1. ASSUME NEW t \in Targets, Create(t)  PROVE TypeOK'
  BY <1>1, InsertKeepsRows DEF Create, TypeOK
<1>2. ASSUME NEW g \in Makers, NEW t \in Transactions, AskDiff(g, t)  PROVE TypeOK'
  <2>1. [at |-> "diff", target |-> t] \in Making  BY DEF Making
  <2> QED  BY <1>2, <2>1 DEF AskDiff, table, TypeOK
<1>3. ASSUME NEW g \in Makers, CreateAfterDiff(g)  PROVE TypeOK'
  <2>1. maker[g].target \in Targets
    BY <1>3, BusyMaker DEF CreateAfterDiff, Targets
  <2>2. maker' \in [Makers -> Making \cup {Quiet}]  BY <1>3 DEF CreateAfterDiff, TypeOK
  <2>3. CASE Insert(maker[g].target)
    BY <1>3, <2>1, <2>2, <2>3, InsertKeepsRows DEF CreateAfterDiff, TypeOK
  <2>4. CASE UNCHANGED <<made, proposal>>  BY <1>3, <2>2, <2>4 DEF CreateAfterDiff, TypeOK
  <2> QED  BY <1>3, <2>3, <2>4 DEF CreateAfterDiff
<1>4. ASSUME NEW p \in Ids, Reject(p)  PROVE TypeOK'
  BY <1>4, RecordedKeepsRows DEF Reject, Declined, Declinable, Action, TypeOK
<1>5. ASSUME NEW p \in Ids, Adjust(p)  PROVE TypeOK'
  <2>1. proposal[p].target \in Targets  BY DEF TypeOK, Row
  <2>2. CASE Declined(p)
    BY <1>5, <2>2, RecordedKeepsRows DEF Adjust, Declined, Declinable, Action, TypeOK
  <2>3. CASE Insert(proposal[p].target) /\ UNCHANGED audit
    BY <1>5, <2>1, <2>3, InsertKeepsRows DEF Adjust, TypeOK
  <2> QED  BY <1>5, <2>2, <2>3 DEF Adjust
<1>6. ASSUME NEW p \in Ids, ApplyHere(p)  PROVE TypeOK'
  <2>1. Pending(p) /\ Recorded(p, "applied", "proposal.apply")
    BY <1>6 DEF ApplyHere, Appliable
  <2>2. proposal' \in [Ids -> Row] /\ audit' \in [Ids -> Seq(Action)]
        /\ \A q \in Ids : q <= made <=> proposal'[q].status # "none"
    BY <2>1, RecordedKeepsRows DEF Action
  <2> QED  BY <1>6, <2>2 DEF ApplyHere, TypeOK
<1>7. ASSUME NEW p \in Ids, StrayLands(p)  PROVE TypeOK'
  BY <1>7 DEF StrayLands, table, TypeOK
<1>8. ASSUME NEW p \in Ids, Lapse(p)  PROVE TypeOK'
  BY <1>8 DEF Lapse, TypeOK
<1>9. ASSUME NEW a \in Appliers, NEW p \in Ids, BeginApply(a, p)  PROVE TypeOK'
  <2>1. At("diff", p) \in Applying /\ At("write", p) \in Applying  BY DEF At, Applying
  <2>2. applier' \in [Appliers -> Applying \cup {Quiet}]  BY <1>9, <2>1 DEF BeginApply, TypeOK
  <2> QED  BY <1>9, <2>2 DEF BeginApply, table, TypeOK
<1>10. ASSUME NEW a \in Appliers, DiffComes(a)  PROVE TypeOK'
  <2>1. applier[a] \in Applying  BY <1>10, WritingIsBusy, BusyApplier DEF DiffComes
  <2>2. [applier[a] EXCEPT !.at = "write"] \in Applying  BY <2>1 DEF Applying
  <2>3. applier' \in [Appliers -> Applying \cup {Quiet}]  BY <1>10, <2>2 DEF DiffComes, TypeOK
  <2> QED  BY <1>10, <2>3 DEF DiffComes, table, TypeOK
<1>11. ASSUME NEW a \in Appliers, WriteLands(a)  PROVE TypeOK'
  <2>1. applier[a] \in Applying /\ applier[a].id \in Ids
    BY <1>11, WritingIsBusy, BusyApplier DEF WriteLands
  <2>2. [applier[a] EXCEPT !.landed = TRUE] \in Applying  BY <2>1 DEF Applying
  <2>3. applier' \in [Appliers -> Applying \cup {Quiet}]  BY <1>11, <2>2 DEF WriteLands, TypeOK
  <2> QED  BY <1>11, <2>1, <2>3 DEF WriteLands, table, TypeOK
<1>12. ASSUME NEW a \in Appliers, Commit(a)  PROVE TypeOK'
  <2>1. applier[a].id \in Ids  BY <1>12, WritingIsBusy, BusyApplier DEF Commit
  <2>2. applier' \in [Appliers -> Applying \cup {Quiet}]  BY <1>12 DEF Commit, TypeOK
  <2>3. CASE Pending(applier[a].id)
    <3>1. Recorded(applier[a].id, "applied", "proposal.apply")
      BY <1>12, <2>3 DEF Commit, StillPending
    <3>2. proposal' \in [Ids -> Row] /\ audit' \in [Ids -> Seq(Action)]
          /\ \A q \in Ids : q <= made <=> proposal'[q].status # "none"
      BY <2>1, <2>3, <3>1, RecordedKeepsRows DEF Action
    <3> QED  BY <1>12, <2>2, <3>2 DEF Commit, TypeOK
  <2>4. CASE ~Pending(applier[a].id)
    BY <1>12, <2>2, <2>4 DEF Commit, StillPending, TypeOK
  <2> QED  BY <2>3, <2>4
<1>13. ASSUME NEW a \in Appliers, RemoteFails(a)  PROVE TypeOK'
  BY <1>13 DEF RemoteFails, table, TypeOK
<1>14. ASSUME NEW a \in Appliers, RemoteGivesUp(a)  PROVE TypeOK'
  <2>1. applier[a].id \in Ids  BY <1>14, WritingIsBusy, BusyApplier DEF RemoteGivesUp
  <2>2. stray' \subseteq Ids  BY <1>14, <2>1 DEF RemoteGivesUp, TypeOK
  <2> QED  BY <1>14, <2>2 DEF RemoteGivesUp, table, TypeOK
<1>15. CASE Expire
  <2>1. \A q \in Ids : [proposal[q] EXCEPT !.status = "expired"] \in Row
    BY DEF TypeOK, Row, Status
  <2>2. proposal' \in [Ids -> Row]  BY <1>15, <2>1 DEF Expire, TypeOK
  <2>3. \A q \in Ids : q <= made <=> proposal'[q].status # "none"
    BY <1>15 DEF Expire, Pending, TypeOK, Row
  <2> QED  BY <1>15, <2>2, <2>3 DEF Expire, TypeOK
<1>16. CASE Crash  BY <1>16 DEF Crash, table, TypeOK
<1>17. CASE UNCHANGED vars  BY <1>17 DEF vars, TypeOK
<1> QED
  BY <1>1, <1>2, <1>3, <1>4, <1>5, <1>6, <1>7, <1>8, <1>9, <1>10, <1>11, <1>12,
     <1>13, <1>14, <1>15, <1>16, <1>17 DEF Next

\* The tables and the requests in progress keep the shapes the schema and the
\* handlers give them.
THEOREM TypeCorrect == Spec => []TypeOK
BY TypeInit, TypeStep, PTL DEF Spec

(***************************************************************************)
(* The handlers implement the ledger                                       *)
(***************************************************************************)

\* Storing a proposal is a Suggest of the next id.
LEMMA InsertSuggests ==
  ASSUME TypeOK, NEW t \in Targets, Insert(t), UNCHANGED audit
  PROVE  Ledger!Next
<1> DEFINE id == made + 1
<1>1. id \in Ids  BY InsertKeepsRows
<1>2. proposal[id].status = "none"  BY <1>1 DEF TypeOK, Ids
<1>3. \A q \in Ids : /\ (proposal[q].status = "none" /\ q # id) => proposal'[q].status = "none"
                     /\ proposal'[q].target = IF q = id THEN t ELSE proposal[q].target
  BY DEF Insert, Superseded, Pending, TypeOK, Row
<1>4. \A q \in Ids : proposal'[q].status =
        IF q = id THEN "pending"
        ELSE IF proposal[q].status = "pending" /\ proposal[q].target = t THEN "expired"
        ELSE proposal[q].status
  BY DEF Insert, Superseded, Pending, TypeOK, Row
<1>5. Ledger!Suggest(id, t)
  BY <1>1, <1>2, <1>3, <1>4 DEF Ledger!Suggest, Ledger!PendingAbout
<1> QED  BY <1>1, <1>5 DEF Ledger!Next

\* Recording a decision about a pending proposal is a Decide.
LEMMA RecordedDecides ==
  ASSUME TypeOK, NEW p \in Ids, Pending(p),
         NEW s \in {"applied", "rejected"}, NEW c \in Action, Recorded(p, s, c)
  PROVE  Ledger!Next
<1>1. \A q \in Ids : /\ proposal'[q].status = IF q = p THEN s ELSE proposal[q].status
                     /\ proposal'[q].target = proposal[q].target
  BY DEF Recorded, TypeOK, Row
<1>2. \A q \in Ids : Len(audit'[q]) = IF q = p THEN Len(audit[p]) + 1 ELSE Len(audit[q])
  BY DEF Recorded, TypeOK
<1>3. Ledger!Decide(p, s)  BY <1>1, <1>2 DEF Ledger!Decide, Pending
<1> QED  BY <1>3 DEF Ledger!Next, Ledger!Decided

\* The nightly expiry is a Retire of the proposals past their date.
LEMMA ExpireRetires ==
  ASSUME TypeOK, Expire
  PROVE  Ledger!Next
<1> PICK S \in SUBSET Ids : S = {q \in Ids : Pending(q) /\ q \in lapsed}
  OBVIOUS
<1>1. \A q \in Ids : /\ proposal'[q].status = IF q \in S THEN "expired" ELSE proposal[q].status
                     /\ proposal'[q].target = proposal[q].target
  BY DEF Expire, Pending, TypeOK, Row
<1>2. UNCHANGED audit  BY DEF Expire
<1>3. Ledger!Retire(S)  BY <1>1, <1>2 DEF Ledger!Retire, Pending
<1> QED  BY <1>3 DEF Ledger!Next

\* A step that leaves the table and the trail alone is a stutter of the ledger.
LEMMA QuietStutters == UNCHANGED <<proposal, audit>> => UNCHANGED Ledger!vars
BY DEF Ledger!vars

LEMMA LedgerInit == Init => Ledger!Init
BY NoRowIsRow DEF Init, Ledger!Init, Row

LEMMA LedgerStep == TypeOK /\ [Next]_vars => [Ledger!Next]_(Ledger!vars)
<1> SUFFICES ASSUME TypeOK, [Next]_vars PROVE Ledger!Next \/ UNCHANGED Ledger!vars  OBVIOUS
<1>1. ASSUME NEW t \in Targets, Create(t)  PROVE Ledger!Next
  BY <1>1, InsertSuggests DEF Create
<1>2. ASSUME NEW g \in Makers, CreateAfterDiff(g)  PROVE Ledger!Next \/ UNCHANGED Ledger!vars
  <2>1. maker[g].target \in Targets  BY <1>2, BusyMaker DEF CreateAfterDiff, Targets
  <2> QED  BY <1>2, <2>1, InsertSuggests, QuietStutters DEF CreateAfterDiff
<1>3. ASSUME NEW p \in Ids, Declined(p)  PROVE Ledger!Next
  BY <1>3, RecordedDecides DEF Declined, Declinable, Action
<1>4. ASSUME NEW p \in Ids, Adjust(p)  PROVE Ledger!Next
  <2>1. proposal[p].target \in Targets  BY DEF TypeOK, Row
  <2> QED  BY <1>3, <1>4, <2>1, InsertSuggests DEF Adjust
<1>5. ASSUME NEW p \in Ids, ApplyHere(p)  PROVE Ledger!Next
  BY <1>5, RecordedDecides DEF ApplyHere, Appliable, Action
<1>6. ASSUME NEW a \in Appliers, Commit(a)  PROVE Ledger!Next \/ UNCHANGED Ledger!vars
  <2>1. applier[a].id \in Ids  BY <1>6, WritingIsBusy, BusyApplier DEF Commit
  <2>2. CASE Pending(applier[a].id)
    BY <1>6, <2>1, <2>2, RecordedDecides DEF Commit, StillPending, Action
  <2>3. CASE ~Pending(applier[a].id)
    BY <1>6, <2>3, QuietStutters DEF Commit, StillPending
  <2> QED  BY <2>2, <2>3
<1>7. CASE Expire  BY <1>7, ExpireRetires
<1>8. ASSUME NEW p \in Ids, StrayLands(p) \/ Lapse(p)  PROVE UNCHANGED Ledger!vars
  BY <1>8, QuietStutters DEF StrayLands, Lapse, table
<1>9. ASSUME NEW g \in Makers, NEW t \in Transactions, AskDiff(g, t)  PROVE UNCHANGED Ledger!vars
  BY <1>9, QuietStutters DEF AskDiff, table
<1>10. ASSUME NEW a \in Appliers, NEW p \in Ids, BeginApply(a, p)  PROVE UNCHANGED Ledger!vars
  BY <1>10, QuietStutters DEF BeginApply, table
<1>11. ASSUME NEW a \in Appliers,
              DiffComes(a) \/ WriteLands(a) \/ RemoteFails(a) \/ RemoteGivesUp(a)
       PROVE  UNCHANGED Ledger!vars
  BY <1>11, QuietStutters DEF DiffComes, WriteLands, RemoteFails, RemoteGivesUp, table
<1>12. CASE Crash  BY <1>12, QuietStutters DEF Crash, table
<1>13. CASE UNCHANGED vars  BY <1>13, QuietStutters DEF vars
<1> QED
  BY <1>1, <1>2, <1>3, <1>4, <1>5, <1>6, <1>7, <1>8, <1>9, <1>10, <1>11, <1>12, <1>13
     DEF Next, Reject

\* Whatever the generators, the owner and the gateway do, in any interleaving, the
\* table and the trail move only as the ledger promises.
THEOREM Implements == Spec => KeepsTheLedger
BY TypeInit, TypeStep, LedgerInit, LedgerStep, PTL DEF Spec, KeepsTheLedger, Ledger!Spec

(***************************************************************************)
(* The state invariants                                                    *)
(***************************************************************************)

\* What the table and the trail look like after a step: one proposal stored, one
\* decision recorded, some proposals retired, or neither touched.
Stored == \E t \in Targets : Insert(t) /\ UNCHANGED audit
DecidedOne ==
  \E p \in Ids : /\ Pending(p)
                 /\ UNCHANGED made
                 /\ \/ Recorded(p, "applied", "proposal.apply")
                    \/ Recorded(p, "rejected", "proposal.reject")
Untouched == UNCHANGED <<made, proposal, audit>>

\* A decision is a refusal or an apply, of a value kept here or of a write confirmed.
LEMMA AppliesOrNot ==
  ASSUME TypeOK, [Next]_vars
  PROVE  \/ Stored \/ Expire \/ Untouched
         \/ \E q \in Ids : Declined(q) \/ ApplyHere(q)
         \/ \E a \in Appliers : Commit(a) /\ Pending(applier[a].id)
<1>1. ASSUME NEW t \in Targets, Create(t)  PROVE Stored
  BY <1>1 DEF Create, Stored
<1>2. ASSUME NEW g \in Makers, CreateAfterDiff(g)  PROVE Stored \/ Untouched
  <2>1. maker[g].target \in Targets  BY <1>2, BusyMaker DEF CreateAfterDiff, Targets
  <2> QED  BY <1>2, <2>1 DEF CreateAfterDiff, Stored, Untouched
<1>3. ASSUME NEW p \in Ids, Adjust(p)  PROVE Stored \/ Declined(p)
  <2>1. proposal[p].target \in Targets  BY DEF TypeOK, Row
  <2> QED  BY <1>3, <2>1 DEF Adjust, Stored
<1>4. ASSUME NEW a \in Appliers, Commit(a)  PROVE Pending(applier[a].id) \/ Untouched
  BY <1>4 DEF Commit, StillPending, Untouched
<1>5. ASSUME NEW p \in Ids, StrayLands(p) \/ Lapse(p)  PROVE Untouched
  BY <1>5 DEF StrayLands, Lapse, table, Untouched
<1>6. ASSUME NEW g \in Makers, NEW t \in Transactions, AskDiff(g, t)  PROVE Untouched
  BY <1>6 DEF AskDiff, table, Untouched
<1>7. ASSUME NEW a \in Appliers, NEW p \in Ids, BeginApply(a, p)  PROVE Untouched
  BY <1>7 DEF BeginApply, table, Untouched
<1>8. ASSUME NEW a \in Appliers,
              DiffComes(a) \/ WriteLands(a) \/ RemoteFails(a) \/ RemoteGivesUp(a)
       PROVE  Untouched
  BY <1>8 DEF DiffComes, WriteLands, RemoteFails, RemoteGivesUp, table, Untouched
<1>9. CASE Crash  BY <1>9 DEF Crash, table, Untouched
<1>10. CASE UNCHANGED vars  BY <1>10 DEF vars, Untouched
<1> QED
  BY <1>1, <1>2, <1>3, <1>4, <1>5, <1>6, <1>7, <1>8, <1>9, <1>10 DEF Next, Reject

LEMMA FourKinds ==
  TypeOK /\ [Next]_vars => Stored \/ DecidedOne \/ Expire \/ Untouched
<1> SUFFICES ASSUME TypeOK, [Next]_vars
             PROVE  Stored \/ DecidedOne \/ Expire \/ Untouched
  OBVIOUS
<1>1. ASSUME NEW p \in Ids, Declined(p)  PROVE DecidedOne
  BY <1>1 DEF Declined, Declinable, DecidedOne
<1>2. ASSUME NEW p \in Ids, ApplyHere(p)  PROVE DecidedOne
  BY <1>2 DEF ApplyHere, Appliable, DecidedOne
<1>3. ASSUME NEW a \in Appliers, Commit(a), Pending(applier[a].id)  PROVE DecidedOne
  <2>1. applier[a].id \in Ids  BY <1>3, WritingIsBusy, BusyApplier DEF Commit
  <2> QED  BY <1>3, <2>1 DEF Commit, StillPending, DecidedOne
<1> QED  BY <1>1, <1>2, <1>3, AppliesOrNot

\* The card on the screen is the newest suggestion for its target, whatever the
\* order in which the awaited diffs come back.
THEOREM NewestShown == Spec => []PendingIsNewest
<1>1. Init => PendingIsNewest  BY NoRowIsRow DEF Init, PendingIsNewest, Pending
<1>2. TypeOK /\ TypeOK' /\ PendingIsNewest /\ [Next]_vars => PendingIsNewest'
  <2> SUFFICES ASSUME TypeOK, TypeOK', PendingIsNewest, [Next]_vars PROVE PendingIsNewest'
    OBVIOUS
  <2>1. CASE Stored
    <3>1. PICK t \in Targets : Insert(t)  BY <2>1 DEF Stored
    <3>2. made + 1 \in Ids /\ made' = made + 1  BY <3>1, InsertKeepsRows DEF Insert
    <3> SUFFICES ASSUME NEW p \in Ids, NEW q \in Ids, Pending(p)', q > p, q <= made'
                 PROVE  proposal'[q].target # proposal'[p].target
      BY DEF PendingIsNewest
    <3>3. p # made + 1  BY <3>2 DEF Ids, TypeOK
    <3>4. /\ Pending(p) /\ proposal[p].target # t
          /\ proposal'[p].target = proposal[p].target
      BY <3>1, <3>3 DEF Insert, Superseded, Pending, TypeOK, Row
    <3>5. CASE q = made + 1
      BY <3>1, <3>4, <3>5 DEF Insert, TypeOK
    <3>6. CASE q # made + 1
      <4>1. q <= made  BY <3>2, <3>6 DEF Ids, TypeOK
      <4>2. proposal'[q].target = proposal[q].target
        BY <3>1, <3>6 DEF Insert, TypeOK, Row
      <4> QED  BY <3>4, <4>1, <4>2 DEF PendingIsNewest
    <3> QED  BY <3>5, <3>6
  <2>2. CASE DecidedOne
    <3>1. PICK d \in Ids : /\ Pending(d)
                           /\ \/ Recorded(d, "applied", "proposal.apply")
                              \/ Recorded(d, "rejected", "proposal.reject")
      BY <2>2 DEF DecidedOne
    <3>2. \A p \in Ids : proposal'[p].target = proposal[p].target /\ (Pending(p)' => Pending(p))
      BY <3>1, RecordedKeepsTargets
    <3> QED  BY <2>2, <3>2 DEF DecidedOne, PendingIsNewest
  <2>3. CASE Expire
    <3>1. \A p \in Ids : /\ proposal'[p].target = proposal[p].target
                         /\ Pending(p)' => Pending(p)
      BY <2>3 DEF Expire, Pending, TypeOK, Row
    <3> QED  BY <2>3, <3>1 DEF Expire, PendingIsNewest
  <2>4. CASE Untouched  BY <2>4 DEF Untouched, PendingIsNewest, Pending
  <2> QED  BY <2>1, <2>2, <2>3, <2>4, FourKinds
<1> QED  BY <1>1, <1>2, TypeCorrect, PTL DEF Spec

\* The audit trail of a proposal is exactly its decision, once, however many
\* requests raced for it and however often the write was tried.
THEOREM TrailTrue == Spec => []TrailIsTheDecision
<1>1. Init => TrailIsTheDecision  BY NoRowIsRow DEF Init, TrailIsTheDecision
<1>2. TypeOK /\ TrailIsTheDecision /\ [Next]_vars => TrailIsTheDecision'
  <2> SUFFICES ASSUME TypeOK, TrailIsTheDecision, [Next]_vars PROVE TrailIsTheDecision'
    OBVIOUS
  <2>1. CASE Stored
    <3>1. PICK t \in Targets : Insert(t)  BY <2>1 DEF Stored
    <3>2. made + 1 \in Ids /\ proposal[made + 1].status = "none"
      BY <3>1, InsertKeepsRows DEF TypeOK, Ids
    <3>3. \A p \in Ids :
            \/ proposal'[p].status = proposal[p].status
            \/ /\ proposal[p].status \in {"none", "pending"}
               /\ proposal'[p].status \in {"pending", "expired"}
      BY <3>1, <3>2 DEF Insert, Superseded, Pending, TypeOK, Row
    <3> QED  BY <2>1, <3>3 DEF Stored, TrailIsTheDecision
  <2>2. CASE DecidedOne
    <3>1. PICK p \in Ids :
            /\ Pending(p)
            /\ \/ Recorded(p, "applied", "proposal.apply")
               \/ Recorded(p, "rejected", "proposal.reject")
      BY <2>2 DEF DecidedOne
    <3>2. audit[p] = <<>>  BY <3>1 DEF Pending, TrailIsTheDecision
    <3>3. \A q \in Ids \ {p} : audit'[q] = audit[q] /\ proposal'[q] = proposal[q]
      BY <3>1 DEF Recorded, TypeOK
    <3>4. \/ proposal'[p].status = "applied" /\ audit'[p] = <<"proposal.apply">>
          \/ proposal'[p].status = "rejected" /\ audit'[p] = <<"proposal.reject">>
      BY <3>1, <3>2 DEF Recorded, TypeOK, Row
    <3> QED  BY <3>3, <3>4 DEF TrailIsTheDecision
  <2>3. CASE Expire
    <3>1. \A p \in Ids :
            \/ proposal'[p].status = proposal[p].status
            \/ proposal[p].status = "pending" /\ proposal'[p].status = "expired"
      BY <2>3 DEF Expire, Pending, TypeOK, Row
    <3> QED  BY <2>3, <3>1 DEF Expire, TrailIsTheDecision
  <2>4. CASE Untouched  BY <2>4 DEF Untouched, TrailIsTheDecision
  <2> QED  BY <2>1, <2>2, <2>3, <2>4, FourKinds
<1> QED  BY <1>1, <1>2, TypeCorrect, PTL DEF Spec

\* A request whose write has landed has put its value where it belongs: what an
\* inductive proof of AppliedIsWritten needs to know of the request that commits.
LandedIsWritten ==
  \A a \in Appliers : applier[a] # Quiet /\ applier[a].landed => applier[a].id \in wrote

LEMMA LandedStep == TypeOK /\ LandedIsWritten /\ [Next]_vars => LandedIsWritten' /\ wrote \subseteq wrote'
<1> SUFFICES ASSUME TypeOK, LandedIsWritten, [Next]_vars
             PROVE  LandedIsWritten' /\ wrote \subseteq wrote'
  OBVIOUS
<1>1. CASE UNCHANGED applier /\ wrote \subseteq wrote'  BY <1>1 DEF LandedIsWritten
<1>2. ASSUME NEW a \in Appliers, UNCHANGED wrote,
             applier' = [applier EXCEPT ![a] = Quiet]
      PROVE  LandedIsWritten'
  BY <1>2 DEF LandedIsWritten, TypeOK
<1>3. ASSUME NEW a \in Appliers, NEW p \in Ids, BeginApply(a, p)
      PROVE  LandedIsWritten' /\ wrote \subseteq wrote'
  <2>1. ~At("diff", p).landed /\ ~At("write", p).landed  BY DEF At
  <2> QED  BY <1>3, <2>1 DEF BeginApply, LandedIsWritten, TypeOK
<1>4. ASSUME NEW a \in Appliers, DiffComes(a)
      PROVE  LandedIsWritten' /\ wrote \subseteq wrote'
  <2>1. applier[a] # Quiet /\ applier[a] \in Applying
    BY <1>4, WritingIsBusy, BusyApplier DEF DiffComes
  <2>2. applier'[a].landed = applier[a].landed /\ applier'[a].id = applier[a].id
    BY <1>4, <2>1 DEF DiffComes, TypeOK, Applying
  <2>3. \A b \in Appliers \ {a} : applier'[b] = applier[b]  BY <1>4 DEF DiffComes, TypeOK
  <2> QED  BY <1>4, <2>1, <2>2, <2>3 DEF DiffComes, LandedIsWritten
<1>5. ASSUME NEW a \in Appliers, WriteLands(a)
      PROVE  LandedIsWritten' /\ wrote \subseteq wrote'
  <2>1. applier[a] \in Applying  BY <1>5, WritingIsBusy, BusyApplier DEF WriteLands
  <2>2. applier'[a].id = applier[a].id  BY <1>5, <2>1 DEF WriteLands, TypeOK, Applying
  <2>3. \A b \in Appliers \ {a} : applier'[b] = applier[b]  BY <1>5 DEF WriteLands, TypeOK
  <2> QED  BY <1>5, <2>2, <2>3 DEF WriteLands, LandedIsWritten
<1>6. ASSUME NEW a \in Appliers, Commit(a) \/ RemoteFails(a) \/ RemoteGivesUp(a)
      PROVE  LandedIsWritten' /\ wrote \subseteq wrote'
  BY <1>2, <1>6 DEF Commit, RemoteFails, RemoteGivesUp
<1>7. CASE Crash  BY <1>7 DEF Crash, LandedIsWritten
<1>8. ASSUME NEW p \in Ids, ApplyHere(p) \/ StrayLands(p) \/ Reject(p) \/ Adjust(p) \/ Lapse(p)
      PROVE  UNCHANGED applier /\ wrote \subseteq wrote'
  BY <1>8 DEF ApplyHere, StrayLands, Reject, Adjust, Lapse
<1>9. ASSUME NEW t \in Targets, Create(t)  PROVE UNCHANGED applier /\ wrote \subseteq wrote'
  BY <1>9 DEF Create
<1>10. ASSUME NEW g \in Makers, NEW t \in Transactions, AskDiff(g, t)
       PROVE  UNCHANGED applier /\ wrote \subseteq wrote'
  BY <1>10 DEF AskDiff
<1>11. ASSUME NEW g \in Makers, CreateAfterDiff(g)
       PROVE  UNCHANGED applier /\ wrote \subseteq wrote'
  BY <1>11 DEF CreateAfterDiff
<1>12. CASE Expire  BY <1>1, <1>12 DEF Expire
<1>13. CASE UNCHANGED vars  BY <1>1, <1>13 DEF vars
<1> QED
  BY <1>1, <1>3, <1>4, <1>5, <1>6, <1>7, <1>8, <1>9, <1>10, <1>11, <1>12, <1>13 DEF Next

\* A proposal recorded as applied has been written before, even when an earlier
\* attempt failed, was given up on or died with the process.
THEOREM AppliedWritten == Spec => []AppliedIsWritten
<1> DEFINE IInv == TypeOK /\ LandedIsWritten /\ AppliedIsWritten
<1>1. Init => IInv
  BY TypeInit, NoRowIsRow DEF Init, LandedIsWritten, AppliedIsWritten
<1>2. IInv /\ [Next]_vars => IInv'
  <2> SUFFICES ASSUME IInv, [Next]_vars PROVE IInv'  OBVIOUS
  <2>1. TypeOK' /\ LandedIsWritten' /\ wrote \subseteq wrote'  BY TypeStep, LandedStep
  <2>2. CASE \A p \in Ids : proposal'[p].status = "applied" => proposal[p].status = "applied"
    BY <2>1, <2>2 DEF AppliedIsWritten
  <2>3. ASSUME NEW p \in Ids, proposal'[p].status = "applied", proposal[p].status # "applied"
        PROVE  p \in wrote'
    <3>1. \/ \E q \in Ids : ApplyHere(q)
          \/ \E a \in Appliers : Commit(a) /\ Pending(applier[a].id)
      <4>1. CASE Stored
        <5>1. PICK t \in Targets : Insert(t)  BY <4>1 DEF Stored
        <5> QED  BY <2>3, <5>1 DEF Insert, Superseded, Pending, TypeOK, Row
      <4>2. CASE Expire  BY <2>3, <4>2 DEF Expire, TypeOK, Row
      <4>3. CASE Untouched  BY <2>3, <4>3 DEF Untouched
      <4>4. ASSUME NEW q \in Ids, Declined(q)  PROVE FALSE
        BY <2>3, <4>4 DEF Declined, Recorded, TypeOK, Row
      <4> QED  BY <4>1, <4>2, <4>3, <4>4, AppliesOrNot
    <3>2. ASSUME NEW q \in Ids, ApplyHere(q)  PROVE p \in wrote'
      BY <2>3, <3>2 DEF ApplyHere, Recorded, TypeOK
    <3>3. ASSUME NEW a \in Appliers, Commit(a), Pending(applier[a].id)  PROVE p \in wrote'
      <4>1. applier[a] # Quiet  BY <3>3, WritingIsBusy DEF Commit
      <4>2. p = applier[a].id
        BY <2>3, <3>3 DEF Commit, StillPending, Recorded, TypeOK
      <4>3. applier[a].landed  BY <3>3 DEF Commit, WriteSucceeded
      <4> QED  BY <2>1, <4>1, <4>2, <4>3 DEF LandedIsWritten
    <3> QED  BY <3>1, <3>2, <3>3
  <2> QED  BY <2>1, <2>3 DEF AppliedIsWritten
<1>3. IInv => AppliedIsWritten  OBVIOUS
<1> QED  BY <1>1, <1>2, <1>3, PTL DEF Spec

(***************************************************************************)
(* What the ledger's promise says of the handlers                          *)
(***************************************************************************)

\* A person's decision leaves exactly one audit entry, and nothing else leaves any.
THEOREM EntriesAreDecisions == Spec => []Ledger!OneEntryPerDecision
<1>1. TypeOK /\ TrailIsTheDecision => Ledger!OneEntryPerDecision
  <2> SUFFICES ASSUME TypeOK, TrailIsTheDecision, NEW p \in Ids
               PROVE  Len(audit[p]) = IF proposal[p].status \in {"applied", "rejected"} THEN 1 ELSE 0
    BY DEF Ledger!OneEntryPerDecision, Ledger!Decided
  <2>1. CASE proposal[p].status = "applied"  BY <2>1 DEF TrailIsTheDecision
  <2>2. CASE proposal[p].status = "rejected"  BY <2>2 DEF TrailIsTheDecision
  <2>3. CASE proposal[p].status \notin {"applied", "rejected"}
    BY <2>3 DEF TrailIsTheDecision
  <2> QED  BY <2>1, <2>2, <2>3
<1> QED  BY <1>1, TypeCorrect, TrailTrue, PTL

\* At most one card waits for each target: what the partial unique index enforces.
THEOREM OneCard == Spec => []Ledger!OnePendingPerTarget
<1>1. TypeOK /\ PendingIsNewest => Ledger!OnePendingPerTarget
  <2> SUFFICES ASSUME TypeOK, PendingIsNewest, NEW p \in Ids, NEW q \in Ids,
                      Pending(p), Pending(q), proposal[p].target = proposal[q].target
               PROVE  p = q
    BY DEF Ledger!OnePendingPerTarget, Pending
  <2>1. p <= made /\ q <= made  BY DEF TypeOK, Pending
  <2>2. ~ q > p /\ ~ p > q  BY <2>1 DEF PendingIsNewest
  <2> QED  BY <2>2 DEF Ids
<1> QED  BY <1>1, TypeCorrect, NewestShown, PTL

\* A proposal that has been applied, rejected or retired never changes again.
THEOREM FinalForGood == Spec => Ledger!DecisionIsFinal
<1>1. TypeOK /\ [Next]_vars => [Ledger!KeepsTheDecided]_(Ledger!vars)
  <2> SUFFICES ASSUME TypeOK, [Next]_vars, NEW p \in Ids,
                      proposal[p].status \notin {"none", "pending"}
               PROVE  proposal'[p].status = proposal[p].status
    BY DEF Ledger!KeepsTheDecided
  <2>1. CASE Stored
    <3>1. PICK t \in Targets : Insert(t)  BY <2>1 DEF Stored
    <3>2. made + 1 \in Ids /\ p # made + 1  BY <3>1, InsertKeepsRows DEF TypeOK, Ids
    <3> QED  BY <3>1, <3>2 DEF Insert, Superseded, Pending, TypeOK, Row
  <2>2. CASE DecidedOne  BY <2>2 DEF DecidedOne, Recorded, Pending, TypeOK, Row
  <2>3. CASE Expire  BY <2>3 DEF Expire, Pending, TypeOK, Row
  <2>4. CASE Untouched  BY <2>4 DEF Untouched
  <2> QED  BY <2>1, <2>2, <2>3, <2>4, FourKinds
<1> QED  BY <1>1, TypeCorrect, PTL DEF Spec, Ledger!DecisionIsFinal
==============================================================================
