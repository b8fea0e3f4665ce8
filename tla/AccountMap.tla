----------------------------- MODULE AccountMap -----------------------------
(***************************************************************************)
(* account_map of one tenant (src/domain/aggregate/accounts.ts): the rows  *)
(* that decide what net worth is made of. The sync writes them from what   *)
(* Actual and Ghostfolio report, and owners answer what cannot be derived: *)
(* what an account is, whether it counts, and which accounts are the same  *)
(* money. `decided` holds the fields a person has answered.                *)
(*                                                                         *)
(* A dedupe group is a fresh uuid in the code. Here it is the set of       *)
(* accounts it was made for: grouping the same set again moves every       *)
(* account out of the old group, so two live groups never share a name.    *)
(* A database call is synchronous and every handler makes its own without  *)
(* awaiting in between, so each is one step.                               *)
(***************************************************************************)
EXTENDS Naturals, FiniteSets

CONSTANTS
  Actual,      \* the accounts Actual may report
  Ghostfolio,  \* the accounts Ghostfolio may report
  Names,       \* what normaliseAccountName makes of their names
  OwnerKinds   \* the kinds an owner chooses from

ASSUME AccountMapAssumption ==
  /\ Actual \cap Ghostfolio = {}
  /\ IsFiniteSet(Actual \cup Ghostfolio)

Accounts == Actual \cup Ghostfolio
Kinds == {"checking", "investment", "cash"} \cup OwnerKinds
NoGroup == {}

VARIABLE account

\* A row of account_map, with DECIDABLE_FIELDS under shorter names: counts is
\* includeInNetWorth, group dedupeGroup and truth isSourceOfTruth.
Fields == {"kind", "counts", "group", "truth"}
Row == [name : Names, kind : Kinds, counts : BOOLEAN, group : SUBSET Accounts,
        truth : BOOLEAN, decided : SUBSET Fields]

\* What a source says of an account: its name, and whether it holds positions,
\* which no account of Actual does.
Sighting == [name : Names, holds : BOOLEAN]
Reports(seen) ==
  {report \in [seen -> Sighting] : \A a \in seen \cap Actual : ~report[a].holds}

MapTypeOK ==
  /\ DOMAIN account \subseteq Accounts
  /\ \A a \in DOMAIN account : account[a] \in Row

MapInit == account = <<>>

(***************************************************************************)
(* syncAccounts and classifyGhostfolio                                     *)
(***************************************************************************)
\* defaultKind and ghostfolioKind. An account of Actual is checking or other,
\* and nothing tells the two apart again.
DerivedKind(a, sighting) ==
  IF a \in Actual THEN "checking"
  ELSE IF sighting.holds THEN "investment" ELSE "cash"

NewRow(a, sighting) ==
  [name |-> sighting.name, kind |-> DerivedKind(a, sighting), counts |-> TRUE,
   group |-> NoGroup, truth |-> TRUE, decided |-> {}]

\* syncAccountMap creates rows and refreshes names. An account that is not
\* reported keeps its row.
Upserted(report) ==
  [a \in DOMAIN account \cup DOMAIN report |->
     IF a \notin DOMAIN report THEN account[a]
     ELSE IF a \in DOMAIN account THEN [account[a] EXCEPT !.name = report[a].name]
     ELSE NewRow(a, report[a])]

\* applyDerivedFields: the label of every reported Ghostfolio account, unless a
\* person has decided it.
MayDerive(row) == "kind" \notin row.decided
Classified(rows, report) ==
  [a \in DOMAIN rows |->
     IF a \in DOMAIN report \cap Ghostfolio /\ MayDerive(rows[a])
     THEN [rows[a] EXCEPT !.kind = DerivedKind(a, report[a])] ELSE rows[a]]

\* deriveMirrors: one ungrouped Actual row and one ungrouped Ghostfolio cash
\* row under a name, and no other. (Names has no name that normalises to nothing,
\* which matches no other.)
Namesakes(rows, name) ==
  {a \in DOMAIN rows : /\ rows[a].group = NoGroup
                       /\ rows[a].name = name
                       /\ a \in Ghostfolio => rows[a].kind = "cash"}
IsPair(S) == \E a \in Actual, g \in Ghostfolio : S = {a, g}

\* applyDerivedMirror: both rows or neither; Actual is the source of truth.
MayMirrorOne(rows, pair) ==
  \E a \in pair : "group" \notin rows[a].decided
MayMirror(rows, pair) ==
  \A a \in pair : "group" \notin rows[a].decided
Mirrored(rows) ==
  [a \in DOMAIN rows |->
     LET pair == Namesakes(rows, rows[a].name) IN
     IF a \in pair /\ IsPair(pair) /\ MayMirror(rows, pair)
     THEN [rows[a] EXCEPT !.group = pair, !.truth = (a \in Actual)] ELSE rows[a]]

\* Without an answer from Ghostfolio nothing is classified.
SyncAccounts ==
  \E seen \in SUBSET Accounts : \E report \in Reports(seen) :
    account' = IF seen \cap Ghostfolio = {} THEN Upserted(report)
               ELSE Mirrored(Classified(Upserted(report), report))

(***************************************************************************)
(* What owners answer                                                      *)
(***************************************************************************)
\* An owner sets these rows to these values and the fields count as decided.
Decide(rows, fields) ==
  account' = [a \in DOMAIN account |->
                IF a \in DOMAIN rows
                THEN [rows[a] EXCEPT !.decided = account[a].decided \cup fields]
                ELSE account[a]]

\* PATCH accounts/:id: the kind, or whether the account counts.
PatchKind(a, kind) ==
  Decide([b \in {a} |-> [account[a] EXCEPT !.kind = kind]], {"kind"})
PatchCounts(a, counts) ==
  Decide([b \in {a} |-> [account[a] EXCEPT !.counts = counts]], {"counts"})

\* setDedupeGroup does not look at the groups its accounts are taken out of.
GroupAccounts(S, speaker) ==
  /\ Cardinality(S) >= 2 /\ speaker \in S
  /\ Decide([a \in S |-> [account[a] EXCEPT !.group = S, !.truth = (a = speaker)]],
            {"group", "truth"})

Members(g) == {a \in DOMAIN account : g # NoGroup /\ account[a].group = g}

\* setSourceOfTruth is exclusive in the group. An account in no group is its
\* own source of truth, and nothing is decided.
OnlyItself(a) == Members(account[a].group) \cap {a}
Silenced(a) == Members(account[a].group)
SetSourceOfTruth(a) ==
  /\ Silenced(a) # {}
  /\ Decide([b \in Silenced(a) |-> [account[b] EXCEPT !.truth = (b = a)]], {"truth"})

\* unlinkGroup takes the whole group apart.
Ungroup(a) ==
  LET group == Members(account[a].group) IN
  /\ group # {}
  /\ Decide([b \in group |-> [account[b] EXCEPT !.group = NoGroup, !.truth = TRUE]],
            {"group", "truth"})

\* dismissMirror: the answer that an account is a copy of nothing.
NotMirrored(a) ==
  /\ account[a].group = NoGroup
  /\ Decide([b \in {a} |-> account[a]], {"group"})

OwnerAnswers ==
  \/ \E a \in DOMAIN account, kind \in OwnerKinds : PatchKind(a, kind)
  \/ \E a \in DOMAIN account, counts \in BOOLEAN : PatchCounts(a, counts)
  \/ \E S \in SUBSET DOMAIN account : \E speaker \in S : GroupAccounts(S, speaker)
  \/ \E a \in DOMAIN account : SetSourceOfTruth(a)
  \/ \E a \in DOMAIN account : Ungroup(a)
  \/ \E a \in DOMAIN account : NotMirrored(a)

(***************************************************************************)
(* Properties                                                              *)
(***************************************************************************)
\* No sync takes back what a person has decided: the answer stands through any
\* renames, relabellings and derived groups, and a twin that is not decided does
\* not drag a decided one along (applyDerivedFields, applyDerivedMirror).
AnswersKept ==
  \A a \in DOMAIN account : \A f \in account[a].decided :
    a \in DOMAIN account' /\ account'[a][f] = account[a][f]

\* No group has two sources of truth, so no two of its accounts count; and a group
\* that still has all the accounts it was made for counts through exactly one of them,
\* unless a person has left that one out of net worth: money is neither counted twice
\* nor left out by anything but an answer (setSourceOfTruth, setDedupeGroup,
\* unlinkGroup, resolveInclusion).
Speakers(g) == {a \in Members(g) : account[a].truth}
LeftOut(a) == ~account[a].counts /\ "counts" \in account[a].decided
OneSpeaker ==
  \A g \in SUBSET DOMAIN account :
    /\ \A a, b \in Speakers(g) : a = b
    /\ (g # NoGroup /\ Members(g) = g) =>
         \E a \in Speakers(g) : account[a].counts \/ LeftOut(a)

\* What setDedupeGroup's comment asks for: no group counts as nothing at all.
EveryGroupHasASpeaker ==
  \A g \in SUBSET DOMAIN account : Members(g) # {} => Speakers(g) # {}
=============================================================================
