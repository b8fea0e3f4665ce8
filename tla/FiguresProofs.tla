---------------------------- MODULE FiguresProofs ----------------------------
(***************************************************************************)
(* Proofs about the figures a household is shown: the net worth series,    *)
(* for every set of accounts and every order of syncs, answers and jobs,   *)
(* and the calculations, for every input.                                  *)
(*                                                                         *)
(* The account map changes in Sync and Answer only. A group is the set it  *)
(* was made for, so an account in a group that is not one of it is what    *)
(* the proof has to exclude (Belongs).                                     *)
(*                                                                         *)
(* A calculation that walks over its input is a function defined by        *)
(* recursion: that there is one (WalkExists), and what holds of each of    *)
(* its values (InductionUpTo), follows from the numbers being well         *)
(* founded. Sums, and the places that a share or an occurrence has in its  *)
(* order, are counted by induction over finite sets (FiniteInduction).     *)
(* Each calculation has a theorem over its own inputs; the last part has   *)
(* the properties of the calculations run, which follow from those.        *)
(***************************************************************************)
EXTENDS NetWorth, MCCalculations, FiniteSetTheorems, WellFoundedInduction, SequenceTheorems, TLAPS

(***************************************************************************)
(* The account map                                                         *)
(***************************************************************************)
Groups == {a \in DOMAIN account : account[a].group # NoGroup}

\* An account is one of those its group was made for.
Belongs == \A a \in Groups : a \in account[a].group

\* At most one account of a group is its source of truth.
Alone ==
  \A a, b \in Groups :
    account[a].group = account[b].group /\ account[a].truth /\ account[b].truth => a = b

\* A group that has lost none of its accounts has a source of truth.
Full(g) == g # NoGroup /\ \A b \in g : b \in DOMAIN account /\ account[b].group = g
Voiced ==
  \A g \in SUBSET Accounts :
    Full(g) => \E b \in DOMAIN account : account[b].group = g /\ account[b].truth

\* A source of truth is decided together with the group, or inside one that is
\* given up only by a decision.
Answered ==
  \A a \in DOMAIN account :
    "truth" \in account[a].decided => "group" \in account[a].decided \/ a \in Groups

\* An account that does not count was left out by an answer.
LeftOutByAnswer ==
  \A a \in DOMAIN account : ~account[a].counts => "counts" \in account[a].decided

MapInv == MapTypeOK /\ Belongs /\ Alone /\ Voiced /\ Answered /\ LeftOutByAnswer

(***************************************************************************)
(* The sync                                                                *)
(***************************************************************************)
\* What a sync leaves of a row: everything decided, and the group of an account
\* that has one; a group it makes is a pair of one Actual account, which speaks, and
\* one Ghostfolio account, both ungrouped before and undecided.
NewPair(pair) ==
  /\ IsPair(pair)
  /\ \A a \in pair :
       /\ a \in DOMAIN account' /\ account'[a].group = pair /\ account'[a].truth = (a \in Actual)
       /\ a \in DOMAIN account => /\ account[a].group = NoGroup
                                  /\ "group" \notin account[a].decided
SyncShape ==
  /\ DOMAIN account \subseteq DOMAIN account'
  /\ \A a \in DOMAIN account :
       /\ account'[a].decided = account[a].decided
       /\ account'[a].counts = account[a].counts
       /\ "kind" \in account[a].decided => account'[a].kind = account[a].kind
  /\ \A a \in DOMAIN account' \ DOMAIN account :
       account'[a].decided = {} /\ account'[a].counts
  /\ \A a \in DOMAIN account' :
       \/ \E pair \in SUBSET Accounts : a \in pair /\ NewPair(pair)
       \/ /\ a \in DOMAIN account
          /\ account'[a].group = account[a].group /\ account'[a].truth = account[a].truth
       \/ a \notin DOMAIN account /\ account'[a].group = NoGroup

\* The reported rows are there, the old ones with all but their name.
RowsAfter(rows, seen) ==
  /\ DOMAIN rows = DOMAIN account \cup seen
  /\ \A a \in DOMAIN account \cup seen :
       /\ rows[a] \in Row
       /\ a \in DOMAIN account =>
            /\ rows[a].decided = account[a].decided /\ rows[a].counts = account[a].counts
            /\ rows[a].kind = account[a].kind
            /\ rows[a].group = account[a].group /\ rows[a].truth = account[a].truth
       /\ a \notin DOMAIN account =>
            rows[a].decided = {} /\ rows[a].counts /\ rows[a].group = NoGroup

LEMMA UpsertedRows ==
  ASSUME MapTypeOK, NEW seen \in SUBSET Accounts, NEW report \in Reports(seen)
  PROVE  RowsAfter(Upserted(report), seen)
<1>1. DOMAIN report = seen /\ \A a \in seen : report[a] \in Sighting
  BY DEF Reports
<1>2. DOMAIN Upserted(report) = DOMAIN account \cup seen
  BY <1>1 DEF Upserted
<1>3. ASSUME NEW a \in DOMAIN account \cup seen
      PROVE  Upserted(report)[a] = IF a \notin seen THEN account[a]
                                   ELSE IF a \in DOMAIN account
                                        THEN [account[a] EXCEPT !.name = report[a].name]
                                        ELSE NewRow(a, report[a])
  BY <1>1 DEF Upserted
<1>4. \A a \in DOMAIN account : account[a] \in Row
  BY DEF MapTypeOK
<1>5. ASSUME NEW a \in seen
      PROVE  /\ NewRow(a, report[a]) \in Row
             /\ NewRow(a, report[a]).decided = {} /\ NewRow(a, report[a]).group = NoGroup
             /\ NewRow(a, report[a]).counts
  BY <1>1 DEF NewRow, DerivedKind, Row, Kinds, Sighting, NoGroup
<1>6. ASSUME NEW a \in DOMAIN account \cup seen
      PROVE  /\ Upserted(report)[a] \in Row
             /\ a \in DOMAIN account =>
                  /\ Upserted(report)[a].decided = account[a].decided
                  /\ Upserted(report)[a].counts = account[a].counts
                  /\ Upserted(report)[a].kind = account[a].kind
                  /\ Upserted(report)[a].group = account[a].group
                  /\ Upserted(report)[a].truth = account[a].truth
             /\ a \notin DOMAIN account =>
                  /\ Upserted(report)[a].decided = {}
                  /\ Upserted(report)[a].counts
                  /\ Upserted(report)[a].group = NoGroup
  <2>1. CASE a \notin DOMAIN account
    <3>1. Upserted(report)[a] = NewRow(a, report[a]) /\ a \in seen
      BY <1>3, <2>1
    <3> QED BY <1>5, <2>1, <3>1
  <2>2. CASE a \in DOMAIN account /\ a \in seen
    <3>1. Upserted(report)[a] = [account[a] EXCEPT !.name = report[a].name]
      BY <1>3, <2>2
    <3>2. account[a] \in Row /\ report[a].name \in Names
      BY <1>1, <1>4, <2>2 DEF Sighting
    <3> QED BY <2>2, <3>1, <3>2 DEF Row
  <2>3. CASE a \in DOMAIN account /\ a \notin seen
    BY <1>3, <1>4, <2>3
  <2> QED BY <2>1, <2>2, <2>3
<1> QED
  BY <1>2, <1>6 DEF RowsAfter

LEMMA ClassifiedRows ==
  ASSUME NEW rows, \A a \in DOMAIN rows : rows[a] \in Row, NEW report
  PROVE  /\ DOMAIN Classified(rows, report) = DOMAIN rows
         /\ \A a \in DOMAIN rows :
              /\ Classified(rows, report)[a] \in Row
              /\ Classified(rows, report)[a].decided = rows[a].decided
              /\ Classified(rows, report)[a].counts = rows[a].counts
              /\ Classified(rows, report)[a].group = rows[a].group
              /\ Classified(rows, report)[a].truth = rows[a].truth
              /\ "kind" \in rows[a].decided => Classified(rows, report)[a].kind = rows[a].kind
<1>1. ASSUME NEW a \in DOMAIN rows
      PROVE  Classified(rows, report)[a] =
               IF a \in DOMAIN report \cap Ghostfolio /\ MayDerive(rows[a])
               THEN [rows[a] EXCEPT !.kind = DerivedKind(a, report[a])] ELSE rows[a]
  BY DEF Classified
<1>2. \A a \in DOMAIN report : DerivedKind(a, report[a]) \in Kinds
  BY DEF DerivedKind, Kinds
<1> QED
  BY <1>1, <1>2 DEF Classified, MayDerive, Row

LEMMA MirroredRows ==
  ASSUME NEW rows, DOMAIN rows \subseteq Accounts, \A a \in DOMAIN rows : rows[a] \in Row
  PROVE  /\ DOMAIN Mirrored(rows) = DOMAIN rows
         /\ \A a \in DOMAIN rows :
              /\ Mirrored(rows)[a] \in Row
              /\ Mirrored(rows)[a].decided = rows[a].decided
              /\ Mirrored(rows)[a].counts = rows[a].counts
              /\ Mirrored(rows)[a].kind = rows[a].kind
              /\ \/ /\ Mirrored(rows)[a].group = rows[a].group
                    /\ Mirrored(rows)[a].truth = rows[a].truth
                 \/ \E pair \in SUBSET DOMAIN rows :
                      /\ a \in pair /\ IsPair(pair)
                      /\ \A b \in pair :
                           /\ rows[b].group = NoGroup /\ "group" \notin rows[b].decided
                           /\ Mirrored(rows)[b].group = pair
                           /\ Mirrored(rows)[b].truth = (b \in Actual)
<1> DEFINE Alike(a) == Namesakes(rows, rows[a].name)
           Paired(a) == a \in Alike(a) /\ IsPair(Alike(a)) /\ MayMirror(rows, Alike(a))
<1>1. ASSUME NEW a \in DOMAIN rows
      PROVE  Mirrored(rows)[a] =
               IF Paired(a) THEN [rows[a] EXCEPT !.group = Alike(a), !.truth = (a \in Actual)]
               ELSE rows[a]
  BY DEF Mirrored
<1>2. \A a \in DOMAIN rows : Alike(a) \in SUBSET DOMAIN rows
  BY DEF Namesakes
<1>3. DOMAIN Mirrored(rows) = DOMAIN rows
  BY DEF Mirrored
<1>4. ASSUME NEW a \in DOMAIN rows, Paired(a), NEW b \in Alike(a)
      PROVE  /\ b \in DOMAIN rows /\ Alike(b) = Alike(a) /\ Paired(b)
             /\ rows[b].group = NoGroup /\ "group" \notin rows[b].decided
  <2>1. b \in DOMAIN rows /\ rows[b].name = rows[a].name /\ rows[b].group = NoGroup
    BY <1>4 DEF Namesakes
  <2>2. Alike(b) = Alike(a)
    BY <2>1
  <2> QED
    BY <1>4, <2>1, <2>2 DEF MayMirror
<1>5. ASSUME NEW a \in DOMAIN rows, Paired(a)
      PROVE  \E pair \in SUBSET DOMAIN rows :
               /\ a \in pair /\ IsPair(pair)
               /\ \A b \in pair :
                    /\ rows[b].group = NoGroup /\ "group" \notin rows[b].decided
                    /\ Mirrored(rows)[b].group = pair
                    /\ Mirrored(rows)[b].truth = (b \in Actual)
  <2>1. ASSUME NEW b \in Alike(a)
        PROVE  /\ rows[b].group = NoGroup /\ "group" \notin rows[b].decided
               /\ Mirrored(rows)[b].group = Alike(a)
               /\ Mirrored(rows)[b].truth = (b \in Actual)
    <3>1. Mirrored(rows)[b] = [rows[b] EXCEPT !.group = Alike(a), !.truth = (b \in Actual)]
      BY <1>1, <1>4, <1>5
    <3>2. b \in DOMAIN rows /\ rows[b] \in Row
      BY <1>4, <1>5
    <3> QED BY <1>4, <1>5, <3>1, <3>2 DEF Row
  <2> QED BY <1>2, <1>5, <2>1
<1>6. ASSUME NEW a \in DOMAIN rows
      PROVE  /\ Mirrored(rows)[a] \in Row
             /\ Mirrored(rows)[a].decided = rows[a].decided
             /\ Mirrored(rows)[a].counts = rows[a].counts
             /\ Mirrored(rows)[a].kind = rows[a].kind
             /\ ~Paired(a) => /\ Mirrored(rows)[a].group = rows[a].group
                              /\ Mirrored(rows)[a].truth = rows[a].truth
  <2>1. Alike(a) \in SUBSET Accounts /\ (a \in Actual) \in BOOLEAN /\ rows[a] \in Row
    BY <1>2
  <2> HIDE DEF Alike, Paired
  <2> QED BY <1>1, <2>1, ZenonT(40) DEF Row
<1> HIDE DEF Alike, Paired
<1> QED BY <1>3, <1>5, <1>6

LEMMA SyncShapes ==
  ASSUME MapTypeOK, SyncAccounts
  PROVE  MapTypeOK' /\ SyncShape
<1>0. PICK seen \in SUBSET Accounts : \E report \in Reports(seen) :
        account' = IF seen \cap Ghostfolio = {} THEN Upserted(report)
                   ELSE Mirrored(Classified(Upserted(report), report))
  BY DEF SyncAccounts
<1>1. PICK report \in Reports(seen) :
        account' = IF seen \cap Ghostfolio = {} THEN Upserted(report)
                   ELSE Mirrored(Classified(Upserted(report), report))
  BY <1>0
<1> DEFINE rows == Upserted(report)
           labelled == Classified(rows, report)
<1>2. /\ DOMAIN rows = DOMAIN account \cup seen /\ DOMAIN rows \subseteq Accounts
      /\ \A a \in DOMAIN rows :
           /\ rows[a] \in Row
           /\ a \in DOMAIN account =>
                /\ rows[a].decided = account[a].decided /\ rows[a].counts = account[a].counts
                /\ rows[a].kind = account[a].kind
                /\ rows[a].group = account[a].group /\ rows[a].truth = account[a].truth
           /\ a \notin DOMAIN account =>
                rows[a].decided = {} /\ rows[a].counts /\ rows[a].group = NoGroup
  <2>1. RowsAfter(rows, seen)
    BY <1>0, <1>1, UpsertedRows
  <2>2. DOMAIN account \subseteq Accounts
    BY DEF MapTypeOK
  <2> HIDE DEF rows
  <2> QED BY <1>0, <2>1, <2>2 DEF RowsAfter
<1>3. CASE seen \cap Ghostfolio = {}
  <2>1. account' = rows
    BY <1>1, <1>3
  <2> HIDE DEF rows
  <2>2. MapTypeOK'
    BY <1>2, <2>1 DEF MapTypeOK
  <2> QED BY <1>2, <2>1, <2>2 DEF SyncShape
<1>4. CASE seen \cap Ghostfolio # {}
  <2>1. account' = Mirrored(labelled)
    BY <1>1, <1>4
  <2> HIDE DEF rows
  <2>2. /\ DOMAIN labelled = DOMAIN rows
        /\ \A a \in DOMAIN rows :
             /\ labelled[a] \in Row
             /\ labelled[a].decided = rows[a].decided /\ labelled[a].counts = rows[a].counts
             /\ labelled[a].group = rows[a].group /\ labelled[a].truth = rows[a].truth
             /\ "kind" \in rows[a].decided => labelled[a].kind = rows[a].kind
    BY <1>2, ClassifiedRows
  <2> HIDE DEF labelled
  <2>3. /\ DOMAIN account' = DOMAIN labelled
        /\ \A a \in DOMAIN labelled :
             /\ account'[a] \in Row
             /\ account'[a].decided = labelled[a].decided /\ account'[a].counts = labelled[a].counts
             /\ account'[a].kind = labelled[a].kind
             /\ \/ /\ account'[a].group = labelled[a].group
                   /\ account'[a].truth = labelled[a].truth
                \/ \E pair \in SUBSET DOMAIN labelled :
                     /\ a \in pair /\ IsPair(pair)
                     /\ \A b \in pair :
                          /\ labelled[b].group = NoGroup /\ "group" \notin labelled[b].decided
                          /\ account'[b].group = pair
                          /\ account'[b].truth = (b \in Actual)
    <3>1. DOMAIN labelled \subseteq Accounts /\ \A a \in DOMAIN labelled : labelled[a] \in Row
      BY <1>2, <2>2
    <3>2. /\ DOMAIN Mirrored(labelled) = DOMAIN labelled
          /\ \A a \in DOMAIN labelled :
               /\ Mirrored(labelled)[a] \in Row
               /\ Mirrored(labelled)[a].decided = labelled[a].decided
               /\ Mirrored(labelled)[a].counts = labelled[a].counts
               /\ Mirrored(labelled)[a].kind = labelled[a].kind
               /\ \/ /\ Mirrored(labelled)[a].group = labelled[a].group
                     /\ Mirrored(labelled)[a].truth = labelled[a].truth
                  \/ \E pair \in SUBSET DOMAIN labelled :
                       /\ a \in pair /\ IsPair(pair)
                       /\ \A b \in pair :
                            /\ labelled[b].group = NoGroup /\ "group" \notin labelled[b].decided
                            /\ Mirrored(labelled)[b].group = pair
                            /\ Mirrored(labelled)[b].truth = (b \in Actual)
      BY <3>1, MirroredRows
    <3> QED BY <2>1, <3>2
  <2>4. MapTypeOK'
    BY <1>2, <2>2, <2>3 DEF MapTypeOK
  <2>5. ASSUME NEW a \in DOMAIN account', NEW pair \in SUBSET DOMAIN labelled, IsPair(pair),
               \A b \in pair : /\ labelled[b].group = NoGroup /\ "group" \notin labelled[b].decided
                               /\ account'[b].group = pair /\ account'[b].truth = (b \in Actual)
        PROVE  NewPair(pair) /\ pair \in SUBSET Accounts
    BY <1>2, <2>2, <2>3, <2>5 DEF NewPair
  <2>6. ASSUME NEW a \in DOMAIN account'
        PROVE  \/ \E pair \in SUBSET Accounts : a \in pair /\ NewPair(pair)
               \/ /\ a \in DOMAIN account
                  /\ account'[a].group = account[a].group /\ account'[a].truth = account[a].truth
               \/ a \notin DOMAIN account /\ account'[a].group = NoGroup
    <3>1. CASE account'[a].group = labelled[a].group /\ account'[a].truth = labelled[a].truth
      BY <1>2, <2>2, <2>3, <3>1
    <3>2. CASE \E pair \in SUBSET DOMAIN labelled :
                 /\ a \in pair /\ IsPair(pair)
                 /\ \A b \in pair :
                      /\ labelled[b].group = NoGroup /\ "group" \notin labelled[b].decided
                      /\ account'[b].group = pair
                      /\ account'[b].truth = (b \in Actual)
      BY <2>5, <3>2
    <3> QED BY <2>3, <3>1, <3>2
  <2>7. /\ DOMAIN account \subseteq DOMAIN account'
        /\ \A a \in DOMAIN account :
             /\ account'[a].decided = account[a].decided
             /\ account'[a].counts = account[a].counts
             /\ "kind" \in account[a].decided => account'[a].kind = account[a].kind
        /\ \A a \in DOMAIN account' \ DOMAIN account :
             account'[a].decided = {} /\ account'[a].counts
    BY <1>2, <2>2, <2>3
  <2> QED BY <2>4, <2>6, <2>7 DEF SyncShape
<1> QED BY <1>3, <1>4

\* A sync keeps what is known of groups and answers.
LEMMA SyncKeeps ==
  ASSUME MapInv, MapTypeOK', SyncShape, AccountMapAssumption
  PROVE  MapInv' /\ AnswersKept
<1> USE DEF MapInv
<1>1. \A pair \in SUBSET Accounts : NewPair(pair) =>
        /\ pair # NoGroup
        /\ \A a, b \in pair : a \in Actual /\ b \in Actual => a = b
        /\ \E a \in pair : a \in Actual
  BY DEF NewPair, IsPair, NoGroup, AccountMapAssumption
<1>2. Belongs'
  BY DEF Belongs, Groups, SyncShape, NewPair, NoGroup
\* An account whose group is that of a new pair is one of the pair.
<1>3. ASSUME NEW pair \in SUBSET Accounts, NewPair(pair), NEW a \in DOMAIN account',
             account'[a].group = pair
      PROVE  a \in pair /\ account'[a].truth = (a \in Actual)
  <2>1. a \in pair
    BY <1>1, <1>2, <1>3 DEF Belongs, Groups
  <2> QED BY <1>3, <2>1 DEF NewPair
<1>4. ASSUME NEW a \in Groups'
      PROVE  \/ NewPair(account'[a].group) /\ account'[a].group \in SUBSET Accounts
             \/ /\ a \in Groups
                /\ account'[a].group = account[a].group /\ account'[a].truth = account[a].truth
  BY <1>4 DEF SyncShape, Groups, NewPair
<1>5. Alone'
  <2> SUFFICES ASSUME NEW a \in Groups', NEW b \in Groups', account'[a].group = account'[b].group,
                      account'[a].truth, account'[b].truth
               PROVE  a = b
    BY DEF Alone
  <2>1. CASE NewPair(account'[a].group) /\ account'[a].group \in SUBSET Accounts
    <3>1. a \in DOMAIN account' /\ b \in DOMAIN account'
      BY DEF Groups
    <3>2. a \in account'[a].group /\ b \in account'[a].group /\ a \in Actual /\ b \in Actual
      BY <1>3, <2>1, <3>1
    <3> QED BY <1>1, <2>1, <3>2
  <2>2. CASE ~(NewPair(account'[a].group) /\ account'[a].group \in SUBSET Accounts)
    <3>1. /\ a \in Groups /\ account'[a].group = account[a].group /\ account[a].truth
          /\ b \in Groups /\ account'[b].group = account[b].group /\ account[b].truth
      BY <1>4, <2>2
    <3> QED BY <3>1 DEF Alone
  <2> QED BY <1>4, <2>1, <2>2
<1>6. Voiced'
  <2> SUFFICES ASSUME NEW g \in SUBSET Accounts, Full(g)'
               PROVE  \E b \in DOMAIN account' : account'[b].group = g /\ account'[b].truth
    BY DEF Voiced
  <2>1. CASE NewPair(g)
    <3>1. PICK a \in g : a \in Actual
      BY <1>1, <2>1
    <3> QED BY <2>1, <3>1 DEF NewPair
  <2>2. CASE ~NewPair(g)
    <3>1. \A b \in g : b \in Groups' /\ account'[b].group = g
      BY DEF Full, Groups
    <3>2. \A b \in g : b \in Groups /\ account[b].group = g /\ account'[b].truth = account[b].truth
      BY <1>4, <2>2, <3>1
    <3>3. Full(g)
      BY <3>2 DEF Full, Groups
    <3>4. PICK b \in DOMAIN account : account[b].group = g /\ account[b].truth
      BY <3>3 DEF Voiced
    <3>5. b \in g
      BY <3>3, <3>4 DEF Full, Belongs, Groups
    <3> QED BY <3>1, <3>2, <3>4, <3>5 DEF Groups
  <2> QED BY <2>1, <2>2
<1>7. Answered'
  <2> SUFFICES ASSUME NEW a \in DOMAIN account', "truth" \in account'[a].decided
               PROVE  "group" \in account'[a].decided \/ a \in Groups'
    BY DEF Answered
  <2>1. a \in DOMAIN account /\ account'[a].decided = account[a].decided
    BY DEF SyncShape
  <2>2. CASE a \in Groups
    BY <1>1, <2>1, <2>2 DEF SyncShape, NewPair, Groups
  <2> QED BY <2>1, <2>2 DEF Answered
<1>8. AnswersKept
  <2> SUFFICES ASSUME NEW a \in DOMAIN account, NEW f \in account[a].decided
               PROVE  a \in DOMAIN account' /\ account'[a][f] = account[a][f]
    BY DEF AnswersKept
  <2>1. f \in Fields
    BY DEF MapTypeOK, Row
  <2>2. a \in DOMAIN account'
    BY DEF SyncShape
  <2>3. CASE f = "kind"
    BY <2>2, <2>3 DEF SyncShape
  <2>4. CASE f = "counts"
    BY <2>2, <2>4 DEF SyncShape
  <2>5. CASE f \in {"group", "truth"}
    <3>1. "group" \in account[a].decided \/ a \in Groups
      BY <2>5 DEF Answered
    <3>2. account'[a].group = account[a].group /\ account'[a].truth = account[a].truth
      BY <2>2, <3>1 DEF SyncShape, NewPair, Groups
    <3> QED BY <2>2, <2>5, <3>2
  <2> QED BY <2>1, <2>3, <2>4, <2>5 DEF Fields
<1>9. LeftOutByAnswer'
  BY DEF SyncShape, LeftOutByAnswer
<1> QED BY <1>2, <1>5, <1>6, <1>7, <1>8, <1>9

(***************************************************************************)
(* What owners answer                                                      *)
(***************************************************************************)
\* An answer changes the rows it names and decides the fields it sets.
LEMMA Decided ==
  ASSUME MapTypeOK, NEW rows, NEW fields \in SUBSET Fields, Decide(rows, fields),
         \A a \in DOMAIN rows : a \in DOMAIN account => rows[a] \in Row
  PROVE  /\ MapTypeOK' /\ DOMAIN account' = DOMAIN account
         /\ \A a \in DOMAIN account :
              /\ a \in DOMAIN rows =>
                   /\ account'[a].group = rows[a].group /\ account'[a].truth = rows[a].truth
                   /\ account'[a].counts = rows[a].counts
                   /\ account'[a].decided = account[a].decided \cup fields
              /\ a \notin DOMAIN rows => account'[a] = account[a]
<1>1. DOMAIN account' = DOMAIN account
  BY DEF Decide
<1>2. ASSUME NEW a \in DOMAIN account
      PROVE  /\ account'[a] \in Row
             /\ a \in DOMAIN rows =>
                  /\ account'[a].group = rows[a].group /\ account'[a].truth = rows[a].truth
                  /\ account'[a].counts = rows[a].counts
                  /\ account'[a].decided = account[a].decided \cup fields
             /\ a \notin DOMAIN rows => account'[a] = account[a]
  <2>1. account[a] \in Row
    BY DEF MapTypeOK
  <2>2. CASE a \in DOMAIN rows
    <3>1. account'[a] = [rows[a] EXCEPT !.decided = account[a].decided \cup fields]
      BY <2>2 DEF Decide
    <3>2. rows[a] \in Row
      BY <2>2
    <3> QED BY <2>1, <2>2, <3>1, <3>2 DEF Row
  <2>3. CASE a \notin DOMAIN rows
    BY <2>1, <2>3 DEF Decide
  <2> QED BY <2>2, <2>3
<1> QED BY <1>1, <1>2 DEF MapTypeOK

\* Answers about one row's kind or counting leave the groups alone.
SameGroups ==
  /\ DOMAIN account' = DOMAIN account
  /\ \A a \in DOMAIN account :
       /\ account'[a].group = account[a].group /\ account'[a].truth = account[a].truth
       /\ "truth" \in account'[a].decided =>
            "truth" \in account[a].decided \/ "group" \in account'[a].decided
       /\ account[a].decided \subseteq account'[a].decided
       /\ account'[a].counts = account[a].counts \/ "counts" \in account'[a].decided

LEMMA SameGroupsKeep ==
  ASSUME MapInv, MapTypeOK', SameGroups
  PROVE  MapInv'
<1>1. Groups' = Groups
  BY DEF SameGroups, Groups
<1>2. \A a \in DOMAIN account :
        /\ a \in DOMAIN account'
        /\ account'[a].group = account[a].group /\ account'[a].truth = account[a].truth
  BY DEF SameGroups
<1>3. Belongs' /\ Alone'
  BY <1>1, <1>2 DEF MapInv, Belongs, Alone, Groups
<1>4. Voiced'
  <2>1. \A g \in SUBSET Accounts : Full(g)' => Full(g)
    BY DEF Full, SameGroups
  <2> QED BY <1>2, <2>1 DEF MapInv, Voiced
<1>5. Answered'
  BY <1>1 DEF MapInv, SameGroups, Answered
<1>6. LeftOutByAnswer'
  BY DEF MapInv, SameGroups, LeftOutByAnswer
<1> QED BY <1>3, <1>4, <1>5, <1>6 DEF MapInv

LEMMA GroupKeeps ==
  ASSUME MapInv, NEW S \in SUBSET DOMAIN account, NEW speaker \in S, GroupAccounts(S, speaker)
  PROVE  MapInv'
<1> USE DEF MapInv
<1> DEFINE rows == [a \in S |-> [account[a] EXCEPT !.group = S, !.truth = (a = speaker)]]
<1>1. S \in SUBSET Accounts /\ S # NoGroup
  BY DEF MapTypeOK, NoGroup
<1>2. \A a \in S : /\ rows[a] \in Row
                   /\ rows[a].group = S /\ rows[a].truth = (a = speaker)
                   /\ rows[a].counts = account[a].counts
  BY <1>1 DEF MapTypeOK, Row
<1>3. Decide(rows, {"group", "truth"}) /\ DOMAIN rows = S
  BY DEF GroupAccounts
<1> HIDE DEF rows
<1>4. /\ MapTypeOK' /\ DOMAIN account' = DOMAIN account
      /\ \A a \in S : /\ account'[a].group = S /\ account'[a].truth = (a = speaker)
                       /\ account'[a].counts = account[a].counts
                       /\ account'[a].decided = account[a].decided \cup {"group", "truth"}
      /\ \A a \in DOMAIN account \ S : account'[a] = account[a]
  BY <1>2, <1>3, Decided DEF Fields
<1>5. Belongs'
  BY <1>4 DEF Belongs, Groups
<1>6. \A a \in Groups' : account'[a].group = S => a \in S
  BY <1>5 DEF Belongs
<1>7. Alone'
  <2> SUFFICES ASSUME NEW a \in Groups', NEW b \in Groups', account'[a].group = account'[b].group,
                      account'[a].truth, account'[b].truth
               PROVE  a = b
    BY DEF Alone
  <2>1. a \in DOMAIN account /\ b \in DOMAIN account
    BY <1>4 DEF Groups
  <2>2. CASE account'[a].group = S
    <3>1. a \in S /\ b \in S
      BY <1>6, <2>2
    <3> QED BY <1>4, <3>1
  <2>3. CASE account'[a].group # S
    <3>1. account'[a] = account[a] /\ account'[b] = account[b]
      BY <1>4, <2>1, <2>3
    <3> QED BY <2>1, <3>1 DEF Alone, Groups
  <2> QED BY <2>2, <2>3
<1>8. ASSUME NEW g \in SUBSET Accounts, Full(g)'
      PROVE  \E b \in DOMAIN account' : account'[b].group = g /\ account'[b].truth
  <2>1. CASE g = S
    BY <1>4, <2>1
  <2>2. CASE g # S
    <3>1. \A b \in g : b \in DOMAIN account \ S /\ account[b].group = g
      BY <1>4, <1>8, <2>2 DEF Full
    <3>2. Full(g)
      BY <1>8, <3>1 DEF Full
    <3>3. PICK b \in DOMAIN account : account[b].group = g /\ account[b].truth
      BY <3>2 DEF Voiced
    <3>4. b \in g
      BY <3>2, <3>3 DEF Full, Belongs, Groups
    <3> QED BY <1>4, <3>1, <3>3, <3>4
  <2> QED BY <2>1, <2>2
<1>9. Answered'
  BY <1>1, <1>4 DEF Answered, Groups
<1>10. LeftOutByAnswer'
  BY <1>4 DEF LeftOutByAnswer
<1> QED BY <1>4, <1>5, <1>7, <1>8, <1>9, <1>10 DEF Voiced

LEMMA SpeakerKeeps ==
  ASSUME MapInv, NEW s \in DOMAIN account, SetSourceOfTruth(s)
  PROVE  MapInv'
<1> USE DEF MapInv
<1> DEFINE g == account[s].group
           rows == [b \in Members(g) |-> [account[b] EXCEPT !.truth = (b = s)]]
<1>1. Members(g) \in SUBSET DOMAIN account /\ g # NoGroup
  BY DEF SetSourceOfTruth, Silenced, Members
<1>2. \A b \in Members(g) : /\ rows[b] \in Row /\ account[b].group = g
                            /\ rows[b].group = g /\ rows[b].truth = (b = s)
                            /\ rows[b].counts = account[b].counts
  BY <1>1 DEF MapTypeOK, Row, Members
<1>3. Decide(rows, {"truth"}) /\ DOMAIN rows = Members(g)
  BY DEF SetSourceOfTruth, Silenced
<1>4. \A a \in DOMAIN account : a \in Members(g) <=> account[a].group = g
  BY <1>1 DEF Members
<1> HIDE DEF rows, g
<1>5. /\ MapTypeOK' /\ DOMAIN account' = DOMAIN account
      /\ \A a \in DOMAIN account :
           /\ account'[a].group = account[a].group
           /\ account[a].group = g => /\ account'[a].truth = (a = s)
                                      /\ account'[a].counts = account[a].counts
                                      /\ account'[a].decided = account[a].decided \cup {"truth"}
           /\ account[a].group # g => account'[a] = account[a]
  BY <1>1, <1>2, <1>3, <1>4, Decided DEF Fields
<1>6. account[s].group = g
  BY DEF g
<1>7. Groups' = Groups /\ \A a \in DOMAIN account : account[a].group = g => a \in Groups
  BY <1>1, <1>5 DEF Groups
<1>8. Belongs'
  BY <1>5, <1>7 DEF Belongs, Groups
<1>9. Alone'
  <2> SUFFICES ASSUME NEW a \in Groups, NEW b \in Groups, account'[a].group = account'[b].group,
                      account'[a].truth, account'[b].truth
               PROVE  a = b
    BY <1>7 DEF Alone
  <2>1. a \in DOMAIN account /\ b \in DOMAIN account /\ account[a].group = account[b].group
    BY <1>5 DEF Groups
  <2>2. CASE account[a].group = g
    BY <1>5, <2>1, <2>2
  <2>3. CASE account[a].group # g
    BY <1>5, <2>1, <2>3 DEF Alone
  <2> QED BY <2>2, <2>3
<1>10. Answered'
  BY <1>5, <1>7 DEF Answered
<1>11. ASSUME NEW h \in SUBSET Accounts, Full(h)'
       PROVE  \E b \in DOMAIN account' : account'[b].group = h /\ account'[b].truth
  <2>1. CASE h = g
    BY <1>5, <1>6, <2>1
  <2>2. CASE h # g
    <3>1. Full(h)
      BY <1>5, <1>11 DEF Full
    <3> QED BY <1>5, <2>2, <3>1 DEF Voiced
  <2> QED BY <2>1, <2>2
<1>12. LeftOutByAnswer'
  BY <1>5 DEF LeftOutByAnswer
<1> QED BY <1>5, <1>8, <1>9, <1>10, <1>11, <1>12 DEF Voiced

LEMMA UngroupKeeps ==
  ASSUME MapInv, NEW s \in DOMAIN account, Ungroup(s)
  PROVE  MapInv'
<1> USE DEF MapInv
<1> DEFINE g == account[s].group
           rows == [b \in Members(g) |-> [account[b] EXCEPT !.group = NoGroup, !.truth = TRUE]]
<1>1. Members(g) \in SUBSET DOMAIN account /\ g # NoGroup
  BY DEF Ungroup, Members
<1>2. \A b \in Members(g) : /\ rows[b] \in Row
                            /\ rows[b].group = NoGroup /\ rows[b].truth = TRUE
                            /\ rows[b].counts = account[b].counts
  BY <1>1 DEF MapTypeOK, Row, NoGroup
<1>3. Decide(rows, {"group", "truth"}) /\ DOMAIN rows = Members(g)
  BY DEF Ungroup
<1>4. \A a \in DOMAIN account : a \in Members(g) <=> account[a].group = g
  BY <1>1 DEF Members
<1> HIDE DEF rows, g
<1>5. /\ MapTypeOK' /\ DOMAIN account' = DOMAIN account
      /\ \A a \in DOMAIN account :
           /\ account[a].group = g =>
                /\ account'[a].group = NoGroup
                /\ account'[a].counts = account[a].counts
                /\ account'[a].decided = account[a].decided \cup {"group", "truth"}
           /\ account[a].group # g => account'[a] = account[a]
  BY <1>1, <1>2, <1>3, <1>4, Decided DEF Fields
<1>6. \A a \in Groups' : a \in Groups /\ account'[a] = account[a]
  BY <1>5 DEF Groups
<1>7. Belongs' /\ Alone'
  BY <1>6 DEF Belongs, Alone
<1>8. Answered'
  BY <1>5 DEF Answered, Groups
<1>9. ASSUME NEW h \in SUBSET Accounts, Full(h)'
      PROVE  \E b \in DOMAIN account' : account'[b].group = h /\ account'[b].truth
  <2>1. \A b \in h : b \in DOMAIN account /\ account'[b] = account[b]
    BY <1>6, <1>9 DEF Full, Groups
  <2>2. Full(h)
    BY <1>9, <2>1 DEF Full
  <2>3. PICK b \in DOMAIN account : account[b].group = h /\ account[b].truth
    BY <2>2 DEF Voiced
  <2>4. b \in h
    BY <2>2, <2>3 DEF Full, Belongs, Groups
  <2> QED BY <1>5, <2>1, <2>3, <2>4
<1>10. LeftOutByAnswer'
  BY <1>5 DEF LeftOutByAnswer
<1> QED BY <1>5, <1>7, <1>8, <1>9, <1>10 DEF Voiced

LEMMA PatchKindKeeps ==
  ASSUME MapInv, NEW s \in DOMAIN account, NEW kind \in OwnerKinds, PatchKind(s, kind)
  PROVE  MapInv'
<1> USE DEF MapInv
<1> DEFINE rows == [b \in {s} |-> [account[s] EXCEPT !.kind = kind]]
<1>1. /\ DOMAIN rows = {s} /\ rows[s] \in Row
      /\ rows[s].group = account[s].group /\ rows[s].truth = account[s].truth
      /\ rows[s].counts = account[s].counts
  BY DEF MapTypeOK, Row, Kinds
<1>2. Decide(rows, {"kind"})
  BY DEF PatchKind
<1> HIDE DEF rows
<1>3. MapTypeOK' /\ SameGroups
  BY <1>1, <1>2, Decided DEF Fields, SameGroups
<1> QED BY <1>3, SameGroupsKeep

LEMMA PatchCountsKeeps ==
  ASSUME MapInv, NEW s \in DOMAIN account, NEW counts \in BOOLEAN, PatchCounts(s, counts)
  PROVE  MapInv'
<1> USE DEF MapInv
<1> DEFINE rows == [b \in {s} |-> [account[s] EXCEPT !.counts = counts]]
<1>1. /\ DOMAIN rows = {s} /\ rows[s] \in Row
      /\ rows[s].group = account[s].group /\ rows[s].truth = account[s].truth
  BY DEF MapTypeOK, Row
<1>2. Decide(rows, {"counts"})
  BY DEF PatchCounts
<1> HIDE DEF rows
<1>3. MapTypeOK' /\ SameGroups
  BY <1>1, <1>2, Decided DEF Fields, SameGroups
<1> QED BY <1>3, SameGroupsKeep

LEMMA NotMirroredKeeps ==
  ASSUME MapInv, NEW s \in DOMAIN account, NotMirrored(s)
  PROVE  MapInv'
<1> USE DEF MapInv
<1> DEFINE rows == [b \in {s} |-> account[s]]
<1>1. /\ DOMAIN rows = {s} /\ rows[s] \in Row
      /\ rows[s].group = account[s].group /\ rows[s].truth = account[s].truth
      /\ rows[s].counts = account[s].counts
  BY DEF MapTypeOK
<1>2. Decide(rows, {"group"})
  BY DEF NotMirrored
<1> HIDE DEF rows
<1>3. MapTypeOK' /\ SameGroups
  BY <1>1, <1>2, Decided DEF Fields, SameGroups
<1> QED BY <1>3, SameGroupsKeep

LEMMA AnswersKeep == ASSUME MapInv, OwnerAnswers PROVE MapInv'
BY PatchKindKeeps, PatchCountsKeeps, GroupKeeps, SpeakerKeeps, UngroupKeeps, NotMirroredKeeps
DEF OwnerAnswers

(***************************************************************************)
(* The two jobs. What counts in a group is its source of truth, so of two  *)
(* accounts that are one group a job holds those alone that were a source  *)
(* of truth at one of its reads, whatever becomes of the map afterwards.   *)
(***************************************************************************)
Twin == [pair : SUBSET Accounts, spoke : SUBSET Accounts]
Job == [at : {"idle", "asking"}, date : Days, counting : SUBSET Accounts,
        twins : SUBSET Twin]
Filling == [at : {"idle", "charting", "collecting", "asking", "filling"}, months : SUBSET Nat,
            had : SUBSET Days, counting : SUBSET Accounts, open : SUBSET Accounts,
            held : SUBSET Accounts, twins : SUBSET Twin]

\* Of twins, the ones that are held have spoken.
Spoken(twins, held) ==
  \A t \in twins : /\ Cardinality(t.pair) = 2
                   /\ t.spoke \subseteq t.pair
                   /\ t.pair \cap held \subseteq t.spoke

\* The nightly job reads the map once, and one account of a group spoke then.
NightlyInv ==
  /\ nightly \in Job
  /\ Spoken(nightly.twins, nightly.counting)
  /\ \A t \in nightly.twins : \A a, b \in t.spoke : a = b

\* The backfill holds what counted when it read the map for Ghostfolio and, later,
\* for Actual; its months had no row when it began.
FillerHolds == filler.counting \cup filler.open
FillerInv ==
  /\ filler \in Filling
  /\ Spoken(filler.twins, FillerHolds)
  /\ filler.held \subseteq filler.counting
  /\ filler.at = "charting" => filler.held = {} /\ filler.open = {}
  /\ \A m \in filler.months : MonthEnd(m) \notin filler.had

IInv == MapInv /\ NightlyInv /\ FillerInv /\ DOMAIN snapshot = Days

\* Two accounts are never one.
LEMMA TwoAreNotOne ==
  ASSUME NEW p, Cardinality(p) = 2
  PROVE  \E a, b \in p : a # b
<1> SUFFICES ASSUME \A a, b \in p : a = b PROVE FALSE
  OBVIOUS
<1>1. p = {} \/ \E a \in p : p = {a}
  OBVIOUS
<1>2. p # {}
  BY FS_EmptySet
<1>3. PICK a \in p : p = {a}
  BY <1>1, <1>2
<1>4. Cardinality({a}) = 1
  BY FS_Singleton
<1> QED BY <1>3, <1>4

\* Of two accounts of one group, only a source of truth counts, and there is one.
LEMMA CountingSpeaks ==
  ASSUME MapInv
  PROVE  /\ Counting \subseteq Accounts
         /\ \A p \in Pairs : /\ p \in SUBSET Accounts /\ Cardinality(p) = 2
                             /\ Speaking(p) \subseteq p
                             /\ p \cap Counting \subseteq Speaking(p)
                             /\ \A a, b \in Speaking(p) : a = b
<1>1. DOMAIN account \subseteq Accounts
  BY DEF MapInv, MapTypeOK
<1>2. ASSUME NEW p \in Pairs
      PROVE  /\ p \in SUBSET Accounts /\ Cardinality(p) = 2
             /\ Speaking(p) \subseteq p
             /\ p \cap Counting \subseteq Speaking(p)
             /\ \A a, b \in Speaking(p) : a = b
  <2>1. p \in SUBSET DOMAIN account /\ Cardinality(p) = 2
    BY DEF Pairs
  <2>2. PICK g \in SUBSET Accounts : p \subseteq Members(g)
    BY DEF Pairs
  <2>3. \A a \in p : a \in Groups /\ account[a].group = g /\ account[a].group # NoGroup
    BY <2>2 DEF Members, Groups
  <2>4. p \cap Counting \subseteq Speaking(p)
    BY <2>3 DEF Counting, Counts, Speaking
  <2>5. \A a, b \in Speaking(p) : a = b
    BY <2>3 DEF MapInv, Alone, Speaking
  <2>6. Speaking(p) \subseteq p
    BY DEF Speaking
  <2> QED BY <1>1, <2>1, <2>4, <2>5, <2>6
<1> QED BY <1>1, <1>2 DEF Counting

\* So a job that reads the map holds no twin that has not spoken.
LEMMA TwinsSpeak ==
  ASSUME MapInv
  PROVE  /\ Twins \in SUBSET Twin /\ Spoken(Twins, Counting)
         /\ \A t \in Twins : \A a, b \in t.spoke : a = b
<1>1. ASSUME NEW t \in Twins
      PROVE  /\ t \in Twin /\ Cardinality(t.pair) = 2 /\ t.spoke \subseteq t.pair
             /\ t.pair \cap Counting \subseteq t.spoke
             /\ \A a, b \in t.spoke : a = b
  <2>1. PICK p \in Pairs : t = [pair |-> p, spoke |-> Speaking(p)]
    BY DEF Twins
  <2>2. /\ p \in SUBSET Accounts /\ Cardinality(p) = 2 /\ Speaking(p) \subseteq p
        /\ p \cap Counting \subseteq Speaking(p)
        /\ \A a, b \in Speaking(p) : a = b
    BY CountingSpeaks
  <2> QED BY <2>1, <2>2 DEF Twin
<1> QED BY <1>1 DEF Spoken

\* And one that reads it again adds what speaks now.
LEMMA StillSpoken ==
  ASSUME MapInv, NEW twins \in SUBSET Twin, NEW held, Spoken(twins, held),
         NEW open \in SUBSET Counting
  PROVE  StillTwins(twins) \in SUBSET Twin /\ Spoken(StillTwins(twins), held \cup open)
<1>1. ASSUME NEW t \in StillTwins(twins)
      PROVE  /\ t \in Twin /\ Cardinality(t.pair) = 2 /\ t.spoke \subseteq t.pair
             /\ t.pair \cap (held \cup open) \subseteq t.spoke
  <2>1. PICK u \in twins :
          u.pair \in Pairs /\ t = [pair |-> u.pair, spoke |-> u.spoke \cup Speaking(u.pair)]
    BY DEF StillTwins
  <2>2. /\ u.pair \in SUBSET Accounts /\ Speaking(u.pair) \subseteq u.pair
        /\ u.pair \cap Counting \subseteq Speaking(u.pair)
    BY <2>1, CountingSpeaks
  <2>3. /\ Cardinality(u.pair) = 2 /\ u.spoke \subseteq u.pair
        /\ u.pair \cap held \subseteq u.spoke
    BY DEF Spoken
  <2>4. t.pair = u.pair /\ t.spoke = u.spoke \cup Speaking(u.pair)
    BY <2>1
  <2>5. t \in Twin
    BY <2>1, <2>2, <2>3 DEF Twin
  <2> QED BY <2>2, <2>3, <2>4, <2>5
<1> QED BY <1>1 DEF Spoken

LEMMA InitInv == ASSUME Init, NetWorthAssumption PROVE IInv
<1>1. DOMAIN account = {}
  BY DEF Init, MapInit
<1>2. MapInv
  <2>1. Groups = {}
    BY <1>1 DEF Groups
  <2>2. \A g \in SUBSET Accounts : ~Full(g)
    BY <1>1 DEF Full, NoGroup
  <2> QED BY <1>1, <2>1, <2>2 DEF MapInv, MapTypeOK, Belongs, Alone, Voiced, Answered,
                               LeftOutByAnswer
<1>3. NightlyInv
  <2>1. 0 \in Days
    BY DEF Days, NetWorthAssumption
  <2> QED BY <2>1 DEF Init, IdleNightly, NightlyInv, Job, Spoken
<1>4. FillerInv
  <2>1. IdleFiller \in Filling
    BY DEF IdleFiller, Filling
  <2> QED BY <2>1 DEF Init, IdleFiller, FillerInv, FillerHolds, Spoken
<1>5. DOMAIN snapshot = Days
  BY DEF Init
<1> QED BY <1>2, <1>3, <1>4, <1>5 DEF IInv

(***************************************************************************)
(* The steps of the jobs                                                   *)
(***************************************************************************)
\* What is known of a job is about the job, whatever happens to the map.
LEMMA SameJobs ==
  /\ NightlyInv /\ UNCHANGED nightly => NightlyInv'
  /\ FillerInv /\ UNCHANGED filler => FillerInv'
BY DEF NightlyInv, FillerInv, FillerHolds, Spoken

LEMMA SameMap == ASSUME UNCHANGED account PROVE MapInv => MapInv'
<1>1. Groups' = Groups
  BY DEF Groups
<1> QED BY <1>1 DEF MapInv, MapTypeOK, Belongs, Alone, Voiced, Full, Answered, LeftOutByAnswer

LEMMA NightlyIdles == ASSUME NetWorthAssumption, nightly' = IdleNightly PROVE NightlyInv'
<1>1. 0 \in Days
  BY DEF Days, NetWorthAssumption
<1> QED BY <1>1 DEF IdleNightly, NightlyInv, Job, Spoken

LEMMA FillerIdles == ASSUME filler' = IdleFiller PROVE FillerInv'
<1>1. IdleFiller \in Filling
  BY DEF IdleFiller, Filling
<1> QED BY <1>1 DEF IdleFiller, FillerInv, FillerHolds, Spoken

\* One month less.
LEMMA MonthDone ==
  ASSUME FillerInv, NEW m \in Oldest, Done(m)
  PROVE  FillerInv'
<1>1. CASE filler' = IdleFiller
  BY <1>1, FillerIdles
<1>2. CASE filler' = [filler EXCEPT !.months = @ \ {m}]
  <2>1. /\ filler' \in Filling /\ filler'.months = filler.months \ {m}
        /\ filler'.twins = filler.twins /\ filler'.counting = filler.counting
        /\ filler'.open = filler.open /\ filler'.held = filler.held
        /\ filler'.had = filler.had /\ filler'.at = filler.at
    BY <1>2 DEF FillerInv, Filling
  <2> QED BY <2>1 DEF FillerInv, FillerHolds, Spoken
<1> QED BY <1>1, <1>2 DEF Done

LEMMA FillerSteps ==
  ASSUME IInv, StartBackfill \/ Chart \/ Collect \/ Scope
  PROVE  FillerInv'
<1> USE DEF IInv
<1>1. CASE StartBackfill
  <2>1. /\ Pending \subseteq Nat /\ \A m \in Pending : MonthEnd(m) \notin {d \in Days : Stored(d)}
    BY DEF Pending, Unstored, Settled
  <2>2. /\ filler' \in Filling /\ filler'.months = Pending /\ filler'.twins = {}
        /\ filler'.held = {} /\ filler'.open = {} /\ filler'.had = {d \in Days : Stored(d)}
    BY <1>1, <2>1 DEF StartBackfill, IdleFiller, Filling
  <2> QED BY <2>1, <2>2 DEF FillerInv, Spoken
<1>2. CASE Chart
  <2>1. /\ filler' \in Filling /\ filler'.months = filler.months /\ filler'.twins = Twins
        /\ filler'.held = {} /\ filler'.had = filler.had /\ filler'.at = "collecting"
        /\ filler'.counting = Counting /\ filler'.open = {}
    BY <1>2, CountingSpeaks, TwinsSpeak DEF Chart, FillerInv, Filling
  <2>2. FillerHolds' = Counting
    BY <2>1 DEF FillerHolds
  <2>3. Spoken(filler.twins, FillerHolds)'
    BY <2>1, <2>2, TwinsSpeak DEF Spoken
  <2> QED BY <2>1, <2>3 DEF FillerInv
<1>3. CASE Collect
  <2>1. PICK held \in SUBSET (Ghostfolio \cap filler.counting) :
          filler' = [filler EXCEPT !.at = "asking", !.held = held]
    BY <1>3 DEF Collect
  <2>2. /\ filler' \in Filling /\ filler'.months = filler.months /\ filler'.twins = filler.twins
        /\ filler'.held = held /\ filler'.had = filler.had /\ filler'.at = "asking"
        /\ filler'.counting = filler.counting /\ filler'.open = filler.open
    BY <2>1 DEF FillerInv, Filling, Accounts
  <2> QED BY <2>2 DEF FillerInv, FillerHolds, Spoken
<1>4. CASE Scope
  <2>1. PICK open \in SUBSET (Actual \cap Counting) :
          filler' = [filler EXCEPT !.at = "filling", !.open = open, !.twins = StillTwins(@)]
    BY <1>4 DEF Scope
  <2>2. filler.twins \in SUBSET Twin /\ Spoken(filler.twins, filler.counting)
    BY DEF FillerInv, Filling, FillerHolds, Spoken
  <2>3. /\ StillTwins(filler.twins) \in SUBSET Twin
        /\ Spoken(StillTwins(filler.twins), filler.counting \cup open)
    BY <2>2, StillSpoken
  <2>4. /\ filler' \in Filling /\ filler'.months = filler.months
        /\ filler'.twins = StillTwins(filler.twins)
        /\ filler'.held = filler.held /\ filler'.had = filler.had /\ filler'.at = "filling"
        /\ filler'.counting = filler.counting /\ filler'.open = open
    BY <2>1, <2>3 DEF FillerInv, Filling, Accounts
  <2>5. Spoken(filler.twins, FillerHolds)'
    BY <2>3, <2>4 DEF FillerHolds, Spoken
  <2> QED BY <2>4, <2>5 DEF FillerInv
<1> QED BY <1>1, <1>2, <1>3, <1>4

LEMMA NightlyStarts ==
  ASSUME IInv, today \in Days, StartNightly
  PROVE  NightlyInv'
<1>1. nightly' \in Job /\ nightly'.counting = Counting /\ nightly'.twins = Twins
  BY CountingSpeaks, TwinsSpeak DEF IInv, StartNightly, Job
<1> QED BY <1>1, TwinsSpeak DEF IInv, NightlyInv, Spoken

LEMMA StepInv ==
  ASSUME IInv, today \in Days, AccountMapAssumption, NetWorthAssumption, [Next]_vars
  PROVE  IInv' /\ today' \in Days
<1> USE DEF IInv
<1>1. CASE Sync
  BY <1>1, SyncShapes, SyncKeeps, SameJobs DEF Sync, MapInv, Days
<1>2. CASE Answer
  BY <1>2, AnswersKeep, SameJobs DEF Answer, Days
<1>3. CASE NextDay
  <2>1. today' \in Days
    BY <1>3, NetWorthAssumption DEF NextDay, Days
  <2> QED BY <1>3, <2>1, SameMap, SameJobs DEF NextDay, Days
<1>4. CASE StartNightly
  BY <1>4, NightlyStarts, SameMap, SameJobs DEF StartNightly, Days
<1>5. CASE FinishNightly
  BY <1>5, NightlyIdles, SameMap, SameJobs DEF FinishNightly, Days
<1>6. CASE FailNightly
  BY <1>6, NightlyIdles, SameMap, SameJobs DEF FailNightly, Days
<1>7. CASE StartBackfill \/ Chart \/ Collect \/ Scope
  <2>1. UNCHANGED <<account, today, snapshot, nightly>>
    BY <1>7 DEF StartBackfill, Chart, Collect, Scope
  <2> QED BY <1>7, <2>1, FillerSteps, SameMap, SameJobs DEF Days
<1>8. CASE FillMonth
  <2>1. UNCHANGED <<account, today, nightly>> /\ DOMAIN snapshot' = DOMAIN snapshot
    BY <1>8 DEF FillMonth
  <2>2. FillerInv'
    BY <1>8, <2>1, MonthDone DEF FillMonth
  <2> QED BY <2>1, <2>2, SameMap, SameJobs DEF Days
<1>9. CASE SkipMonth
  <2>1. UNCHANGED <<account, today, nightly, snapshot>>
    BY <1>9 DEF SkipMonth
  <2>2. FillerInv'
    BY <1>9, <2>1, MonthDone DEF SkipMonth
  <2> QED BY <2>1, <2>2, SameMap, SameJobs DEF Days
<1>10. CASE FailBackfill
  BY <1>10, FillerIdles, SameMap, SameJobs DEF FailBackfill, Days
<1>11. CASE UNCHANGED vars
  BY <1>11, SameMap, SameJobs DEF vars, Days
<1> QED
  BY <1>1, <1>2, <1>3, <1>4, <1>5, <1>6, <1>7, <1>8, <1>9, <1>10, <1>11 DEF Next

LEMMA InductiveInvariant == Spec => [](IInv /\ today \in Days)
<1>1. Init => IInv /\ today \in Days
  BY InitInv, NetWorthAssumption DEF Init, Days
<1>2. (IInv /\ today \in Days) /\ [Next]_vars => (IInv /\ today \in Days)'
  BY StepInv, AccountMapAssumption, NetWorthAssumption DEF Days
<1> QED BY <1>1, <1>2, PTL DEF Spec

(***************************************************************************)
(* The theorems                                                            *)
(***************************************************************************)
\* No group ever has two accounts that count, and one that is whole counts through one
\* unless a person has left that one out.
THEOREM GroupsCountOnce == Spec => []OneSpeaker
<1>1. IInv => OneSpeaker
  <2> SUFFICES ASSUME MapInv, NEW g \in SUBSET DOMAIN account
               PROVE  /\ \A a, b \in Speakers(g) : a = b
                      /\ (g # NoGroup /\ Members(g) = g) =>
                           \E a \in Speakers(g) : account[a].counts \/ LeftOut(a)
    BY DEF IInv, OneSpeaker
  <2>1. \A a, b \in Speakers(g) : a = b
    BY DEF MapInv, Alone, Speakers, Members, Groups
  <2>2. ASSUME g # NoGroup, Members(g) = g
        PROVE  \E a \in Speakers(g) : account[a].counts \/ LeftOut(a)
    <3>1. g \in SUBSET Accounts /\ Full(g)
      BY <2>2 DEF MapInv, MapTypeOK, Full, Members
    <3>2. PICK a \in DOMAIN account : account[a].group = g /\ account[a].truth
      BY <3>1 DEF MapInv, Voiced
    <3>3. a \in Speakers(g)
      BY <2>2, <3>2 DEF Speakers, Members
    <3>4. account[a].counts \/ LeftOut(a)
      BY DEF MapInv, LeftOutByAnswer, LeftOut
    <3> QED BY <3>3, <3>4
  <2> QED BY <2>1, <2>2
<1> QED BY <1>1, InductiveInvariant, PTL

\* What a person has decided survives every sync.
THEOREM AnswersStand == Spec => DecisionsStand
<1>1. IInv /\ [Next]_vars => [syncs' # syncs => AnswersKept]_vars
  <2> SUFFICES ASSUME IInv, [Next]_vars, syncs' # syncs
               PROVE  AnswersKept
    OBVIOUS
  <2>1. Sync
    BY DEF Next, vars, Answer, NextDay, StartNightly, FinishNightly, FailNightly, StartBackfill,
           Chart, Collect, Scope, FillMonth, SkipMonth, FailBackfill
  <2> QED BY <2>1, SyncShapes, SyncKeeps, AccountMapAssumption DEF Sync, IInv, MapInv
<1> QED BY <1>1, InductiveInvariant, PTL DEF Spec, DecisionsStand

\* What a job writes is a part of what it holds: the nightly job never writes both of
\* two accounts that were one group when it read the map, and the backfill only if the
\* source of truth was moved from the one to the other between its two reads.
THEOREM NothingCountsTwice == Spec => TwinsCountOnce
<1> DEFINE Once ==
      \A d \in Days : snapshot'[d] # snapshot[d] =>
        /\ nightly' # nightly => \A t \in nightly.twins : ~Both(t, d)
        /\ filler' # filler => \A t \in filler.twins : Both(t, d) => t.spoke = t.pair
<1>1. IInv /\ [Next]_vars => [Once]_vars
  <2> SUFFICES ASSUME IInv, [Next]_vars, NEW d \in Days, snapshot'[d] # snapshot[d]
               PROVE  /\ nightly' # nightly => \A t \in nightly.twins : ~Both(t, d)
                      /\ filler' # filler =>
                           \A t \in filler.twins : Both(t, d) => t.spoke = t.pair
    OBVIOUS
  <2>1. FinishNightly \/ FillMonth
    BY DEF Next, vars, Sync, Answer, NextDay, StartNightly, FailNightly, StartBackfill,
           Chart, Collect, Scope, SkipMonth, FailBackfill
  <2>2. CASE FinishNightly
    <3>1. snapshot'[d] \subseteq nightly.counting /\ filler' = filler
      BY <2>2 DEF FinishNightly, IInv
    <3>2. ASSUME NEW t \in nightly.twins, Both(t, d) PROVE FALSE
      <4>1. t.pair \subseteq t.spoke /\ Cardinality(t.pair) = 2
        BY <3>1, <3>2 DEF Both, IInv, NightlyInv, Spoken
      <4>2. \A a, b \in t.pair : a = b
        BY <4>1 DEF IInv, NightlyInv
      <4> QED BY <4>1, <4>2, TwoAreNotOne
    <3> QED BY <3>1, <3>2
  <2>3. CASE FillMonth
    <3>1. snapshot'[d] \subseteq FillerHolds /\ nightly' = nightly
      BY <2>3 DEF FillMonth, IInv, FillerInv, FillerHolds
    <3>2. ASSUME NEW t \in filler.twins, Both(t, d) PROVE t.spoke = t.pair
      BY <3>1, <3>2 DEF Both, IInv, FillerInv, Spoken
    <3> QED BY <3>1, <3>2
  <2> QED BY <2>1, <2>2, <2>3
<1> QED BY <1>1, InductiveInvariant, PTL DEF Spec, TwinsCountOnce

\* A backfill writes months that had no row when it began, and no other date.
THEOREM HistoryIsLeft == Spec => StoredDatesAreLeft
<1> DEFINE Left == filler' # filler => \A d \in filler.had : snapshot'[d] = snapshot[d]
<1>1. IInv /\ [Next]_vars => [Left]_vars
  <2> SUFFICES ASSUME IInv, [Next]_vars, filler' # filler, NEW d \in filler.had
               PROVE  snapshot'[d] = snapshot[d]
    OBVIOUS
  <2>1. CASE FillMonth
    <3>1. PICK m \in Oldest, started \in SUBSET filler.held :
            snapshot' = [snapshot EXCEPT ![MonthEnd(m)] = filler.open \cup started]
      BY <2>1 DEF FillMonth
    <3>2. MonthEnd(m) # d /\ d \in DOMAIN snapshot
      BY DEF Oldest, IInv, FillerInv, Filling
    <3> QED BY <3>1, <3>2
  <2>2. CASE ~FillMonth
    BY <2>2 DEF Next, vars, Sync, Answer, NextDay, StartNightly, FinishNightly, FailNightly,
                StartBackfill, Chart, Collect, Scope, SkipMonth, FailBackfill
  <2> QED BY <2>1, <2>2
<1> QED BY <1>1, InductiveInvariant, PTL DEF Spec, StoredDatesAreLeft

(***************************************************************************)
(* Induction                                                               *)
(***************************************************************************)
\* Induction: a set of numbers that has 0 and, with a number, the next one, has all.
LEMMA Induction ==
  ASSUME NEW S \in SUBSET Nat, 0 \in S, \A n \in S : n + 1 \in S
  PROVE  S = Nat
<1>1. SUFFICES ASSUME Nat \ S # {} PROVE FALSE
  OBVIOUS
<1>2. PICK x \in Nat \ S : \A y \in Nat \ S : ~(<<y, x>> \in OpToRel(<, Nat))
  BY <1>1, NatLessThanWellFounded, WFMin
<1>3. x # 0 /\ x \in Nat /\ x \notin S
  OBVIOUS
<1>0. x - 1 \in Nat /\ x - 1 < x /\ (x - 1) + 1 = x
  BY <1>3
<1>4. x - 1 \in S
  BY <1>2, <1>0 DEF OpToRel
<1>5. (x - 1) + 1 \in S
  BY <1>4
<1> QED BY <1>0, <1>3, <1>5

\* The same up to a bound.
LEMMA InductionUpTo ==
  ASSUME NEW n \in Nat, NEW S, 0 \in S, \A i \in 0 .. n - 1 : i \in S => i + 1 \in S
  PROVE  0 .. n \subseteq S
<1> DEFINE T == {i \in Nat : i <= n => i \in S}
<1>1. 0 \in T
  OBVIOUS
<1>2. ASSUME NEW i \in T PROVE i + 1 \in T
  OBVIOUS
<1>3. T \in SUBSET Nat
  OBVIOUS
<1> HIDE DEF T
<1>4. T = Nat
  BY <1>1, <1>2, <1>3, Induction
<1> QED BY <1>4 DEF T

\* A walk exists: a value for 0, and each next one from the one before.
StepTables(n, T) == [1 .. n -> [T -> T]]
Walks(g, T, c, n, F) == g \in [0 .. n -> T] /\ g[0] = c /\ \A i \in 1 .. n : g[i] = F[i][g[i - 1]]
LEMMA WalkExists ==
  ASSUME NEW T, NEW c \in T, NEW n \in Nat, NEW F \in StepTables(n, T)
  PROVE  \E g : Walks(g, T, c, n, F)
<1> DEFINE From(k) == {g \in [0 .. k -> T] : g[0] = c /\ \A i \in 1 .. k : g[i] = F[i][g[i - 1]]}
           S == {k \in 0 .. n : From(k) # {}}
<1>0. F \in [1 .. n -> [T -> T]]
  BY DEF StepTables
<1>1. 0 \in S
  <2>1. [i \in 0 .. 0 |-> c] \in From(0)
    OBVIOUS
  <2> QED BY <2>1
<1>2. ASSUME NEW k \in 0 .. n - 1, k \in S PROVE k + 1 \in S
  <2>1. PICK g \in [0 .. k -> T] : g[0] = c /\ \A i \in 1 .. k : g[i] = F[i][g[i - 1]]
    BY <1>2
  <2>2. k + 1 \in 1 .. n /\ k \in Nat /\ g[k] \in T
    BY <2>1
  <2>3. F[k + 1][g[k]] \in T
    BY <1>0, <2>2
  <2> DEFINE h == [i \in 0 .. k + 1 |-> IF i = k + 1 THEN F[k + 1][g[k]] ELSE g[i]]
  <2>4. h \in [0 .. k + 1 -> T]
    BY <2>1, <2>2, <2>3
  <2>5. h[0] = c
    BY <2>1, <2>2
  <2>6. ASSUME NEW i \in 1 .. k + 1 PROVE h[i] = F[i][h[i - 1]]
    <3>1. i - 1 \in 0 .. k /\ h[i - 1] = g[i - 1]
      BY <2>2
    <3>2. CASE i = k + 1
      BY <2>2, <3>1, <3>2
    <3>3. CASE i # k + 1
      BY <2>1, <2>2, <3>1, <3>3
    <3> QED BY <3>2, <3>3
  <2> HIDE DEF h
  <2>7. h \in From(k + 1)
    BY <2>4, <2>5, <2>6
  <2> QED BY <2>2, <2>7
<1> HIDE DEF S
<1>3. 0 .. n \subseteq S
  BY <1>1, <1>2, InductionUpTo
<1>4. n \in S
  BY <1>3
<1> QED BY <1>4 DEF S, Walks

\* The greatest of some numbers up to a bound is one of them.
LEMMA GreatestUpTo ==
  ASSUME NEW n \in Nat, NEW S \in SUBSET (0 .. n), S # {}
  PROVE  Max(S) \in S /\ \A k \in S : k <= Max(S)
<1> DEFINE Down == {n - k : k \in S}
<1>1. Down \subseteq Nat /\ Down # {}
  <2>1. \A k \in S : k \in Nat /\ k <= n /\ n - k \in Nat
    OBVIOUS
  <2>2. \E k \in S : n - k \in Down
    OBVIOUS
  <2> QED BY <2>1, <2>2
<1> HIDE DEF Down
<1>2. PICK x \in Down : \A y \in Down : ~(<<y, x>> \in OpToRel(<, Nat))
  BY <1>1, NatLessThanWellFounded, WFMin
<1>3. PICK m \in S : x = n - m
  BY DEF Down
<1>4. ASSUME NEW k \in S PROVE m >= k
  <2>1. n - k \in Down
    BY DEF Down
  <2>2. ~(n - k < x)
    BY <1>1, <1>2, <2>1 DEF OpToRel
  <2> QED BY <1>3, <2>2
<1>5. \E m1 \in S : \A k \in S : m1 >= k
  BY <1>4
<1>6. Max(S) \in S /\ \A k \in S : Max(S) >= k
  BY <1>5 DEF Max
<1> QED BY <1>6

\* An element of a sequence over a set is in the set.
LEMMA ElementIsIn ==
  ASSUME NEW T, NEW s \in Seq(T), NEW i \in 1 .. Len(s)
  PROVE  s[i] \in T
  OBVIOUS

\* A function on the first n numbers is a sequence of length n.
LEMMA SequenceOfLength ==
  ASSUME NEW T, NEW n \in Nat, NEW f \in [1 .. n -> T]
  PROVE  f \in Seq(T) /\ Len(f) = n
  OBVIOUS

(***************************************************************************)
(* The windows of a client. Both walks over the requests, the row and the  *)
(* instant at which the window opened, exist, and go together.             *)
(***************************************************************************)
CounterRows == [count : Nat, expires : Nat]
AfterRequest(row, times, swept, i) ==
  LET counted == Upsert(row, times[i])
  IN IF i \in swept THEN Sweep(counted, times[i]) ELSE counted

LEMMA RowsWalk ==
  ASSUME NEW times \in Seq(Nat), NEW swept
  PROVE  LET row == RowAfter(times, swept)
         IN /\ row \in [0 .. Len(times) -> CounterRows]
            /\ row[0] = NoRow
            /\ \A i \in 1 .. Len(times) : row[i] = AfterRequest(row[i - 1], times, swept, i)
<1> DEFINE Counter(f) == f = [i \in 0 .. Len(times) |->
                            IF i = 0 THEN NoRow
                            ELSE LET counted == Upsert(f[i - 1], times[i])
                                 IN IF i \in swept THEN Sweep(counted, times[i]) ELSE counted]
<1>1. NoRow \in CounterRows /\ Len(times) \in Nat
  BY DEF NoRow, CounterRows
<1>2. ASSUME NEW i \in 1 .. Len(times), NEW r \in CounterRows
      PROVE  AfterRequest(r, times, swept, i) \in CounterRows
  <2>1. times[i] \in Nat
    OBVIOUS
  <2>2. Upsert(r, times[i]) \in CounterRows
    BY <2>1, WindowAssumption, SMTT(30) DEF Upsert, Starts, Advances, CounterRows
  <2> QED BY <1>1, <2>2 DEF AfterRequest, Sweep
<1> DEFINE F == [i \in 1 .. Len(times) |-> [r \in CounterRows |-> AfterRequest(r, times, swept, i)]]
<1>3. F \in StepTables(Len(times), CounterRows)
  BY <1>2 DEF StepTables
<1>4. \A i \in 1 .. Len(times), r \in CounterRows : F[i][r] = AfterRequest(r, times, swept, i)
  OBVIOUS
<1> HIDE DEF F
<1>5a. PICK g : Walks(g, CounterRows, NoRow, Len(times), F)
  BY <1>1, <1>3, WalkExists, Zenon
<1>5. g \in [0 .. Len(times) -> CounterRows] /\ g[0] = NoRow /\ \A i \in 1 .. Len(times) : g[i] = F[i][g[i - 1]]
  BY <1>5a DEF Walks
<1>6. ASSUME NEW i \in 0 .. Len(times), i # 0
      PROVE  F[i][g[i - 1]] = AfterRequest(g[i - 1], times, swept, i)
  <2>1. i \in 1 .. Len(times) /\ i - 1 \in 0 .. Len(times)
    BY <1>1, <1>6
  <2>2. g[i - 1] \in CounterRows
    BY <1>5, <2>1
  <2> QED BY <1>4, <2>1, <2>2, Zenon
<1>7. g = [i \in 0 .. Len(times) |-> IF i = 0 THEN NoRow ELSE AfterRequest(g[i - 1], times, swept, i)]
  <2>1. ASSUME NEW i \in 0 .. Len(times)
        PROVE  g[i] = IF i = 0 THEN NoRow ELSE AfterRequest(g[i - 1], times, swept, i)
    <3>1. i # 0 => i \in 1 .. Len(times)
      BY <1>1
    <3> QED BY <1>5, <1>6, <3>1
  <2>2. g = [i \in 0 .. Len(times) |-> g[i]]
    BY <1>5
  <2> QED BY <2>1, <2>2, Zenon
<1>8. Counter(g)
  BY <1>7, Zenon DEF AfterRequest
<1>9. RowAfter(times, swept) = CHOOSE f : Counter(f)
  BY Zenon DEF RowAfter
<1>10. Counter(RowAfter(times, swept))
  BY <1>8, <1>9, Zenon
<1>11. PICK row : row = RowAfter(times, swept)
  OBVIOUS
<1>12. row = [i \in 0 .. Len(times) |-> IF i = 0 THEN NoRow ELSE AfterRequest(row[i - 1], times, swept, i)]
  BY <1>10, <1>11, Zenon DEF AfterRequest
<1>13. row[0] = NoRow /\ \A i \in 1 .. Len(times) : row[i] = AfterRequest(row[i - 1], times, swept, i)
  BY <1>1, <1>12
<1> DEFINE S == {i \in 0 .. Len(times) : row[i] \in CounterRows}
<1>14. 0 \in S
  BY <1>1, <1>13
<1>15. ASSUME NEW i \in 0 .. Len(times) - 1, i \in S PROVE i + 1 \in S
  <2>1. i + 1 \in 1 .. Len(times) /\ (i + 1) - 1 = i /\ row[i] \in CounterRows
    BY <1>1, <1>15
  <2> QED BY <1>2, <1>13, <2>1
<1>16. 0 .. Len(times) \subseteq S
  <2> HIDE DEF S
  <2> QED BY <1>1, <1>14, <1>15, InductionUpTo
<1>17. row \in [0 .. Len(times) -> CounterRows]
  BY <1>12, <1>16
<1> QED BY <1>11, <1>13, <1>17

LEMMA OpeningsWalk ==
  ASSUME NEW times \in Seq(Nat)
  PROVE  LET at == OpenedAt(times)
         IN \A i \in 1 .. Len(times) :
              at[i] = IF i > 1 /\ times[i] < at[i - 1] + Window THEN at[i - 1] ELSE times[i]
<1> DEFINE Opening(f) == f = [i \in 1 .. Len(times) |->
                                IF i > 1 /\ times[i] < f[i - 1] + Window THEN f[i - 1] ELSE times[i]]
           F == [i \in 1 .. Len(times) |-> [a \in Nat |->
                   IF i > 1 /\ times[i] < a + Window THEN a ELSE times[i]]]
<1>1. Len(times) \in Nat /\ \A i \in 1 .. Len(times) : times[i] \in Nat
  OBVIOUS
<1>2. F \in StepTables(Len(times), Nat)
  BY <1>1 DEF StepTables
<1>3. \A i \in 1 .. Len(times), a \in Nat :
        F[i][a] = IF i > 1 /\ times[i] < a + Window THEN a ELSE times[i]
  OBVIOUS
<1> HIDE DEF F
<1>4a. PICK g : Walks(g, Nat, 0, Len(times), F)
  <2>1. 0 \in Nat
    OBVIOUS
  <2> QED BY <1>1, <1>2, <2>1, WalkExists, Zenon
<1>4. g \in [0 .. Len(times) -> Nat] /\ \A i \in 1 .. Len(times) : g[i] = F[i][g[i - 1]]
  BY <1>4a DEF Walks
<1> DEFINE h == [i \in 1 .. Len(times) |-> g[i]]
<1>5. ASSUME NEW i \in 1 .. Len(times)
      PROVE  h[i] = IF i > 1 /\ times[i] < h[i - 1] + Window THEN h[i - 1] ELSE times[i]
  <2>1. i \in 0 .. Len(times) /\ i # 0 /\ i - 1 \in 0 .. Len(times) /\ (i > 1 => i - 1 \in 1 .. Len(times))
    BY <1>1
  <2>2. g[i] = F[i][g[i - 1]]
    BY <1>4, <2>1
  <2>3. g[i] = IF i > 1 /\ times[i] < g[i - 1] + Window THEN g[i - 1] ELSE times[i]
    BY <1>3, <1>4, <2>1, <2>2
  <2> QED BY <2>1, <2>3
<1>6. \E f : Opening(f)
  <2>1. h = [i \in 1 .. Len(times) |-> h[i]]
    OBVIOUS
  <2> HIDE DEF h
  <2>2. Opening(h)
    BY <1>5, <2>1
  <2> QED BY <2>2
<1>7. OpenedAt(times) = CHOOSE f : Opening(f)
  BY Zenon DEF OpenedAt
<1>8. Opening(OpenedAt(times))
  BY <1>6, <1>7, Zenon
<1> QED BY <1>8

InOrder(times) == \A i \in 1 .. Len(times) - 1 : times[i] <= times[i + 1]

\* A request is the nth of its window exactly when n - 1 came before it since the
\* window opened, whatever was swept: for every sequence of requests in the order of
\* their instants. Each row says when its window opened, and no window opened after
\* the newest.
THEOREM CountsEveryWindow ==
  ASSUME NEW times \in Seq(Nat), NEW swept, InOrder(times)
  PROVE  CountsItsWindow(times, swept)
<1>1. PICK row, at : row = RowAfter(times, swept) /\ at = OpenedAt(times)
  OBVIOUS
<1>2. /\ row[0] = NoRow
      /\ \A i \in 1 .. Len(times) : row[i] = AfterRequest(row[i - 1], times, swept, i)
  BY <1>1, RowsWalk
<1>3. \A i \in 1 .. Len(times) :
        at[i] = IF i > 1 /\ times[i] < at[i - 1] + Window THEN at[i - 1] ELSE times[i]
  BY <1>1, OpeningsWalk
<1>4. PICK n \in Nat : n = Len(times)
  OBVIOUS
<1>5. \A i \in 1 .. n : times[i] \in Nat
  BY <1>4
<1>6. \A i \in 1 .. n - 1 : times[i] <= times[i + 1]
  BY <1>4 DEF InOrder
<1> DEFINE Mates(i) == {j \in 1 .. i : at[j] = at[i]}
           Fits(i) == /\ row[i] = [count |-> Cardinality(Mates(i)), expires |-> at[i] + Window]
                      /\ at[i] \in Nat /\ at[i] <= times[i] /\ times[i] < at[i] + Window
                      /\ \A j \in 1 .. i : at[j] <= at[i] /\ at[j] \in Nat
           S == {i \in 0 .. n : i > 0 => Fits(i)}
<1>7. 0 \in S
  OBVIOUS
<1>8. ASSUME NEW i \in 0 .. n - 1, i \in S PROVE i + 1 \in S
  <2>1. i + 1 \in 1 .. n /\ (i + 1) - 1 = i /\ times[i + 1] \in Nat /\ i \in Nat
    BY <1>5
  <2>2. PICK t \in Nat : t = times[i + 1]
    BY <2>1
  <2>3. row[i + 1] = AfterRequest(row[i], times, swept, i + 1)
    BY <1>2, <1>4, <2>1
  <2>4. at[i + 1] = IF i + 1 > 1 /\ t < at[i] + Window THEN at[i] ELSE t
    BY <1>3, <1>4, <2>1, <2>2
  <2>5. CASE i = 0 \/ (i > 0 /\ t >= at[i] + Window)
    <3>1. i > 0 => Fits(i)
      BY <1>8
    <3>2. at[i + 1] = t
      BY <2>1, <2>4, <2>5, <3>1, WindowAssumption
    <3>3. \A j \in 1 .. i : at[j] < t /\ at[j] \in Nat
      <4>1. CASE i = 0
        BY <4>1
      <4>2. CASE i > 0
        <5>1. at[i] \in Nat /\ at[i] < t /\ \A j \in 1 .. i : at[j] <= at[i] /\ at[j] \in Nat
          <6>1. t >= at[i] + Window /\ Fits(i)
            BY <2>1, <2>5, <3>1, <4>2
          <6> QED BY <6>1, WindowAssumption
        <5> QED BY <5>1
      <4> QED BY <2>1, <4>1, <4>2
    <3>4. Mates(i + 1) = {i + 1}
      BY <2>1, <3>2, <3>3
    <3>5. Cardinality(Mates(i + 1)) = 1
      BY <3>4, FS_Singleton
    <3>6. row[i] = NoRow \/ row[i].expires <= t
      BY <1>2, <2>1, <2>5, <3>1
    <3>7. Upsert(row[i], t) = [count |-> 1, expires |-> t + Window]
      BY <3>6 DEF Upsert, Starts
    <3>8. row[i + 1] = [count |-> 1, expires |-> t + Window]
      BY <2>2, <2>3, <3>7, WindowAssumption DEF AfterRequest, Sweep
    <3>9. Fits(i + 1)
      <4>1. at[i + 1] \in Nat /\ at[i + 1] <= times[i + 1] /\ times[i + 1] < at[i + 1] + Window
        BY <2>2, <3>2, WindowAssumption
      <4>2. \A j \in 1 .. i + 1 : at[j] <= at[i + 1] /\ at[j] \in Nat
        <5>1. \A j \in 1 .. i + 1 : j \in 1 .. i \/ j = i + 1
          BY <2>1
        <5>2. \A j \in 1 .. i : at[j] <= t /\ at[j] \in Nat
          BY <3>3
        <5> QED BY <3>2, <5>1, <5>2
      <4>3. row[i + 1] = [count |-> Cardinality(Mates(i + 1)), expires |-> at[i + 1] + Window]
        BY <3>2, <3>5, <3>8
      <4> QED BY <4>1, <4>2, <4>3
    <3> QED BY <2>1, <3>9
  <2>6. CASE i > 0 /\ t < at[i] + Window
    <3>1. Fits(i)
      BY <1>8, <2>6
    <3>2. at[i + 1] = at[i]
      BY <2>1, <2>4, <2>6
    <3>3. PICK c : c = Cardinality(Mates(i))
      OBVIOUS
    <3>4. row[i] = [count |-> c, expires |-> at[i] + Window] /\ at[i] \in Nat
      BY <3>1, <3>3
    <3>5. Upsert(row[i], t) = [count |-> c + 1, expires |-> at[i] + Window]
      <4>1. row[i].expires = at[i] + Window /\ row[i].count = c
        BY <3>4
      <4>2. row[i] # NoRow /\ ~(row[i].expires <= t)
        BY <2>6, <3>4, <4>1, WindowAssumption DEF NoRow
      <4>3. Advances(row[i]) = [count |-> c + 1, expires |-> at[i] + Window]
        BY <3>4 DEF Advances
      <4> QED BY <4>2, <4>3 DEF Upsert
    <3>6. row[i + 1] = [count |-> c + 1, expires |-> at[i] + Window]
      BY <2>2, <2>3, <2>6, <3>4, <3>5, WindowAssumption DEF AfterRequest, Sweep
    <3>7. Mates(i + 1) = Mates(i) \cup {i + 1} /\ i + 1 \notin Mates(i)
      BY <2>1, <3>2
    <3>8. IsFiniteSet(Mates(i))
      <4>1. IsFiniteSet(1 .. i) /\ Mates(i) \subseteq 1 .. i
        <5>1. i \in Int /\ 1 \in Int
          BY <2>1
        <5>2. IsFiniteSet(1 .. i)
          BY <5>1, FS_Interval, Zenon
        <5> QED BY <5>2
      <4> QED BY <4>1, FS_Subset
    <3>9. Cardinality(Mates(i + 1)) = c + 1
      BY <3>3, <3>7, <3>8, FS_AddElement
    <3>10. \A j \in 1 .. i + 1 : at[j] <= at[i + 1] /\ at[j] \in Nat
      BY <2>1, <3>1, <3>2
    <3>11. times[i] <= t /\ times[i] \in Nat
      BY <1>5, <1>6, <2>1, <2>2, <2>6
    <3>12. Fits(i + 1)
      <4>1. at[i + 1] <= times[i + 1] /\ times[i + 1] < at[i + 1] + Window
        BY <2>2, <2>6, <3>1, <3>2, <3>11
      <4>2. row[i + 1] = [count |-> Cardinality(Mates(i + 1)), expires |-> at[i + 1] + Window]
        BY <3>2, <3>6, <3>9
      <4> QED BY <3>2, <3>4, <3>10, <4>1, <4>2
    <3> QED BY <2>1, <3>12
  <2>7. i > 0 => at[i] \in Nat
    BY <1>8
  <2> QED BY <2>1, <2>5, <2>6, <2>7, WindowAssumption
<1>9. 0 .. n \subseteq S
  <2> HIDE DEF S
  <2> QED BY <1>7, <1>8, InductionUpTo
<1>10. ASSUME NEW i \in 1 .. n PROVE row[i].count = Cardinality(Mates(i))
  <2>1. Fits(i)
    BY <1>9
  <2> QED BY <2>1
<1>11. \A i \in 1 .. Len(times) : row[i].count = Cardinality({j \in 1 .. i : at[j] = at[i]})
  BY <1>4, <1>10
<1> QED BY <1>1, <1>11 DEF CountsItsWindow

\* A peek and the request after it agree, whatever the row.
LEMMA PeeksAgree ==
  ASSUME NEW times \in Seq(Nat), NEW swept, NEW now \in Nat
  PROVE  PeekAgrees(times, swept, now)
<1>1. PICK row : row = RowAfter(times, swept)[Len(times)]
  OBVIOUS
<1>2. row \in CounterRows
  BY <1>1, RowsWalk
<1>3. Upsert(row, now).count = Read(row, now) + 1
  BY <1>2 DEF Upsert, Read, Starts, Advances, NoRow, CounterRows
<1> QED BY <1>1, <1>3 DEF PeekAgrees

(***************************************************************************)
(* The requests of one fetch                                               *)
(***************************************************************************)
AnswersOf(urls) == {Final, Invalid} \cup {Redirect(to) : to \in urls}
Asked(urls) == [url : urls, credentials : BOOLEAN]
Outcomes == {"response", "error", "invalid_location", "too_many", "loop", "denied"}
RequestsOf(urls) ==
  [url : urls, credentials : BOOLEAN, sent : Seq(Asked(urls)), outcome : Outcomes \cup {"open"}]
Modes == {"follow", "manual", "error"}

\* A turn sends the request and ends, or is led on by a redirect it may follow.
LEMMA TurnsEndOrLeadOn ==
  ASSUME NEW urls, NEW site \in [urls -> AnswersOf(urls)], NEW mode \in Modes, NEW q \in RequestsOf(urls)
  PROVE  LET r == Sent(q)
             answer == site[q.url]
             t == Turn(site, mode, q)
         IN \/ /\ \E o \in Outcomes : t = Ended(r, o)
               /\ t.outcome = "response" /\ mode = "follow" => answer.kind = "final"
            \/ /\ t = Redirected(r, answer)
               /\ answer.kind = "redirect" /\ answer.to \in urls
               /\ Len(r.sent) <= MaxRedirects
               /\ answer.to \notin Visited(r)
               /\ answer.to.host \in Configured
<1>1. PICK answer : answer = site[q.url]
  OBVIOUS
<1>2. answer = Final \/ answer = Invalid \/ \E to \in urls : answer = Redirect(to)
  BY <1>1 DEF AnswersOf, RequestsOf
<1>3. /\ answer.kind \in {"final", "invalid", "redirect"}
      /\ answer.kind = "redirect" => answer.to \in urls
  BY <1>2 DEF Final, Invalid, Redirect
<1>4. PICK r : r = Sent(q)
  OBVIOUS
<1>5. r.url = q.url /\ r.sent \in Seq(Asked(urls)) /\ r.outcome = q.outcome
  BY <1>4 DEF Sent, RequestsOf, Asked
<1>6. Len(r.sent) \in Nat
  BY <1>5
<1>7. \A o : Ended(r, o).outcome = o
  BY <1>4 DEF Ended, Sent, RequestsOf
<1>8. \/ /\ answer.kind = "final" \/ mode = "manual"
         /\ Turn(site, mode, q) = Ended(r, "response")
      \/ \E o \in {"error", "invalid_location", "too_many", "loop", "denied"} : Turn(site, mode, q) = Ended(r, o)
      \/ /\ Turn(site, mode, q) = Redirected(r, answer)
         /\ answer.kind \notin {"final", "invalid"}
         /\ ~(Len(r.sent) > MaxRedirects)
         /\ answer.to \notin Visited(r)
         /\ IsRedirectAllowed(answer.to)
  BY <1>1, <1>4, <1>5 DEF Turn
<1>9. CASE /\ answer.kind = "final" \/ mode = "manual"
           /\ Turn(site, mode, q) = Ended(r, "response")
  BY <1>1, <1>4, <1>9 DEF Outcomes
<1>10. CASE \E o \in {"error", "invalid_location", "too_many", "loop", "denied"} : Turn(site, mode, q) = Ended(r, o)
  BY <1>1, <1>4, <1>7, <1>10 DEF Outcomes
<1>11. CASE /\ Turn(site, mode, q) = Redirected(r, answer)
            /\ answer.kind \notin {"final", "invalid"}
            /\ ~(Len(r.sent) > MaxRedirects)
            /\ answer.to \notin Visited(r)
            /\ IsRedirectAllowed(answer.to)
  BY <1>1, <1>3, <1>4, <1>6, <1>11, RedirectsAssumption DEF IsRedirectAllowed
<1> QED BY <1>8, <1>9, <1>10, <1>11

\* The requests of a fetch, one after each redirect.
Step(site, mode, q) == IF q.outcome = "open" THEN Turn(site, mode, q) ELSE q
FirstRequest(url) == IF IsAllowed(url) THEN Request(url) ELSE Ended(Request(url), "denied")

LEMMA StepsStay ==
  ASSUME NEW urls, NEW site \in [urls -> AnswersOf(urls)], NEW mode \in Modes, NEW q \in RequestsOf(urls)
  PROVE  Step(site, mode, q) \in RequestsOf(urls)
<1>1. PICK r : r = Sent(q)
  OBVIOUS
<1>2. r \in RequestsOf(urls)
  <2>1. [url |-> q.url, credentials |-> q.credentials] \in Asked(urls)
    BY DEF Asked, RequestsOf
  <2>2. Append(q.sent, [url |-> q.url, credentials |-> q.credentials]) \in Seq(Asked(urls))
    BY <2>1 DEF RequestsOf
  <2> QED BY <1>1, <2>2 DEF Sent, RequestsOf
<1>3. ASSUME NEW o \in Outcomes PROVE Ended(r, o) \in RequestsOf(urls)
  BY <1>2 DEF Ended, RequestsOf
<1>4. ASSUME NEW to \in urls, NEW answer, answer.to = to PROVE Redirected(r, answer) \in RequestsOf(urls)
  <2>1. Credentials(r, to) \in BOOLEAN
    BY DEF Credentials
  <2> QED BY <1>2, <1>4, <2>1 DEF Redirected, RequestsOf
<1>5. Turn(site, mode, q) \in RequestsOf(urls)
  <2>1. CASE \E o \in Outcomes : Turn(site, mode, q) = Ended(r, o)
    BY <1>3, <2>1
  <2>2. CASE Turn(site, mode, q) = Redirected(r, site[q.url]) /\ site[q.url].to \in urls
    BY <1>4, <2>2
  <2> QED BY <1>1, <2>1, <2>2, TurnsEndOrLeadOn
<1> QED BY <1>5 DEF Step

LEMMA FetchWalk ==
  ASSUME NEW urls, NEW site \in [urls -> AnswersOf(urls)], NEW mode \in Modes, NEW url \in urls
  PROVE  \E after \in [0 .. MaxRedirects + 1 -> RequestsOf(urls)] :
           /\ after[0] = FirstRequest(url)
           /\ \A n \in 1 .. MaxRedirects + 1 : after[n] = Step(site, mode, after[n - 1])
           /\ Fetch(site, mode, url) = after[MaxRedirects + 1]
<1> DEFINE Follows(f) == f = [n \in 0 .. MaxRedirects + 1 |->
              IF n = 0 THEN IF IsAllowed(url) THEN Request(url) ELSE Ended(Request(url), "denied")
              ELSE IF f[n - 1].outcome = "open" THEN Turn(site, mode, f[n - 1]) ELSE f[n - 1]]
           F == [n \in 1 .. MaxRedirects + 1 |-> [q \in RequestsOf(urls) |-> Step(site, mode, q)]]
<1>1. FirstRequest(url) \in RequestsOf(urls)
  <2>1. <<>> \in Seq(Asked(urls))
    OBVIOUS
  <2>2. Request(url) \in RequestsOf(urls)
    BY <2>1 DEF Request, RequestsOf
  <2>3. Ended(Request(url), "denied") \in RequestsOf(urls)
    BY <2>2 DEF Ended, RequestsOf, Outcomes
  <2> QED BY <2>2, <2>3 DEF FirstRequest
<1>2. MaxRedirects + 1 \in Nat
  BY RedirectsAssumption
<1>3. F \in StepTables(MaxRedirects + 1, RequestsOf(urls))
  BY StepsStay DEF StepTables
<1>4. \A n \in 1 .. MaxRedirects + 1, q \in RequestsOf(urls) : F[n][q] = Step(site, mode, q)
  OBVIOUS
<1> HIDE DEF F
<1>5. PICK g : Walks(g, RequestsOf(urls), FirstRequest(url), MaxRedirects + 1, F)
  BY <1>1, <1>2, <1>3, WalkExists, Zenon
<1>6. /\ g \in [0 .. MaxRedirects + 1 -> RequestsOf(urls)] /\ g[0] = FirstRequest(url)
      /\ \A n \in 1 .. MaxRedirects + 1 : g[n] = F[n][g[n - 1]]
  BY <1>5 DEF Walks
<1>7. ASSUME NEW n \in 1 .. MaxRedirects + 1 PROVE g[n] = Step(site, mode, g[n - 1])
  <2>1. n - 1 \in 0 .. MaxRedirects + 1
    BY <1>2
  <2>2. g[n - 1] \in RequestsOf(urls)
    BY <1>6, <2>1
  <2> QED BY <1>4, <1>6, <2>2
<1>8. g = [n \in 0 .. MaxRedirects + 1 |-> IF n = 0 THEN FirstRequest(url) ELSE Step(site, mode, g[n - 1])]
  <2>1. ASSUME NEW n \in 0 .. MaxRedirects + 1 PROVE n # 0 => n \in 1 .. MaxRedirects + 1
    BY <1>2
  <2> QED BY <1>6, <1>7, <2>1
<1>9. Follows(g)
  BY <1>8, Zenon DEF FirstRequest, Step
<1>10. Follows(CHOOSE f : Follows(f))
  BY <1>9, Zenon
<1>11. Fetch(site, mode, url) = (CHOOSE f : Follows(f))[MaxRedirects + 1]
  BY Zenon DEF Fetch
<1>12. PICK after : after = CHOOSE f : Follows(f)
  OBVIOUS
<1>13. after = [n \in 0 .. MaxRedirects + 1 |-> IF n = 0 THEN FirstRequest(url) ELSE Step(site, mode, after[n - 1])]
  BY <1>10, <1>12, ZenonT(40) DEF FirstRequest, Step
<1>14. after[0] = FirstRequest(url) /\ \A n \in 1 .. MaxRedirects + 1 : after[n] = Step(site, mode, after[n - 1])
  BY <1>2, <1>13
<1> DEFINE S == {n \in 0 .. MaxRedirects + 1 : after[n] \in RequestsOf(urls)}
<1>15. 0 \in S
  BY <1>1, <1>2, <1>14
<1>16. ASSUME NEW n \in 0 .. (MaxRedirects + 1) - 1, n \in S PROVE n + 1 \in S
  <2>1. n + 1 \in 1 .. MaxRedirects + 1 /\ (n + 1) - 1 = n
    BY <1>2
  <2>2. after[n + 1] = Step(site, mode, after[n]) /\ after[n] \in RequestsOf(urls)
    BY <1>14, <1>16, <2>1
  <2> QED BY <2>1, <2>2, StepsStay
<1>17. 0 .. MaxRedirects + 1 \subseteq S
  <2> HIDE DEF S
  <2> QED BY <1>2, <1>15, <1>16, InductionUpTo
<1>18. after \in [0 .. MaxRedirects + 1 -> RequestsOf(urls)]
  BY <1>13, <1>17
<1> QED BY <1>11, <1>12, <1>14, <1>18

\* What a fetch has asked so far, in the terms of its promise.
Distinct(s) == \A i, j \in 1 .. Len(s) : i < j => s[i].url # s[j].url
Earned(s, i, site, url) ==
  /\ s[i].url.host \in Configured \/ (i = 1 /\ s[i].url.host \in Itself)
  /\ (s[i].credentials = TRUE) <=> \A k \in 1 .. i : Origin(s[k].url) = Origin(url)
  /\ i > 1 => site[s[i - 1].url].kind = "redirect" /\ site[s[i - 1].url].to = s[i].url
Traced(s, site, url) == Distinct(s) /\ \A i \in 1 .. Len(s) : Earned(s, i, site, url)

\* After n redirects an open request has asked n URLs and is on its way to a new one.
OnItsWay(r, site, url, n) ==
  r.outcome = "open" =>
    /\ Len(r.sent) = n /\ n <= MaxRedirects
    /\ \A i \in 1 .. n : r.sent[i].url # r.url
    /\ r.url.host \in Configured \/ (n = 0 /\ r.url.host \in Itself)
    /\ (r.credentials = TRUE) <=> (Origin(r.url) = Origin(url) /\ \A k \in 1 .. n : Origin(r.sent[k].url) = Origin(url))
    /\ n > 0 => site[r.sent[n].url].kind = "redirect" /\ site[r.sent[n].url].to = r.url

Over(r, site, mode, n) ==
  r.outcome # "open" =>
    /\ Len(r.sent) <= n
    /\ r.sent # <<>> /\ r.outcome = "response" /\ mode = "follow" => site[r.sent[Len(r.sent)].url].kind = "final"

\* One more URL asked keeps the trace.
LEMMA SendsKeepTheTrace ==
  ASSUME NEW urls, NEW site \in [urls -> AnswersOf(urls)], NEW q \in RequestsOf(urls), NEW url \in urls,
         NEW n \in Nat, Traced(q.sent, site, url), OnItsWay(q, site, url, n), q.outcome = "open"
  PROVE  /\ Traced(Sent(q).sent, site, url)
         /\ Len(Sent(q).sent) = n + 1
         /\ Sent(q).sent[n + 1] = [url |-> q.url, credentials |-> q.credentials]
         /\ Sent(q) \in RequestsOf(urls)
<1> DEFINE e == [url |-> q.url, credentials |-> q.credentials]
<1>1. q.sent \in Seq(Asked(urls)) /\ e \in Asked(urls) /\ Len(q.sent) = n
  BY DEF RequestsOf, Asked, OnItsWay
<1>2. PICK s : s = Append(q.sent, e)
  OBVIOUS
<1>3. s \in Seq(Asked(urls)) /\ Len(s) = n + 1 /\ s[n + 1] = e /\ \A i \in 1 .. n : s[i] = q.sent[i]
  BY <1>1, <1>2
<1>4. PICK r : r = Sent(q)
  OBVIOUS
<1>5. r.sent = s /\ r \in RequestsOf(urls)
  BY <1>2, <1>3, <1>4 DEF Sent, RequestsOf
<1>6. e.url = q.url /\ e.credentials = q.credentials
  OBVIOUS
<1> HIDE DEF e
<1>7. Distinct(s)
  <2>1. SUFFICES ASSUME NEW i \in 1 .. n + 1, NEW j \in 1 .. n + 1, i < j PROVE s[i].url # s[j].url
    BY <1>3 DEF Distinct
  <2>2. i \in 1 .. n /\ s[i] = q.sent[i]
    BY <1>3, <2>1
  <2>3. CASE j \in 1 .. n
    <3>1. s[j] = q.sent[j]
      BY <1>3, <2>3
    <3>2. q.sent[i].url # q.sent[j].url
      BY <1>1, <2>1, <2>2, <2>3 DEF Traced, Distinct
    <3> QED BY <2>2, <3>1, <3>2
  <2>4. CASE j = n + 1
    <3>1. q.sent[i].url # q.url
      BY <2>2 DEF OnItsWay
    <3> QED BY <1>3, <1>6, <2>2, <2>4, <3>1
  <2> QED BY <2>3, <2>4
<1>8. ASSUME NEW i \in 1 .. n + 1 PROVE Earned(s, i, site, url)
  <2>1. CASE i \in 1 .. n
    <3>1. \A k \in 1 .. i : s[k] = q.sent[k]
      BY <1>3, <2>1
    <3>2. s[i] = q.sent[i] /\ (i > 1 => s[i - 1] = q.sent[i - 1])
      BY <1>3, <2>1
    <3>3. Earned(q.sent, i, site, url)
      BY <1>1, <2>1 DEF Traced
    <3>4. (\A k \in 1 .. i : Origin(s[k].url) = Origin(url))
            <=> \A k \in 1 .. i : Origin(q.sent[k].url) = Origin(url)
      BY <3>1
    <3>5. (s[i].credentials = TRUE) <=> \A k \in 1 .. i : Origin(s[k].url) = Origin(url)
      BY <3>2, <3>3, <3>4 DEF Earned
    <3>6. s[i].url.host \in Configured \/ (i = 1 /\ s[i].url.host \in Itself)
      BY <3>2, <3>3 DEF Earned
    <3>7. i > 1 => site[s[i - 1].url].kind = "redirect" /\ site[s[i - 1].url].to = s[i].url
      BY <3>2, <3>3 DEF Earned
    <3> QED BY <3>5, <3>6, <3>7 DEF Earned
  <2>2. CASE i = n + 1
    <3>1. s[i].url = q.url /\ s[i].credentials = q.credentials
      BY <1>3, <1>6, <2>2
    <3>2. s[i].url.host \in Configured \/ (i = 1 /\ s[i].url.host \in Itself)
      BY <2>2, <3>1 DEF OnItsWay
    <3>3. (s[i].credentials = TRUE) <=> \A k \in 1 .. i : Origin(s[k].url) = Origin(url)
      <4>1. \A k \in 1 .. i : k \in 1 .. n \/ k = i
        BY <2>2
      <4>2. 1 .. n \subseteq 1 .. i /\ i \in 1 .. i
        BY <2>2
      <4>3. (\A k \in 1 .. i : Origin(s[k].url) = Origin(url))
              <=> (Origin(q.url) = Origin(url) /\ \A k \in 1 .. n : Origin(q.sent[k].url) = Origin(url))
        <5>1. \A k \in 1 .. n : Origin(s[k].url) = Origin(q.sent[k].url)
          BY <1>3
        <5>2. Origin(s[i].url) = Origin(q.url)
          BY <3>1
        <5> QED BY <4>1, <4>2, <5>1, <5>2
      <4> QED BY <3>1, <4>3 DEF OnItsWay
    <3>4. i > 1 => site[s[i - 1].url].kind = "redirect" /\ site[s[i - 1].url].to = s[i].url
      <4>1. n > 0 => site[q.sent[n].url].kind = "redirect" /\ site[q.sent[n].url].to = q.url
        BY DEF OnItsWay
      <4>2. i > 1 => n > 0 /\ i - 1 = n /\ s[n] = q.sent[n]
        BY <1>3, <2>2
      <4> QED BY <3>1, <4>1, <4>2
    <3> QED BY <3>2, <3>3, <3>4 DEF Earned
  <2>3. i \in 1 .. n \/ i = n + 1
    OBVIOUS
  <2> QED BY <2>1, <2>2, <2>3
<1>9. Traced(s, site, url)
  BY <1>3, <1>7, <1>8 DEF Traced
<1> QED BY <1>3, <1>4, <1>5, <1>9 DEF e

Sane(r, site, mode, url, n) ==
  /\ r.sent \in Seq([url : DOMAIN site, credentials : BOOLEAN])
  /\ Traced(r.sent, site, url)
  /\ OnItsWay(r, site, url, n)
  /\ Over(r, site, mode, n)

\* A redirect that may be followed leads to a URL not asked yet, with the caller's
\* credentials if all the way so far was the caller's origin.
LEMMA LedOnIsOnItsWay ==
  ASSUME NEW urls, NEW site \in [urls -> AnswersOf(urls)], NEW q \in RequestsOf(urls), NEW url \in urls,
         NEW n \in Nat, Traced(q.sent, site, url), OnItsWay(q, site, url, n), q.outcome = "open",
         site[q.url].kind = "redirect", site[q.url].to \in urls, Len(Sent(q).sent) <= MaxRedirects,
         site[q.url].to \notin Visited(Sent(q)), site[q.url].to.host \in Configured
  PROVE  LET t == Redirected(Sent(q), site[q.url])
         IN t.outcome = "open" /\ t.sent = Sent(q).sent /\ OnItsWay(t, site, url, n + 1)
<1>1. PICK r, to, s : r = Sent(q) /\ to = site[q.url].to /\ s = r.sent
  OBVIOUS
<1>2. /\ Traced(s, site, url) /\ Len(s) = n + 1 /\ r \in RequestsOf(urls)
      /\ s[n + 1] = [url |-> q.url, credentials |-> q.credentials]
  BY <1>1, SendsKeepTheTrace
<1>3. s \in Seq(Asked(urls)) /\ r.url = q.url /\ r.credentials = q.credentials /\ r.outcome = "open"
  BY <1>1, <1>2 DEF Sent, RequestsOf
<1>4. PICK t : t = Redirected(r, site[q.url])
  OBVIOUS
<1>5. t.url = to /\ t.sent = s /\ t.outcome = "open" /\ t.credentials = Credentials(r, to)
  BY <1>1, <1>2, <1>3, <1>4 DEF Redirected, RequestsOf
<1>6. \A i \in 1 .. n + 1 : s[i].url # to
  BY <1>1, <1>2, <1>3 DEF Visited
<1>7. (q.credentials = TRUE) <=> (Origin(q.url) = Origin(url) /\ \A k \in 1 .. n : Origin(q.sent[k].url) = Origin(url))
  BY DEF OnItsWay
<1>8. \A k \in 1 .. n : s[k] = q.sent[k]
  <2>1. q.sent \in Seq(Asked(urls)) /\ Len(q.sent) = n /\ [url |-> q.url, credentials |-> q.credentials] \in Asked(urls)
    BY DEF RequestsOf, Asked, OnItsWay
  <2>2. s = Append(q.sent, [url |-> q.url, credentials |-> q.credentials])
    BY <1>1 DEF Sent, RequestsOf
  <2> QED BY <2>1, <2>2
<1>9. (t.credentials = TRUE) <=> (Origin(to) = Origin(url) /\ \A k \in 1 .. n + 1 : Origin(s[k].url) = Origin(url))
  <2>1. (t.credentials = TRUE) <=> (q.credentials = TRUE /\ Origin(q.url) = Origin(to))
    BY <1>3, <1>5 DEF Credentials, RequestsOf
  <2>2. s[n + 1].url = q.url
    BY <1>2
  <2>3. (\A k \in 1 .. n + 1 : Origin(s[k].url) = Origin(url))
          <=> (Origin(q.url) = Origin(url) /\ \A k \in 1 .. n : Origin(q.sent[k].url) = Origin(url))
    <3>1. \A k \in 1 .. n + 1 : k \in 1 .. n \/ k = n + 1
      OBVIOUS
    <3>2. 1 .. n \subseteq 1 .. n + 1 /\ n + 1 \in 1 .. n + 1
      OBVIOUS
    <3> QED BY <1>8, <2>2, <3>1, <3>2
  <2> QED BY <1>7, <2>1, <2>3
<1>10. OnItsWay(t, site, url, n + 1)
  BY <1>1, <1>2, <1>5, <1>6, <1>9 DEF OnItsWay
<1> QED BY <1>1, <1>4, <1>5, <1>10

LEMMA StepsAreSane ==
  ASSUME NEW urls, NEW site \in [urls -> AnswersOf(urls)], NEW mode \in Modes, NEW q \in RequestsOf(urls),
         NEW url \in urls, NEW n \in Nat, Sane(q, site, mode, url, n)
  PROVE  Sane(Step(site, mode, q), site, mode, url, n + 1)
<1>1. Step(site, mode, q) \in RequestsOf(urls)
  BY StepsStay
<1>2. PICK t : t = Step(site, mode, q)
  OBVIOUS
<1>3. t.sent \in Seq([url : DOMAIN site, credentials : BOOLEAN])
  BY <1>1, <1>2 DEF RequestsOf, Asked
<1>4. CASE q.outcome # "open"
  <2>1. t = q
    BY <1>2, <1>4 DEF Step
  <2>2. Len(q.sent) <= n + 1
    <3>1. Len(q.sent) \in Nat /\ Len(q.sent) <= n
      BY <1>4 DEF Sane, Over
    <3> QED BY <3>1
  <2>3. OnItsWay(q, site, url, n + 1)
    BY <1>4 DEF OnItsWay
  <2>4. Over(q, site, mode, n + 1)
    BY <1>4, <2>2 DEF Sane, Over
  <2> QED BY <1>2, <2>1, <2>3, <2>4 DEF Sane
<1>5. CASE q.outcome = "open"
  <2>1. t = Turn(site, mode, q)
    BY <1>2, <1>5 DEF Step
  <2>2. PICK s : s = Sent(q).sent
    OBVIOUS
  <2>3. Traced(s, site, url) /\ Len(s) = n + 1 /\ Sent(q) \in RequestsOf(urls) /\ s[n + 1].url = q.url
    <3>1. Traced(q.sent, site, url) /\ OnItsWay(q, site, url, n)
      BY DEF Sane
    <3>2. /\ Traced(Sent(q).sent, site, url)
          /\ Len(Sent(q).sent) = n + 1
          /\ Sent(q).sent[n + 1] = [url |-> q.url, credentials |-> q.credentials]
          /\ Sent(q) \in RequestsOf(urls)
      BY <1>5, <3>1, SendsKeepTheTrace
    <3> QED BY <2>2, <3>2
  <2>4. CASE /\ \E o \in Outcomes : t = Ended(Sent(q), o)
             /\ t.outcome = "response" /\ mode = "follow" => site[q.url].kind = "final"
    <3>1. t.sent = s /\ t.outcome # "open"
      BY <2>2, <2>3, <2>4 DEF Ended, Outcomes, RequestsOf
    <3>2. Over(t, site, mode, n + 1)
      BY <2>3, <2>4, <3>1 DEF Over
    <3>3. OnItsWay(t, site, url, n + 1)
      BY <3>1 DEF OnItsWay
    <3> QED BY <1>2, <1>3, <2>3, <3>1, <3>2, <3>3 DEF Sane
  <2>5. CASE /\ t = Redirected(Sent(q), site[q.url])
             /\ site[q.url].kind = "redirect" /\ site[q.url].to \in urls
             /\ Len(Sent(q).sent) <= MaxRedirects
             /\ site[q.url].to \notin Visited(Sent(q))
             /\ site[q.url].to.host \in Configured
    <3>1. t.outcome = "open" /\ t.sent = s /\ OnItsWay(t, site, url, n + 1)
      BY <1>5, <2>2, <2>5, LedOnIsOnItsWay DEF Sane
    <3>2. Over(t, site, mode, n + 1)
      BY <3>1 DEF Over
    <3> QED BY <1>2, <1>3, <2>3, <3>1, <3>2 DEF Sane
  <2>6. \/ /\ \E o \in Outcomes : t = Ended(Sent(q), o)
           /\ t.outcome = "response" /\ mode = "follow" => site[q.url].kind = "final"
        \/ /\ t = Redirected(Sent(q), site[q.url])
           /\ site[q.url].kind = "redirect" /\ site[q.url].to \in urls
           /\ Len(Sent(q).sent) <= MaxRedirects
           /\ site[q.url].to \notin Visited(Sent(q))
           /\ site[q.url].to.host \in Configured
    BY <2>1, TurnsEndOrLeadOn
  <2> QED BY <2>4, <2>5, <2>6
<1> QED BY <1>4, <1>5

\* Following ends, asks no URL twice and no host that is not configured, loopback only
\* as the caller's own target, and leaves the credentials with the origin they were
\* given for: whatever the site answers, however many redirects are allowed.
THEOREM FollowingIsSafe ==
  ASSUME NEW urls, NEW site \in [urls -> AnswersOf(urls)], NEW mode \in Modes, NEW url \in urls
  PROVE  FollowsSafely(site, mode, url)
<1>1. PICK after \in [0 .. MaxRedirects + 1 -> RequestsOf(urls)] :
        /\ after[0] = FirstRequest(url)
        /\ \A n \in 1 .. MaxRedirects + 1 : after[n] = Step(site, mode, after[n - 1])
        /\ Fetch(site, mode, url) = after[MaxRedirects + 1]
  BY FetchWalk
<1>2. PICK m \in Nat : m = MaxRedirects + 1
  BY RedirectsAssumption
<1> DEFINE S == {n \in 0 .. m : Sane(after[n], site, mode, url, n)}
<1>3. 0 \in S
  <2>1. PICK q : q = FirstRequest(url)
    OBVIOUS
  <2>2. /\ q.sent = <<>> /\ q.url = url /\ q.credentials = TRUE
        /\ q.outcome \in {"open", "denied"} /\ (q.outcome = "open" => IsAllowed(url))
    BY <2>1 DEF FirstRequest, Request, Ended
  <2>3. q.sent \in Seq([url : DOMAIN site, credentials : BOOLEAN]) /\ Len(q.sent) = 0
    BY <2>2
  <2>4. Traced(q.sent, site, url)
    BY <2>3 DEF Traced, Distinct
  <2>5. OnItsWay(q, site, url, 0)
    BY <2>2, <2>3, RedirectsAssumption DEF OnItsWay, IsAllowed
  <2>6. Over(q, site, mode, 0)
    BY <2>2, <2>3 DEF Over
  <2> QED BY <1>1, <1>2, <2>1, <2>3, <2>4, <2>5, <2>6 DEF Sane
<1>4. ASSUME NEW n \in 0 .. m - 1, n \in S PROVE n + 1 \in S
  <2>1. n \in Nat /\ n \in 0 .. m /\ n + 1 \in 1 .. m /\ (n + 1) - 1 = n /\ n + 1 \in 0 .. m
    OBVIOUS
  <2>2. after[n] \in RequestsOf(urls) /\ after[n + 1] = Step(site, mode, after[n])
    BY <1>1, <1>2, <2>1
  <2>3. Sane(after[n], site, mode, url, n)
    BY <1>4
  <2> QED BY <2>1, <2>2, <2>3, StepsAreSane
<1>5. 0 .. m \subseteq S
  <2> HIDE DEF S
  <2> QED BY <1>3, <1>4, InductionUpTo
<1> DEFINE r == Fetch(site, mode, url)
           asked == [i \in DOMAIN r.sent |-> r.sent[i].url]
<1>6. r = after[m]
  BY <1>1, <1>2
<1>60. asked = [i \in DOMAIN r.sent |-> r.sent[i].url]
  OBVIOUS
<1> HIDE DEF r, asked
<1>7. Sane(r, site, mode, url, m)
  BY <1>5, <1>6
<1>8. r.outcome # "open" /\ Over(r, site, mode, m)
  BY <1>2, <1>7, RedirectsAssumption DEF Sane, OnItsWay
<1>9. PICK s, l : s = r.sent /\ l = Len(s)
  OBVIOUS
<1>10. s \in Seq([url : DOMAIN site, credentials : BOOLEAN]) /\ l \in Nat /\ DOMAIN s = 1 .. l
  BY <1>7, <1>9 DEF Sane
<1>12. DOMAIN asked = 1 .. l /\ Len(asked) = l /\ \A i \in 1 .. l : asked[i] = s[i].url
  BY <1>9, <1>10, <1>60
<1>13. r.outcome # "open" /\ Len(r.sent) <= MaxRedirects + 1
  BY <1>2, <1>8 DEF Over
<1>14. \A i, j \in DOMAIN asked : i < j => asked[i] # asked[j]
  BY <1>7, <1>9, <1>12 DEF Sane, Traced, Distinct
<1>15. ASSUME NEW i \in DOMAIN asked
       PROVE  /\ asked[i].host \in Configured \/ (i = 1 /\ asked[i].host \in Itself)
              /\ r.sent[i].credentials <=> \A k \in 1 .. i : Origin(asked[k]) = Origin(url)
              /\ i > 1 => site[asked[i - 1]].kind = "redirect" /\ site[asked[i - 1]].to = asked[i]
  <2>1. i \in 1 .. l /\ Earned(s, i, site, url)
    BY <1>7, <1>9, <1>12 DEF Sane, Traced
  <2>2. \A k \in 1 .. i : asked[k] = s[k].url
    BY <1>12, <2>1
  <2>3. asked[i].host \in Configured \/ (i = 1 /\ asked[i].host \in Itself)
    BY <1>12, <2>1 DEF Earned
  <2>4. (s[i].credentials = TRUE) <=> \A k \in 1 .. i : Origin(asked[k]) = Origin(url)
    BY <2>1, <2>2 DEF Earned
  <2>5. s[i].credentials \in BOOLEAN
    <3>1. s[i] \in [url : DOMAIN site, credentials : BOOLEAN]
      BY <1>9, <1>10, <2>1, ElementIsIn, Zenon
    <3>2. \A x \in [url : DOMAIN site, credentials : BOOLEAN] : x.credentials \in BOOLEAN
      OBVIOUS
    <3> QED BY <3>1, <3>2, Zenon
  <2>6. r.sent[i].credentials <=> \A k \in 1 .. i : Origin(asked[k]) = Origin(url)
    BY <1>9, <2>4, <2>5, Zenon
  <2>7. i > 1 => site[asked[i - 1]].kind = "redirect" /\ site[asked[i - 1]].to = asked[i]
    <3>1. i > 1 => i - 1 \in 1 .. l
      BY <1>10, <2>1
    <3> QED BY <1>12, <2>1, <3>1 DEF Earned
  <2> QED BY <2>3, <2>6, <2>7
<1>16. r.sent # <<>> /\ r.outcome = "response" /\ mode = "follow" => site[asked[Len(asked)]].kind = "final"
  <2>1. s # <<>> => l \in 1 .. l
    BY <1>9, <1>10
  <2> QED BY <1>8, <1>9, <1>12, <2>1 DEF Over
<1> QED BY <1>13, <1>14, <1>15, <1>16, Zenon DEF FollowsSafely, r, asked

(***************************************************************************)
(* The months of a class outside its band                                  *)
(***************************************************************************)
MonthEnds == [month : Int, share : Int, measured : BOOLEAN]
Rising(history) == \A i, j \in 1 .. Len(history) : i < j => history[i].month < history[j].month

\* The chain is the longest run of measured months without a gap, newest first.
Unbroken(history, k) ==
  \A i \in 1 .. k :
    /\ history[Len(history) + 1 - i].measured
    /\ i > 1 => history[Len(history) + 1 - i].month = history[Len(history) + 2 - i].month - 1

LEMMA ChainIsLongest ==
  ASSUME NEW history \in Seq(MonthEnds)
  PROVE  \E c \in 0 .. Len(history) :
           /\ Unbroken(history, c)
           /\ \A k \in 0 .. Len(history) : Unbroken(history, k) => k <= c
           /\ Chain(history) = [i \in 1 .. c |-> StateOf(history[Len(history) + 1 - i].share)]
           /\ MonthsObserved(history) = c
<1>1. PICK n \in Nat : n = Len(history)
  OBVIOUS
<1> DEFINE holds == {k \in 0 .. n : Unbroken(history, k)}
<1>2. 0 \in holds
  BY DEF Unbroken
<1>3. Max(holds) \in holds /\ \A k \in holds : k <= Max(holds)
  <2>1. holds \in SUBSET (0 .. n) /\ holds # {}
    BY <1>2
  <2> HIDE DEF holds
  <2> QED BY <2>1, GreatestUpTo
<1>4. Chain(history) = [i \in 1 .. Max(holds) |-> StateOf(history[n + 1 - i].share)]
  BY <1>1, Zenon DEF Chain, Unbroken
<1>5. PICK c : c = Max(holds)
  OBVIOUS
<1>6. c \in 0 .. n /\ Unbroken(history, c) /\ \A k \in 0 .. n : Unbroken(history, k) => k <= c
  BY <1>3, <1>5
<1>7. Chain(history) = [i \in 1 .. c |-> StateOf(history[n + 1 - i].share)]
  BY <1>4, <1>5
<1>8. Len(Chain(history)) = c
  BY <1>6, <1>7
<1> QED BY <1>1, <1>6, <1>7, <1>8 DEF MonthsObserved

\* m is the length of the longest run of one state at the head of a chain.
LongestRun(m, chain, state, c) ==
  /\ m \in 0 .. c
  /\ \A i \in 1 .. m : chain[i] = state
  /\ \A k \in 0 .. c : (\A i \in 1 .. k : chain[i] = state) => k <= m

LEMMA MonthsAreLongest ==
  ASSUME NEW history, NEW state, state # "inside", NEW c \in Nat, c = Len(Chain(history))
  PROVE  \E m : /\ LongestRun(m, Chain(history), state, c)
                /\ MonthsOutside(state, history) = IF m > 1 THEN m ELSE 1
<1> DEFINE same == {k \in 0 .. c : \A i \in 1 .. k : Chain(history)[i] = state}
<1>1. same \in SUBSET (0 .. c) /\ 0 \in same
  OBVIOUS
<1>2. Max(same) \in same /\ \A k \in same : k <= Max(same)
  <2> HIDE DEF same
  <2>1. same # {}
    BY <1>1
  <2> QED BY <1>1, <2>1, GreatestUpTo
<1>3. MonthsOutside(state, history) = IF Max(same) > 1 THEN Max(same) ELSE 1
  BY DEF MonthsOutside
<1>4. PICK m : m = Max(same)
  OBVIOUS
<1>5. LongestRun(m, Chain(history), state, c)
  BY <1>2, <1>4 DEF LongestRun
<1> QED BY <1>3, <1>4, <1>5

\* Along the chain every month is one before the next newer.
LEMMA MonthsAlongTheChain ==
  ASSUME NEW history \in Seq(MonthEnds), NEW c \in 0 .. Len(history), Unbroken(history, c)
  PROVE  \A i \in 1 .. c : history[Len(history) + 1 - i].month = history[Len(history)].month - (i - 1)
<1>1. PICK n \in Nat : n = Len(history)
  OBVIOUS
<1>2. \A i \in 1 .. n : history[i].month \in Int
  <2>1. \A i \in 1 .. n : history[i] \in MonthEnds
    BY <1>1, ElementIsIn
  <2> QED BY <2>1 DEF MonthEnds
<1>20. \A i \in 1 .. c : i > 1 => history[n + 1 - i].month = history[n + 2 - i].month - 1
  BY <1>1, Zenon DEF Unbroken
<1> DEFINE S == {i \in 0 .. c : i > 0 => history[n + 1 - i].month = history[n].month - (i - 1)}
<1>3. 0 \in S
  OBVIOUS
<1>4. ASSUME NEW i \in 0 .. c - 1, i \in S PROVE i + 1 \in S
  <2>1. i + 1 \in 1 .. c /\ i \in Nat /\ n \in 1 .. n /\ c <= n
    BY <1>1
  <2>2. PICK a \in Int : a = history[n].month
    BY <1>2, <2>1
  <2>3. CASE i = 0
    <3>1. n + 1 - (i + 1) = n /\ a - ((i + 1) - 1) = a
      BY <2>3
    <3>2. history[n + 1 - (i + 1)].month = a - ((i + 1) - 1)
      BY <2>2, <3>1
    <3> QED BY <2>1, <2>2, <3>2
  <2>4. CASE i > 0
    <3>1. history[n + 1 - (i + 1)].month = history[n + 2 - (i + 1)].month - 1
      <4>1. PICK j \in 1 .. c : j = i + 1 /\ j > 1
        BY <2>1, <2>4
      <4>2. history[n + 1 - j].month = history[n + 2 - j].month - 1
        BY <1>20, <4>1
      <4> QED BY <4>1, <4>2
    <3>2. n + 2 - (i + 1) = n + 1 - i /\ (i + 1) - 1 = i
      BY <2>1
    <3>3. history[n + 1 - i].month = a - (i - 1)
      BY <1>4, <2>2, <2>4
    <3>4. history[n + 1 - (i + 1)].month = (a - (i - 1)) - 1
      BY <3>1, <3>2, <3>3
    <3>5. (a - (i - 1)) - 1 = a - ((i + 1) - 1)
      BY <2>1
    <3>6. history[n + 1 - (i + 1)].month = a - ((i + 1) - 1)
      BY <3>4, <3>5
    <3> QED BY <2>1, <2>2, <3>6
  <2> QED BY <2>1, <2>3, <2>4
<1>5. 0 .. c \subseteq S
  <2>1. c \in Nat
    OBVIOUS
  <2> HIDE DEF S
  <2> QED BY <1>3, <1>4, <2>1, InductionUpTo
<1> QED BY <1>1, <1>5

\* A class is said to be outside for exactly the months it was seen outside on that
\* side without a break, a month nobody could measure being a break: for every history
\* with one entry a month, and any band.
THEOREM MonthsAreEarned ==
  ASSUME NEW history \in Seq(MonthEnds), Rising(history), NEW state
  PROVE  CountIsEarned(state, history)
<1>1. PICK n \in Nat : n = Len(history)
  OBVIOUS
<1>2. PICK c \in 0 .. n :
        /\ Unbroken(history, c)
        /\ \A k \in 0 .. n : Unbroken(history, k) => k <= c
        /\ Chain(history) = [i \in 1 .. c |-> StateOf(history[n + 1 - i].share)]
        /\ MonthsObserved(history) = c
  BY <1>1, ChainIsLongest
<1>3. CASE state = "inside"
  BY <1>3 DEF CountIsEarned, MonthsOutside
<1>4. CASE state # "inside"
  <2>1. PICK chain : chain = Chain(history)
    OBVIOUS
  <2>2. c \in Nat /\ c = Len(chain)
    BY <1>2, <2>1 DEF MonthsObserved
  <2>3. PICK m \in 0 .. c :
          /\ \A i \in 1 .. m : chain[i] = state
          /\ \A k \in 0 .. c : (\A i \in 1 .. k : chain[i] = state) => k <= m
          /\ MonthsOutside(state, history) = IF m > 1 THEN m ELSE 1
    <3>1. c = Len(Chain(history))
      BY <2>1, <2>2
    <3>2. PICK k : /\ LongestRun(k, Chain(history), state, c)
                   /\ MonthsOutside(state, history) = IF k > 1 THEN k ELSE 1
      BY <1>4, <2>2, <3>1, MonthsAreLongest, Zenon
    <3> QED BY <2>1, <3>2 DEF LongestRun
  <2>4. PICK num : num = MonthsOutside(state, history)
    OBVIOUS
  <2>5. num \in Nat /\ num >= 1 /\ (num > 1 => num = m) /\ (m >= 1 => num = m)
    BY <2>3, <2>4
  <2>6. \A i \in 1 .. n : history[i] \in MonthEnds /\ history[i].month \in Int
    <3>1. \A i \in 1 .. n : history[i] \in MonthEnds
      BY <1>1, ElementIsIn
    <3> QED BY <3>1 DEF MonthEnds
  <2>7. PICK newest : newest = history[Len(history)].month
    OBVIOUS
  <2>8. n > 0 => newest \in Int /\ newest = history[n].month
    BY <1>1, <2>6, <2>7
  <2>9. \A i \in 1 .. c : history[n + 1 - i].month = newest - (i - 1) /\ history[n + 1 - i].measured
    <3>1. \A i \in 1 .. c : history[n + 1 - i].measured
      BY <1>1, <1>2, Zenon DEF Unbroken
    <3>2. \A i \in 1 .. c : history[n + 1 - i].month = newest - (i - 1)
      BY <1>1, <1>2, <2>7, MonthsAlongTheChain
    <3> QED BY <3>1, <3>2
  <2>10. \A i \in 1 .. c : chain[i] = StateOf(history[n + 1 - i].share)
    BY <1>2, <2>1
  <2>11. \A i, j \in 1 .. n : i < j => history[i].month < history[j].month
    BY <1>1 DEF Rising
  \* The months it names were seen.
  <2>12. ASSUME NEW back \in Int, 0 <= back, back < m PROVE SeenOutside(state, history, newest - back)
    <3>1. PICK i \in 1 .. m : i = back + 1
      BY <2>12
    <3>2. PICK j \in 1 .. n : j = n + 1 - i
      BY <1>2
    <3>3. history[j].month = newest - back
      <4>1. history[j].month = newest - (i - 1)
        BY <2>9, <3>2
      <4> QED BY <2>12, <3>1, <4>1
    <3>4. history[j].measured
      BY <2>9, <3>2
    <3>5. StateOf(history[j].share) = state
      <4>1. i \in 1 .. c /\ chain[i] = state
        BY <2>3
      <4> QED BY <2>10, <3>2, <4>1
    <3>6. j \in DOMAIN history
      BY <1>1
    <3>7. history[j] \in At(history, newest - back)
      BY <3>3, <3>6 DEF At
    <3> QED BY <3>4, <3>5, <3>7, Zenon DEF SeenOutside
  \* The one before them was not.
  <2>13. ASSUME SeenOutside(state, history, newest) PROVE ~SeenOutside(state, history, newest - num)
    <3>1. PICK j \in 1 .. n : /\ history[j].month = newest /\ history[j].measured
                              /\ StateOf(history[j].share) = state
      BY <1>1, <2>13 DEF SeenOutside, At
    <3>2. n \in 1 .. n /\ n > 0
      OBVIOUS
    <3>3. j = n
      BY <2>6, <2>8, <2>11, <3>1, <3>2
    <3>4. Unbroken(history, 1)
      <4>1. \A i \in 1 .. 1 : i = 1 /\ n + 1 - i = n
        OBVIOUS
      <4> QED BY <1>1, <3>1, <3>3, <4>1 DEF Unbroken
    <3>5. c >= 1
      BY <1>2, <3>2, <3>4
    <3>6. m >= 1
      <4>1. \A i \in 1 .. 1 : i = 1
        OBVIOUS
      <4>2. 1 \in 1 .. c /\ n + 1 - 1 = n
        BY <3>5
      <4>3. chain[1] = state
        BY <2>10, <3>1, <3>3, <4>2
      <4> QED BY <2>3, <3>5, <4>1, <4>3, SMTT(30)
    <3>7. num = m
      BY <2>5, <3>6
    <3>8. SUFFICES ASSUME SeenOutside(state, history, newest - m) PROVE FALSE
      BY <3>7
    <3>9. PICK k \in 1 .. n : /\ history[k].month = newest - m /\ history[k].measured
                              /\ StateOf(history[k].share) = state
      BY <1>1, <3>8 DEF SeenOutside, At
    <3>10. PICK l \in 1 .. n : l = n + 1 - m
      BY <1>2, <3>6
    <3>11. history[l].month = newest - (m - 1)
      BY <2>9, <3>6, <3>10
    <3>12. k < l
      <4>1. history[k].month < history[l].month
        BY <2>8, <3>2, <3>9, <3>11
      <4>2. ~(l < k) /\ l # k
        BY <2>6, <2>11, <4>1
      <4> QED BY <4>2
    <3>13. PICK p \in 1 .. n : p = l - 1
      BY <3>12
    <3>14. history[p].month = newest - m /\ k = p
      <4>1. history[p].month < history[l].month /\ history[p].month \in Int /\ history[k].month \in Int
        BY <2>6, <2>11, <3>13, SMTT(30)
      <4>2. k # p => history[k].month < history[p].month
        BY <2>11, <3>12, <3>13
      <4> QED BY <2>8, <3>2, <3>9, <3>11, <4>1, <4>2
    <3>15. Unbroken(history, m + 1)
      <4>1. ASSUME NEW i \in 1 .. m + 1
            PROVE  /\ history[n + 1 - i].measured
                   /\ i > 1 => history[n + 1 - i].month = history[n + 2 - i].month - 1
        <5>1. CASE i \in 1 .. m
          <6>1. i \in 1 .. c
            BY <5>1
          <6> QED BY <1>1, <1>2, <6>1, Zenon DEF Unbroken
        <5>2. CASE i = m + 1
          <6>1. n + 1 - i = p /\ n + 2 - i = l
            BY <3>10, <3>13, <5>2
          <6>2. history[p].month = history[l].month - 1
            BY <2>8, <3>2, <3>11, <3>14
          <6> QED BY <3>9, <3>14, <6>1, <6>2
        <5> QED BY <5>1, <5>2
      <4> QED BY <1>1, <4>1, Zenon DEF Unbroken
    <3>16. m + 1 \in 0 .. n /\ n + 1 - (m + 1) = p
      BY <3>10, <3>13
    <3>17. m + 1 <= c
      BY <1>2, <3>15, <3>16
    <3>18. chain[m + 1] = state
      <4>1. PICK i \in 1 .. c : i = m + 1
        BY <3>17
      <4>2. chain[i] = StateOf(history[n + 1 - i].share) /\ n + 1 - i = p
        BY <2>10, <3>16, <4>1
      <4> QED BY <3>9, <3>14, <4>1, <4>2
    <3>19. \A i \in 1 .. m + 1 : chain[i] = state
      <4>1. \A i \in 1 .. m + 1 : i \in 1 .. m \/ i = m + 1
        OBVIOUS
      <4> QED BY <2>3, <3>18, <4>1
    <3> QED BY <2>3, <3>17, <3>19
  <2>14. num > 1 => \A back \in 0 .. num - 1 : SeenOutside(state, history, newest - back)
    BY <2>5, <2>12
  <2>15. ~SeenOutside(state, history, newest) => num = 1
    <3>1. ASSUME num > 1 PROVE SeenOutside(state, history, newest)
      <4>1. m \in 1 .. n /\ n > 0
        BY <2>5, <3>1
      <4>2. SeenOutside(state, history, newest - 0)
        BY <2>12, <4>1
      <4>3. newest - 0 = newest
        BY <2>8, <4>1
      <4> QED BY <4>2, <4>3
    <3> QED BY <2>5, <3>1
  <2>16. num <= MonthsObserved(history) \/ num = 1
    BY <1>2, <2>5
  <2>17. Signalled(state, history) /\ PersistentMonths > 1 =>
           \A back \in 0 .. PersistentMonths - 1 : SeenOutside(state, history, newest - back)
    <3>1. ASSUME Signalled(state, history), PersistentMonths > 1, NEW back \in 0 .. PersistentMonths - 1
          PROVE  SeenOutside(state, history, newest - back)
      <4>1. num >= PersistentMonths
        BY <2>4, <3>1 DEF Signalled
      <4>2. num = m /\ back \in Int /\ 0 <= back /\ back < m
        BY <2>5, <3>1, <4>1, PersistenceAssumption
      <4> QED BY <2>12, <4>2
    <3> QED BY <3>1
  <2> QED BY <1>4, <2>4, <2>5, <2>7, <2>13, <2>14, <2>15, <2>16, <2>17 DEF CountIsEarned
<1> QED BY <1>3, <1>4

(***************************************************************************)
(* Sums over finite sets                                                   *)
(***************************************************************************)
\* Induction over a finite set: a family that has every part of it whose parts of one
\* element less it has, has all its parts.
LEMMA FiniteInduction ==
  ASSUME NEW S, IsFiniteSet(S), NEW F,
         \A T \in SUBSET S : (\A x \in T : T \ {x} \in F) => T \in F
  PROVE  \A T \in SUBSET S : T \in F
<1>1. PICK n \in Nat : n = Cardinality(S)
  BY FS_CardinalityType
<1> DEFINE K == {k \in 0 .. n : \A T \in SUBSET S : Cardinality(T) = k => T \in F}
<1>2. \A T \in SUBSET S : IsFiniteSet(T) /\ Cardinality(T) \in 0 .. n
  BY <1>1, FS_Subset, FS_CardinalityType
<1>3. 0 \in K
  <2>1. ASSUME NEW T \in SUBSET S, Cardinality(T) = 0 PROVE T \in F
    <3>1. T = {}
      BY <1>2, <2>1, FS_EmptySet
    <3> QED BY <3>1
  <2> QED BY <2>1
<1>4. ASSUME NEW k \in 0 .. n - 1, k \in K PROVE k + 1 \in K
  <2>1. ASSUME NEW T \in SUBSET S, Cardinality(T) = k + 1 PROVE T \in F
    <3>1. ASSUME NEW x \in T PROVE T \ {x} \in F
      <4>1. IsFiniteSet(T)
        BY <1>2
      <4>2. Cardinality(T \ {x}) = Cardinality(T) - 1
        BY <4>1, <3>1, FS_RemoveElement
      <4>3. Cardinality(T \ {x}) = k /\ T \ {x} \in SUBSET S
        BY <2>1, <4>2
      <4> QED BY <1>4, <4>3
    <3> QED BY <3>1
  <2> QED BY <2>1
<1>5. 0 .. n \subseteq K
  <2> HIDE DEF K
  <2> QED BY <1>3, <1>4, InductionUpTo
<1>6. ASSUME NEW T \in SUBSET S PROVE T \in F
  <2>1. Cardinality(T) \in K
    BY <1>2, <1>5
  <2> QED BY <2>1
<1> QED BY <1>6

\* The function a sum walks by, on the subsets of S.
Any(s) == CHOOSE x \in s : TRUE
Adds(g, f, D) == \A s \in D : g[s] = IF s = {} THEN 0 ELSE f[Any(s)] + g[s \ {Any(s)}]

LEMMA AdderExists ==
  ASSUME NEW S, IsFiniteSet(S), NEW f, \A x \in S : f[x] \in Int
  PROVE  \E g \in [SUBSET S -> Int] : Adds(g, f, SUBSET S)
<1>1. PICK n \in Nat : n = Cardinality(S)
  BY FS_CardinalityType
<1>2. \A T \in SUBSET S : IsFiniteSet(T) /\ Cardinality(T) \in 0 .. n
  BY <1>1, FS_Subset, FS_CardinalityType
<1> DEFINE Small(k) == {s \in SUBSET S : Cardinality(s) <= k}
           Adders(k) == {g \in [Small(k) -> Int] : Adds(g, f, Small(k))}
           K == {k \in 0 .. n : Adders(k) # {}}
<1>3. ASSUME NEW s \in SUBSET S, s # {}
      PROVE  Any(s) \in s /\ s \ {Any(s)} \in SUBSET S /\ Cardinality(s \ {Any(s)}) = Cardinality(s) - 1
  <2>1. Any(s) \in s
    BY <1>3 DEF Any
  <2> QED BY <1>2, <2>1, FS_RemoveElement
<1>4. 0 \in K
  <2>1. \A s \in Small(0) : s = {}
    BY <1>2, FS_EmptySet
  <2>2. [s \in Small(0) |-> 0] \in Adders(0)
    BY <2>1 DEF Adds
  <2>3. Adders(0) # {}
    BY <2>2, Zenon
  <2>4. 0 \in 0 .. n
    OBVIOUS
  <2> HIDE DEF Adders
  <2> QED BY <2>3, <2>4
<1>5. ASSUME NEW k \in 0 .. n - 1, k \in K PROVE k + 1 \in K
  <2>1. PICK g \in [Small(k) -> Int] : Adds(g, f, Small(k))
    BY <1>5
  <2> DEFINE h == [s \in Small(k + 1) |-> IF s \in Small(k) THEN g[s] ELSE f[Any(s)] + g[s \ {Any(s)}]]
  <2>2. ASSUME NEW s \in Small(k + 1), s # {} PROVE s \ {Any(s)} \in Small(k) /\ Any(s) \in S
    <3>1. Cardinality(s) <= k + 1 /\ Cardinality(s) \in Nat /\ s \in SUBSET S
      BY <1>2
    <3> QED BY <1>3, <2>2, <3>1
  <2>3. ASSUME NEW s \in Small(k) PROVE s \in Small(k + 1)
    <3>1. Cardinality(s) \in Nat
      BY <1>2
    <3> QED BY <3>1
  <2>4. {} \in Small(k)
    BY FS_EmptySet
  <2>5. h \in [Small(k + 1) -> Int]
    <3>1. ASSUME NEW s \in Small(k + 1) PROVE h[s] \in Int
      <4>1. CASE s \in Small(k)
        BY <2>1, <4>1
      <4>2. CASE s \notin Small(k)
        <5>1. s # {}
          BY <2>4, <4>2
        <5>2. f[Any(s)] \in Int /\ g[s \ {Any(s)}] \in Int
          BY <2>1, <2>2, <5>1
        <5>3. h[s] = f[Any(s)] + g[s \ {Any(s)}]
          BY <4>2
        <5> HIDE DEF h
        <5> QED BY <5>2, <5>3
      <4> QED BY <4>1, <4>2
    <3> QED BY <3>1
  <2>6. ASSUME NEW s \in Small(k + 1) PROVE h[s] = IF s = {} THEN 0 ELSE f[Any(s)] + h[s \ {Any(s)}]
    <3>1. CASE s = {}
      BY <2>1, <2>4, <3>1 DEF Adds
    <3>2. CASE s # {}
      <4>1. h[s \ {Any(s)}] = g[s \ {Any(s)}]
        BY <2>2, <2>3, <3>2
      <4>2. CASE s \in Small(k)
        <5>1. h[s] = g[s]
          BY <4>2
        <5>2. g[s] = f[Any(s)] + g[s \ {Any(s)}]
          BY <2>1, <3>2, <4>2 DEF Adds
        <5> QED BY <3>2, <4>1, <5>1, <5>2
      <4>3. CASE s \notin Small(k)
        <5>1. h[s] = f[Any(s)] + g[s \ {Any(s)}]
          BY <4>3
        <5> QED BY <3>2, <4>1, <5>1
      <4> QED BY <4>2, <4>3
    <3> QED BY <3>1, <3>2
  <2> HIDE DEF h
  <2>7. h \in Adders(k + 1)
    BY <2>5, <2>6 DEF Adds
  <2>8. k + 1 \in 0 .. n
    OBVIOUS
  <2> QED BY <2>7, <2>8
<1>6. 0 .. n \subseteq K
  <2> HIDE DEF K
  <2> QED BY <1>4, <1>5, InductionUpTo
<1>7. Small(n) = SUBSET S
  BY <1>2
<1>8. Adders(n) # {}
  <2>1. n \in 0 .. n
    OBVIOUS
  <2> HIDE DEF Adders
  <2> QED BY <1>6, <2>1
<1> QED BY <1>7, <1>8

\* What an adder computes is the sum.
LEMMA SumIsAdder ==
  ASSUME NEW S, IsFiniteSet(S), NEW f, \A x \in S : f[x] \in Int
  PROVE  \E g \in [SUBSET S -> Int] : Adds(g, f, SUBSET S) /\ SumOver(f, S) = g[S]
<1> DEFINE Iter(g) == g = [s \in SUBSET S |->
              IF s = {} THEN 0 ELSE LET x == CHOOSE y \in s : TRUE IN f[x] + g[s \ {x}]]
<1>1. PICK h \in [SUBSET S -> Int] : Adds(h, f, SUBSET S)
  BY AdderExists
<1>2. h = [s \in SUBSET S |-> IF s = {} THEN 0 ELSE f[Any(s)] + h[s \ {Any(s)}]]
  BY <1>1 DEF Adds
<1>3. Iter(h)
  BY <1>2, Zenon DEF Any
<1>4. SumOver(f, S) = (CHOOSE g : Iter(g))[S]
  BY Zenon DEF SumOver, MapThenSumSet, MapThenFoldSet
<1>5. PICK g : g = CHOOSE k : Iter(k)
  OBVIOUS
<1>6. Iter(g)
  <2> HIDE DEF Iter
  <2>1. Iter(CHOOSE k : Iter(k))
    BY <1>3, Zenon
  <2> QED BY <1>5, <2>1
<1>7. g = [s \in SUBSET S |-> IF s = {} THEN 0 ELSE f[Any(s)] + g[s \ {Any(s)}]]
  BY <1>6, Zenon DEF Any
<1>8. Adds(g, f, SUBSET S)
  BY <1>7 DEF Adds
<1> DEFINE F == {T \in SUBSET S : g[T] = h[T]}
<1>9. ASSUME NEW T \in SUBSET S, \A x \in T : T \ {x} \in F PROVE T \in F
  <2>1. CASE T = {}
    BY <1>1, <1>8, <2>1 DEF Adds
  <2>2. CASE T # {}
    <3>1. Any(T) \in T
      BY <2>2 DEF Any
    <3>2. g[T \ {Any(T)}] = h[T \ {Any(T)}]
      BY <1>9, <3>1
    <3> QED BY <1>1, <1>8, <2>2, <3>2 DEF Adds
  <2> QED BY <2>1, <2>2
<1>10. \A T \in SUBSET S : T \in F
  <2> HIDE DEF F
  <2> QED BY <1>9, FiniteInduction
<1>11. g = h
  BY <1>1, <1>7, <1>10
<1> QED BY <1>1, <1>4, <1>5, <1>11

\* The part of a sum is the sum of the part.
LEMMA AddersAgree ==
  ASSUME NEW S, IsFiniteSet(S), NEW f, \A x \in S : f[x] \in Int, NEW T \in SUBSET S,
         NEW g \in [SUBSET S -> Int], Adds(g, f, SUBSET S)
  PROVE  SumOver(f, T) = g[T]
<1>1. IsFiniteSet(T) /\ \A x \in T : f[x] \in Int
  BY FS_Subset
<1>2. PICK h \in [SUBSET T -> Int] : Adds(h, f, SUBSET T) /\ SumOver(f, T) = h[T]
  BY <1>1, SumIsAdder
<1> DEFINE F == {R \in SUBSET T : g[R] = h[R]}
<1>3. ASSUME NEW R \in SUBSET T, \A x \in R : R \ {x} \in F PROVE R \in F
  <2>1. CASE R = {}
    BY <1>2, <2>1 DEF Adds
  <2>2. CASE R # {}
    <3>1. Any(R) \in R /\ R \in SUBSET S
      BY <2>2 DEF Any
    <3>2. g[R \ {Any(R)}] = h[R \ {Any(R)}]
      BY <1>3, <3>1
    <3> QED BY <1>2, <2>2, <3>1, <3>2 DEF Adds
  <2> QED BY <2>1, <2>2
<1>4. \A R \in SUBSET T : R \in F
  <2> HIDE DEF F
  <2> QED BY <1>1, <1>3, FiniteInduction
<1> QED BY <1>2, <1>4

\* A sum is a number, nothing sums to 0, and any element may be added last.
LEMMA SumsAdd ==
  ASSUME NEW S, IsFiniteSet(S), NEW f, \A x \in S : f[x] \in Int
  PROVE  /\ SumOver(f, {}) = 0
         /\ \A T \in SUBSET S : SumOver(f, T) \in Int
         /\ \A T \in SUBSET S : \A x \in T : SumOver(f, T) = f[x] + SumOver(f, T \ {x})
<1>1. PICK g \in [SUBSET S -> Int] : Adds(g, f, SUBSET S)
  BY AdderExists
<1>2. \A T \in SUBSET S : SumOver(f, T) = g[T]
  BY <1>1, AddersAgree
<1> DEFINE F == {T \in SUBSET S : \A x \in T : g[T] = f[x] + g[T \ {x}]}
<1>3. ASSUME NEW T \in SUBSET S, \A x \in T : T \ {x} \in F PROVE T \in F
  <2>1. ASSUME NEW x \in T PROVE g[T] = f[x] + g[T \ {x}]
    <3>1. PICK y \in T : y = Any(T)
      BY DEF Any
    <3>2. g[T] = f[y] + g[T \ {y}]
      BY <1>1, <3>1 DEF Adds
    <3>3. CASE x = y
      BY <3>2, <3>3
    <3>4. CASE x # y
      <4>1. x \in T \ {y} /\ y \in T \ {x} /\ (T \ {x}) \ {y} = (T \ {y}) \ {x}
        BY <3>4
      <4>2. g[T \ {y}] = f[x] + g[(T \ {y}) \ {x}]
        BY <1>3, <4>1
      <4>3. g[T \ {x}] = f[y] + g[(T \ {y}) \ {x}]
        BY <1>3, <4>1
      <4>4. f[x] \in Int /\ f[y] \in Int /\ g[(T \ {y}) \ {x}] \in Int
        BY <1>1
      <4> QED BY <3>2, <4>2, <4>3, <4>4
    <3> QED BY <3>3, <3>4
  <2> QED BY <2>1
<1>4. \A T \in SUBSET S : T \in F
  <2> HIDE DEF F
  <2> QED BY <1>3, FiniteInduction
<1>5. g[{}] = 0
  BY <1>1 DEF Adds
<1>6. \A T \in SUBSET S : \A x \in T : g[T] = f[x] + g[T \ {x}]
  BY <1>4
<1> QED BY <1>1, <1>2, <1>5, <1>6

\* What SumsAdd says, as one predicate of the function.
Sums(f, S) ==
  /\ SumOver(f, {}) = 0
  /\ \A T \in SUBSET S : SumOver(f, T) \in Int
  /\ \A T \in SUBSET S : \A x \in T : SumOver(f, T) = f[x] + SumOver(f, T \ {x})

LEMMA SumsHold ==
  ASSUME NEW S, IsFiniteSet(S), NEW f, \A x \in S : f[x] \in Int
  PROVE  Sums(f, S)
BY SumsAdd DEF Sums

\* Sums of sums.
LEMMA SumsOfSums ==
  ASSUME NEW S, IsFiniteSet(S), NEW f, NEW g, NEW h,
         \A x \in S : f[x] \in Int /\ g[x] \in Int /\ h[x] \in Int /\ h[x] = f[x] + g[x]
  PROVE  SumOver(h, S) = SumOver(f, S) + SumOver(g, S)
<1> DEFINE F == {T \in SUBSET S : SumOver(h, T) = SumOver(f, T) + SumOver(g, T)}
<1>1. Sums(f, S) /\ Sums(g, S) /\ Sums(h, S)
  <2>1. Sums(f, S)
    <3>1. \A x \in S : f[x] \in Int
      OBVIOUS
    <3> QED BY <3>1, SumsHold
  <2>2. Sums(g, S)
    <3>1. \A x \in S : g[x] \in Int
      OBVIOUS
    <3> QED BY <3>1, SumsHold
  <2>3. Sums(h, S)
    <3>1. \A x \in S : h[x] \in Int
      OBVIOUS
    <3> QED BY <3>1, SumsHold
  <2> QED BY <2>1, <2>2, <2>3
<1>2. ASSUME NEW T \in SUBSET S, \A x \in T : T \ {x} \in F PROVE T \in F
  <2>1. CASE T = {}
    BY <1>1, <2>1 DEF Sums
  <2>2. CASE T # {}
    <3>1. PICK x \in T : TRUE
      BY <2>2
    <3>2. SumOver(h, T \ {x}) = SumOver(f, T \ {x}) + SumOver(g, T \ {x})
      BY <1>2, <3>1
    <3>3. /\ SumOver(h, T) = h[x] + SumOver(h, T \ {x})
          /\ SumOver(f, T) = f[x] + SumOver(f, T \ {x})
          /\ SumOver(g, T) = g[x] + SumOver(g, T \ {x})
          /\ SumOver(f, T \ {x}) \in Int /\ SumOver(g, T \ {x}) \in Int
          /\ h[x] = f[x] + g[x] /\ f[x] \in Int /\ g[x] \in Int
      BY <1>1 DEF Sums
    <3> QED BY <3>2, <3>3
  <2> QED BY <2>1, <2>2
<1>3. \A T \in SUBSET S : T \in F
  <2> HIDE DEF F
  <2> QED BY <1>2, FiniteInduction
<1> QED BY <1>3

\* A sum of multiples; with multiples of 1, of equal values.
LEMMA SumsOfMultiples ==
  ASSUME NEW S, IsFiniteSet(S), NEW f, NEW h, NEW c \in Int,
         \A x \in S : f[x] \in Int /\ h[x] \in Int /\ h[x] = c * f[x]
  PROVE  SumOver(h, S) = c * SumOver(f, S)
<1> DEFINE F == {T \in SUBSET S : SumOver(h, T) = c * SumOver(f, T)}
<1>1. Sums(f, S) /\ Sums(h, S)
  <2>1. Sums(f, S)
    <3>1. \A x \in S : f[x] \in Int
      OBVIOUS
    <3> QED BY <3>1, SumsHold
  <2>2. Sums(h, S)
    <3>1. \A x \in S : h[x] \in Int
      OBVIOUS
    <3> QED BY <3>1, SumsHold
  <2> QED BY <2>1, <2>2
<1>2. ASSUME NEW T \in SUBSET S, \A x \in T : T \ {x} \in F PROVE T \in F
  <2>1. CASE T = {}
    BY <1>1, <2>1 DEF Sums
  <2>2. CASE T # {}
    <3>1. PICK x \in T : TRUE
      BY <2>2
    <3>2. SumOver(h, T \ {x}) = c * SumOver(f, T \ {x})
      BY <1>2, <3>1
    <3>3. /\ SumOver(h, T) = h[x] + SumOver(h, T \ {x})
          /\ SumOver(f, T) = f[x] + SumOver(f, T \ {x})
          /\ SumOver(f, T \ {x}) \in Int /\ h[x] = c * f[x] /\ f[x] \in Int
      BY <1>1 DEF Sums
    <3>4. \A a, b \in Int : c * (a + b) = c * a + c * b
      OBVIOUS
    <3> QED BY <3>2, <3>3, <3>4
  <2> QED BY <2>1, <2>2
<1>3. \A T \in SUBSET S : T \in F
  <2> HIDE DEF F
  <2> QED BY <1>2, FiniteInduction
<1> QED BY <1>3

LEMMA EqualSums ==
  ASSUME NEW S, IsFiniteSet(S), NEW f, NEW h, \A x \in S : f[x] \in Int /\ h[x] = f[x]
  PROVE  SumOver(h, S) = SumOver(f, S)
<1>1. \A x \in S : f[x] \in Int /\ h[x] \in Int /\ h[x] = 1 * f[x]
  OBVIOUS
<1>2. SumOver(h, S) = 1 * SumOver(f, S)
  BY <1>1, SumsOfMultiples
<1>3. SumOver(f, S) \in Int
  BY SumsAdd
<1> QED BY <1>2, <1>3

\* A sum of ones is a cardinality: the marks of a part sum to its size.
LEMMA SumsOfMarks ==
  ASSUME NEW S, IsFiniteSet(S), NEW P, NEW f, \A x \in S : f[x] = IF x \in P THEN 1 ELSE 0
  PROVE  SumOver(f, S) = Cardinality(S \cap P)
<1> DEFINE F == {T \in SUBSET S : SumOver(f, T) = Cardinality(T \cap P)}
<1>1. /\ SumOver(f, {}) = 0
      /\ \A T \in SUBSET S : \A x \in T : SumOver(f, T) = f[x] + SumOver(f, T \ {x})
  <2>1. \A x \in S : f[x] \in Int
    OBVIOUS
  <2> QED BY <2>1, SumsAdd
<1>2. \A T \in SUBSET S : IsFiniteSet(T \cap P) /\ Cardinality(T \cap P) \in Nat
  BY FS_Subset, FS_CardinalityType
<1>3. ASSUME NEW T \in SUBSET S, \A x \in T : T \ {x} \in F PROVE T \in F
  <2>1. CASE T = {}
    <3>1. T \cap P = {} /\ Cardinality({}) = 0
      BY <2>1, FS_EmptySet
    <3> QED BY <1>1, <2>1, <3>1
  <2>2. CASE T # {}
    <3>1. PICK x \in T : TRUE
      BY <2>2
    <3>2. SumOver(f, T) = f[x] + Cardinality((T \ {x}) \cap P)
      BY <1>1, <1>3, <3>1
    <3>3. CASE x \in P
      <4>1. x \in T \cap P /\ (T \ {x}) \cap P = (T \cap P) \ {x}
        BY <3>1, <3>3
      <4>2. Cardinality((T \cap P) \ {x}) = Cardinality(T \cap P) - 1
        BY <1>2, <4>1, FS_RemoveElement
      <4> QED BY <1>2, <3>2, <3>3, <4>1, <4>2
    <3>4. CASE x \notin P
      <4>1. (T \ {x}) \cap P = T \cap P
        BY <3>4
      <4>2. SumOver(f, T) = 0 + Cardinality(T \cap P)
        BY <3>1, <3>2, <3>4, <4>1
      <4> QED BY <1>2, <4>2
    <3> QED BY <3>3, <3>4
  <2> QED BY <2>1, <2>2
<1>4. \A T \in SUBSET S : T \in F
  <2> HIDE DEF F
  <2> QED BY <1>3, FiniteInduction
<1> QED BY <1>4

\* Values of at least c sum to at least as many times c.
LEMMA SumsAtLeast ==
  ASSUME NEW S, IsFiniteSet(S), NEW f, NEW c \in Int, \A x \in S : f[x] \in Int /\ c <= f[x]
  PROVE  c * Cardinality(S) <= SumOver(f, S)
<1> DEFINE F == {T \in SUBSET S : c * Cardinality(T) <= SumOver(f, T)}
<1>1. /\ SumOver(f, {}) = 0
      /\ \A T \in SUBSET S : SumOver(f, T) \in Int
      /\ \A T \in SUBSET S : \A x \in T : SumOver(f, T) = f[x] + SumOver(f, T \ {x})
  BY SumsAdd
<1>2. \A T \in SUBSET S : IsFiniteSet(T) /\ Cardinality(T) \in Nat
  BY FS_Subset, FS_CardinalityType
<1>3. ASSUME NEW T \in SUBSET S, \A x \in T : T \ {x} \in F PROVE T \in F
  <2>1. CASE T = {}
    <3>1. Cardinality(T) = 0
      BY <2>1, FS_EmptySet
    <3> QED BY <1>1, <2>1, <3>1
  <2>2. CASE T # {}
    <3>1. PICK x \in T : TRUE
      BY <2>2
    <3>2. PICK n \in Nat : n = Cardinality(T \ {x})
      BY <1>2
    <3>3. Cardinality(T) = n + 1
      <4>1. Cardinality(T \ {x}) = Cardinality(T) - 1
        BY <1>2, <3>1, FS_RemoveElement
      <4> QED BY <1>2, <3>2, <4>1
    <3>4. PICK a \in Int : a = SumOver(f, T \ {x})
      BY <1>1
    <3>5. c * n <= a
      BY <1>3, <3>1, <3>2, <3>4
    <3>6. c * (n + 1) = c * n + c
      OBVIOUS
    <3>7. SumOver(f, T) = f[x] + a /\ f[x] \in Int /\ c <= f[x]
      BY <1>1, <3>4
    <3>8. c * n \in Int
      OBVIOUS
    <3> QED BY <3>3, <3>4, <3>5, <3>6, <3>7, <3>8
  <2> QED BY <2>1, <2>2
<1>4. \A T \in SUBSET S : T \in F
  <2> HIDE DEF F
  <2> QED BY <1>3, FiniteInduction
<1> QED BY <1>4

\* Some numbers, finitely many, have a greatest and a least.
LEMMA EndsOfNumbers ==
  ASSUME NEW S \in SUBSET Int, IsFiniteSet(S), S # {}
  PROVE  /\ Max(S) \in S /\ \A k \in S : k <= Max(S)
         /\ Min(S) \in S /\ \A k \in S : Min(S) <= k
<1> DEFINE F == {T \in SUBSET S : T = {} \/ ((\E m \in T : \A k \in T : m >= k)
                                             /\ \E m \in T : \A k \in T : m <= k)}
<1>1. ASSUME NEW T \in SUBSET S, \A x \in T : T \ {x} \in F PROVE T \in F
  <2>1. CASE T = {}
    BY <2>1
  <2>2. CASE T # {}
    <3>1. PICK x \in T : x \in Int
      BY <2>2
    <3>2. T \ {x} \in F
      BY <1>1
    <3>3. CASE T \ {x} = {}
      <4>1. T = {x}
        BY <3>3
      <4> QED BY <3>1, <4>1
    <3>4. CASE T \ {x} # {}
      <4>1. PICK a \in T \ {x} : \A k \in T \ {x} : a >= k
        BY <3>2, <3>4
      <4>2. PICK b \in T \ {x} : \A k \in T \ {x} : b <= k
        BY <3>2, <3>4
      <4>3. a \in Int /\ b \in Int /\ \A k \in T : k \in Int
        OBVIOUS
      <4>4. \E m \in T : \A k \in T : m >= k
        BY <3>1, <4>1, <4>3
      <4>5. \E m \in T : \A k \in T : m <= k
        BY <3>1, <4>2, <4>3
      <4> QED BY <4>4, <4>5
    <3> QED BY <3>3, <3>4
  <2> QED BY <2>1, <2>2
<1>2. S \in F
  <2>1. \A T \in SUBSET S : T \in F
    <3> HIDE DEF F
    <3> QED BY <1>1, FiniteInduction
  <2> HIDE DEF F
  <2> QED BY <2>1
<1>3. (\E m \in S : \A k \in S : m >= k) /\ \E m \in S : \A k \in S : m <= k
  BY <1>2
<1>4. Max(S) \in S /\ \A k \in S : Max(S) >= k
  BY <1>3, Zenon DEF Max
<1>5. Min(S) \in S /\ \A k \in S : Min(S) <= k
  BY <1>3, Zenon DEF Min
<1> QED BY <1>4, <1>5

\* Of two families of which one is never the greater, its sum is not.
LEMMA SumsInOrder ==
  ASSUME NEW S, IsFiniteSet(S), NEW f, NEW g, \A x \in S : f[x] \in Int /\ g[x] \in Int /\ f[x] <= g[x]
  PROVE  SumOver(f, S) <= SumOver(g, S)
<1> DEFINE d == [x \in S |-> g[x] - f[x]]
<1>1. \A x \in S : f[x] \in Int /\ d[x] \in Int /\ g[x] \in Int /\ g[x] = f[x] + d[x] /\ 0 <= d[x]
  OBVIOUS
<1> HIDE DEF d
<1>2. SumOver(g, S) = SumOver(f, S) + SumOver(d, S)
  BY <1>1, SumsOfSums
<1>3. 0 * Cardinality(S) <= SumOver(d, S)
  <2>1. PICK c \in Int : c = 0
    OBVIOUS
  <2>2. c * Cardinality(S) <= SumOver(d, S)
    BY <1>1, <2>1, SumsAtLeast
  <2> QED BY <2>1, <2>2
<1>4. Sums(f, S) /\ Sums(d, S)
  BY <1>1, SumsHold
<1>5. SumOver(f, S) \in Int /\ SumOver(d, S) \in Int
  BY <1>4 DEF Sums
<1>6. 0 * Cardinality(S) = 0
  BY FS_CardinalityType
<1> QED BY <1>2, <1>3, <1>5, <1>6

\* The same number of more is more.
LEMMA ProductsInOrder ==
  ASSUME NEW a \in Int, NEW b \in Int, NEW c \in Nat, a <= b
  PROVE  c * a <= c * b
<1>1. PICK d \in Nat : b = a + d
  <2>1. b - a \in Nat /\ b = a + (b - a)
    OBVIOUS
  <2> QED BY <2>1
<1>2. c * d \in Nat
  OBVIOUS
<1>3. c * (a + d) = c * a + c * d
  OBVIOUS
<1>4. c * a \in Int
  OBVIOUS
<1> QED BY <1>1, <1>2, <1>3, <1>4

(***************************************************************************)
(* Ranks in an order                                                       *)
(***************************************************************************)
Below(order, T, x) == {y \in T : <<y, x>> \in order}
Orders(order, S) ==
  /\ \A x \in S : <<x, x>> \notin order
  /\ \A x, y, z \in S : <<x, y>> \in order /\ <<y, z>> \in order => <<x, z>> \in order
  /\ \A x, y \in S : x = y \/ <<x, y>> \in order \/ <<y, x>> \in order

\* Something is last, in every part of a finite order.
LEMMA LastInOrder ==
  ASSUME NEW S, IsFiniteSet(S), NEW order, Orders(order, S)
  PROVE  \A T \in SUBSET S : T # {} => \E m \in T : \A y \in T \ {m} : <<y, m>> \in order
<1> DEFINE F == {T \in SUBSET S : T # {} => \E m \in T : \A y \in T \ {m} : <<y, m>> \in order}
<1>1. ASSUME NEW T \in SUBSET S, \A x \in T : T \ {x} \in F, T # {}
      PROVE  \E m \in T : \A y \in T \ {m} : <<y, m>> \in order
  <2>1. PICK x \in T : TRUE
    BY <1>1
  <2>2. CASE T \ {x} = {}
    BY <2>1, <2>2
  <2>3. CASE T \ {x} # {}
    <3>1. PICK m \in T \ {x} : \A y \in (T \ {x}) \ {m} : <<y, m>> \in order
      BY <1>1, <2>1, <2>3
    <3>2. CASE <<x, m>> \in order
      BY <3>1, <3>2
    <3>3. CASE <<m, x>> \in order
      <4>1. ASSUME NEW y \in T \ {x} PROVE <<y, x>> \in order
        BY <2>1, <3>1, <3>3 DEF Orders
      <4> QED BY <2>1, <4>1
    <3> QED BY <2>1, <3>1, <3>2, <3>3 DEF Orders
  <2> QED BY <2>2, <2>3
<1>2. \A T \in SUBSET S : T \in F
  <2>1. \A T \in SUBSET S : (\A x \in T : T \ {x} \in F) => T \in F
    BY <1>1
  <2> HIDE DEF F
  <2> QED BY <2>1, FiniteInduction
<1> QED BY <1>2

\* The first k of an order, those with fewer than k before them, are k.
First(order, T, k) == {x \in T : Cardinality(Below(order, T, x)) < k}
LEMMA FirstAreCounted ==
  ASSUME NEW S, IsFiniteSet(S), NEW order, Orders(order, S)
  PROVE  \A T \in SUBSET S : \A k \in 0 .. Cardinality(T) : Cardinality(First(order, T, k)) = k
<1> DEFINE F == {T \in SUBSET S : \A k \in 0 .. Cardinality(T) : Cardinality(First(order, T, k)) = k}
<1>1. \A T \in SUBSET S : IsFiniteSet(T) /\ Cardinality(T) \in Nat
  BY FS_Subset, FS_CardinalityType
<1>2. ASSUME NEW T \in SUBSET S, \A x \in T : T \ {x} \in F, NEW k \in 0 .. Cardinality(T)
      PROVE  Cardinality(First(order, T, k)) = k
  <2>1. CASE T = {}
    <3>1. Cardinality({}) = 0
      BY FS_EmptySet
    <3>2. k = 0 /\ First(order, T, k) = {}
      BY <2>1, <3>1 DEF First
    <3> QED BY <3>1, <3>2
  <2>2. CASE T # {}
    <3>1. PICK m \in T : \A y \in T \ {m} : <<y, m>> \in order
      BY <2>2, LastInOrder
    <3>2. PICK U \in SUBSET S : U = T \ {m} /\ U \in F
      BY <1>2
    <3>3. PICK n \in Nat : n = Cardinality(U) /\ Cardinality(T) = n + 1
      <4>1. Cardinality(T \ {m}) = Cardinality(T) - 1
        BY <1>1, FS_RemoveElement
      <4>2. Cardinality(U) \in Nat /\ Cardinality(T) \in Nat
        BY <1>1
      <4> QED BY <3>2, <4>1, <4>2
    <3>4. Below(order, T, m) = U
      BY <3>1, <3>2 DEF Below, Orders
    <3>5. ASSUME NEW x \in U PROVE Below(order, T, x) = Below(order, U, x)
      <4>1. <<m, x>> \notin order
        BY <3>1, <3>2, <3>5 DEF Orders
      <4> QED BY <3>2, <4>1 DEF Below
    <3>6. CASE k <= n
      <4>1. First(order, T, k) = First(order, U, k)
        <5>1. ~(Cardinality(Below(order, T, m)) < k)
          BY <3>3, <3>4, <3>6
        <5> QED BY <3>2, <3>5, <5>1 DEF First
      <4>2. k \in 0 .. Cardinality(U)
        BY <3>3, <3>6
      <4> QED BY <3>2, <4>1, <4>2
    <3>7. CASE k = n + 1
      <4>1. ASSUME NEW x \in T PROVE Cardinality(Below(order, T, x)) < k
        <5>1. Below(order, T, x) \subseteq T \ {x}
          BY DEF Below, Orders
        <5>2. IsFiniteSet(T \ {x}) /\ Cardinality(T \ {x}) = Cardinality(T) - 1
          BY <1>1, FS_RemoveElement
        <5>3. Cardinality(Below(order, T, x)) <= Cardinality(T \ {x}) /\ Cardinality(Below(order, T, x)) \in Nat
          BY <5>1, <5>2, FS_Subset, FS_CardinalityType
        <5> QED BY <3>3, <3>7, <5>2, <5>3
      <4>2. First(order, T, k) = T
        BY <4>1 DEF First
      <4> QED BY <3>3, <3>7, <4>2
    <3>8. k \in Int
      BY <3>3
    <3> QED BY <3>3, <3>6, <3>7, <3>8
  <2> QED BY <2>1, <2>2
<1>3. \A T \in SUBSET S : T \in F
  <2>1. \A T \in SUBSET S : (\A x \in T : T \ {x} \in F) => T \in F
    BY <1>2
  <2> HIDE DEF F
  <2> QED BY <2>1, FiniteInduction
<1> QED BY <1>3

(***************************************************************************)
(* The forecast                                                            *)
(***************************************************************************)
\* A category of spending, whatever its rate and what it spent in the detection window.
CategoryRows ==
  [nature : {"fixed", "income"}, frequency : {"monthly", "quarterly", "annual", "irregular"}, hidden : BOOLEAN,
   baseline : Int, series : [1 - Detection .. 0 -> Int]]

LEMMA RowFields ==
  ASSUME NEW c \in CategoryRows
  PROVE  /\ c.frequency \in {"monthly", "quarterly", "annual", "irregular"}
         /\ c.baseline \in Int /\ c.series \in [1 - Detection .. 0 -> Int]
BY DEF CategoryRows

\* The month a category was last seen in is in the window.
LEMMA LastIsSeen ==
  ASSUME NEW c \in CategoryRows, Spent(c) # {}
  PROVE  /\ LastMonth(c) \in Spent(c) /\ LastMonth(c) \in Int /\ LastMonth(c) <= 0
         /\ c.series[LastMonth(c)] \in Int
<1>1. Detection \in Nat
  BY ForecastAssumption
<1>2. Spent(c) \in SUBSET Int /\ \A m \in Spent(c) : m \in 1 - Detection .. 0
  BY <1>1 DEF Spent
<1>3. IsFiniteSet(Spent(c))
  <2>1. IsFiniteSet(1 - Detection .. 0)
    BY <1>1, FS_Interval
  <2>2. Spent(c) \in SUBSET (1 - Detection .. 0)
    BY DEF Spent
  <2> QED BY <2>1, <2>2, FS_Subset
<1>4. LastMonth(c) \in Spent(c)
  BY <1>2, <1>3, EndsOfNumbers DEF LastMonth
<1>5. LastMonth(c) \in 1 - Detection .. 0
  BY <1>2, <1>4
<1>6. c.series[LastMonth(c)] \in Int
  BY <1>5, RowFields
<1> QED BY <1>1, <1>4, <1>5, <1>6

\* A bill lands on every month that is a whole number of its steps from where it was
\* last seen, and on no other.
THEOREM BillsLandOnce == ASSUME NEW c \in CategoryRows PROVE BillsRecur(c)
<1> DEFINE step == FrequencyWindow[c.frequency]
           last == LastMonth(c)
<1>1. SUFFICES ASSUME ~Monthly(c), Projected(c), Spent(c) # {}, NEW m \in HorizonMonths
               PROVE  m \in BillMonths(c) <=> (m - last) % step = 0
  BY DEF BillsRecur
<1>2. step = 3 \/ step = 12
  BY <1>1, RowFields DEF Monthly, Projected, FrequencyWindow
<1>3. last \in Int /\ last <= 0
  BY <1>1, LastIsSeen
<1>4. m \in Int /\ 1 <= m /\ m <= Horizon /\ Horizon \in Int
  BY <1>1, ForecastAssumption DEF HorizonMonths
<1>5. FirstStep(c) = (0 - last) \div step + 1
  BY DEF FirstStep
<1>6. m \in BillMonths(c) <=> \E n \in FirstStep(c) .. FirstStep(c) + Horizon : m = last + n * step
  BY <1>1 DEF BillMonths
<1> HIDE DEF last, step
<1>7. CASE step = 3
  <2>1. PICK q \in Int : q = (0 - last) \div 3 /\ 3 * q <= 0 - last /\ 0 - last < 3 * q + 3
    BY <1>3
  <2>2. FirstStep(c) = q + 1
    BY <1>5, <1>7, <2>1
  <2>3. ASSUME NEW n \in q + 1 .. q + 1 + Horizon, m = last + n * 3 PROVE (m - last) % 3 = 0
    <3>1. n \in Int
      BY <1>4
    <3>2. m - last = 3 * n
      BY <1>3, <2>3, <3>1
    <3> QED BY <3>1, <3>2
  <2>4. ASSUME (m - last) % 3 = 0 PROVE \E n \in q + 1 .. q + 1 + Horizon : m = last + n * 3
    <3>1. PICK n \in Int : m - last = 3 * n
      BY <1>3, <1>4, <2>4
    <3>2. n \in q + 1 .. q + 1 + Horizon /\ m = last + n * 3
      BY <1>3, <1>4, <2>1, <3>1
    <3> QED BY <3>2
  <2> QED BY <1>6, <1>7, <2>2, <2>3, <2>4
<1>8. CASE step = 12
  <2>1. PICK q \in Int : q = (0 - last) \div 12 /\ 12 * q <= 0 - last /\ 0 - last < 12 * q + 12
    BY <1>3
  <2>2. FirstStep(c) = q + 1
    BY <1>5, <1>8, <2>1
  <2>3. ASSUME NEW n \in q + 1 .. q + 1 + Horizon, m = last + n * 12 PROVE (m - last) % 12 = 0
    <3>1. n \in Int
      BY <1>4
    <3>2. m - last = 12 * n
      BY <1>3, <2>3, <3>1
    <3> QED BY <3>1, <3>2
  <2>4. ASSUME (m - last) % 12 = 0 PROVE \E n \in q + 1 .. q + 1 + Horizon : m = last + n * 12
    <3>1. PICK n \in Int : m - last = 12 * n
      BY <1>3, <1>4, <2>4
    <3>2. n \in q + 1 .. q + 1 + Horizon /\ m = last + n * 12
      BY <1>3, <1>4, <2>1, <3>1
    <3> QED BY <3>2
  <2> QED BY <1>6, <1>8, <2>2, <2>3, <2>4
<1> QED BY <1>2, <1>7, <1>8

LEMMA LegsAreNumbers ==
  ASSUME NEW c \in CategoryRows, NEW m \in HorizonMonths
  PROVE  Leg(c, m) \in Int
<1>1. CASE ~Projected(c)
  BY <1>1 DEF Leg
<1>2. CASE Projected(c) /\ Monthly(c)
  BY <1>2, RowFields DEF Leg
<1>3. CASE Projected(c) /\ ~Monthly(c) /\ m \notin BillMonths(c)
  BY <1>3 DEF Leg
<1>4. CASE Projected(c) /\ ~Monthly(c) /\ m \in BillMonths(c)
  <2>1. Spent(c) # {}
    BY <1>4 DEF BillMonths
  <2>2. c.series[LastMonth(c)] \in Int
    BY <2>1, LastIsSeen
  <2> QED BY <1>4, <2>2 DEF Leg
<1> QED BY <1>1, <1>2, <1>3, <1>4

LEMMA MonthsAddUp ==
  ASSUME NEW categories \in SUBSET CategoryRows, IsFiniteSet(categories), NEW nature, NEW m \in HorizonMonths
  PROVE  LegsIn(categories, nature, m) \in Int
<1> DEFINE leg == [c \in categories |-> IF c.nature = nature THEN Leg(c, m) ELSE 0]
<1>1. \A c \in categories : leg[c] \in Int
  BY LegsAreNumbers
<1> HIDE DEF leg
<1>2. Sums(leg, categories)
  BY <1>1, SumsHold
<1>3. SumOver(leg, categories) \in Int
  BY <1>2 DEF Sums
<1> QED BY <1>3 DEF LegsIn, leg

\* A rounded quotient is no further from the exact one than a half.
LEMMA RoundedIsNear ==
  ASSUME NEW a \in Int, NEW b \in Nat \ {0}
  PROVE  /\ Rounded(a, b) \in Int
         /\ 2 * (b * Rounded(a, b)) - b <= 2 * a
         /\ 2 * a < 2 * (b * Rounded(a, b)) + b
<1> DEFINE q == (2 * a + b) \div (2 * b)
<1>1. 2 * b \in Int /\ 2 * b > 0 /\ 2 * a + b \in Int
  OBVIOUS
<1>2. \A n, d \in Int : d > 0 => n \div d \in Int /\ d * (n \div d) <= n /\ n < d * (n \div d) + d
  OBVIOUS
<1>3. q \in Int /\ (2 * b) * q <= 2 * a + b /\ 2 * a + b < (2 * b) * q + 2 * b
  BY <1>1, <1>2
<1>4. Rounded(a, b) = q
  BY DEF Rounded
<1> HIDE DEF q
<1>5. (2 * b) * q = 2 * (b * q)
  BY <1>3
<1>6. b * q \in Int
  BY <1>3
<1> QED BY <1>3, <1>4, <1>5, <1>6

\* Over the horizon the typical spend leaves the account once, within the rounding of the
\* monthly figure, and never less than the legs that are known.
THEOREM SpentOnce ==
  ASSUME NEW categories \in SUBSET CategoryRows, IsFiniteSet(categories), NEW typical \in Int
  PROVE  SpendsOnce(categories, typical)
<1> DEFINE income == [m \in HorizonMonths |-> LegsIn(categories, "income", m)]
           fixed == [m \in HorizonMonths |-> LegsIn(categories, "fixed", m)]
           residual == Residual(categories, typical)
           flat == [m \in HorizonMonths |-> residual]
           cost == [m \in HorizonMonths |-> FixedIn(categories, typical, m)]
           net == [m \in HorizonMonths |-> Net(categories, typical, m)]
           known == Known(categories)
<1>1. Horizon \in Nat \ {0} /\ HorizonMonths = 1 .. Horizon
  BY ForecastAssumption DEF HorizonMonths
<1>2. IsFiniteSet(HorizonMonths) /\ Cardinality(HorizonMonths) = Horizon
  BY <1>1, FS_Interval
<1>3. \A m \in HorizonMonths : income[m] \in Int /\ fixed[m] \in Int
  BY MonthsAddUp
<1>4. known \in Int
  <2> HIDE DEF fixed
  <2>1. Sums(fixed, HorizonMonths)
    BY <1>2, <1>3, SumsHold
  <2>2. SumOver(fixed, HorizonMonths) \in Int
    BY <2>1 DEF Sums
  <2> QED BY <2>2 DEF Known, fixed
<1>5. PICK q \in Int : q = Rounded(known, Horizon)
                       /\ 2 * (Horizon * q) - Horizon <= 2 * known /\ 2 * known < 2 * (Horizon * q) + Horizon
  BY <1>1, <1>4, RoundedIsNear
<1>6. residual = IF 0 >= typical - q THEN 0 ELSE typical - q
  BY <1>5 DEF Residual, Greatest
<1>7. residual \in Int
  BY <1>5, <1>6
<1>8. \A m \in HorizonMonths : flat[m] \in Int /\ cost[m] \in Int /\ cost[m] = fixed[m] + flat[m]
  BY <1>3, <1>7 DEF FixedIn
<1>9. \A m \in HorizonMonths : net[m] \in Int /\ income[m] = net[m] + cost[m]
  BY <1>3, <1>8 DEF Net
<1>10. SumOver(cost, HorizonMonths) = known + SumOver(flat, HorizonMonths)
  <2> HIDE DEF cost, flat, fixed, known
  <2>1. SumOver(cost, HorizonMonths) = SumOver(fixed, HorizonMonths) + SumOver(flat, HorizonMonths)
    BY <1>2, <1>3, <1>8, SumsOfSums
  <2> QED BY <2>1 DEF Known, fixed, known
<1>11. SumOver(flat, HorizonMonths) = residual * Horizon
  <2> DEFINE one == [m \in HorizonMonths |-> 1]
  <2>1. \A m \in HorizonMonths : one[m] \in Int /\ flat[m] \in Int /\ flat[m] = residual * one[m]
    BY <1>7
  <2>2. \A m \in HorizonMonths : one[m] = IF m \in HorizonMonths THEN 1 ELSE 0
    OBVIOUS
  <2> HIDE DEF one, flat, residual
  <2>3. SumOver(one, HorizonMonths) = Cardinality(HorizonMonths \cap HorizonMonths)
    BY <1>2, <2>2, SumsOfMarks
  <2>4. SumOver(one, HorizonMonths) = Horizon
    BY <1>2, <2>3
  <2> QED BY <1>2, <1>7, <2>1, <2>4, SumsOfMultiples
<1>12. SumOver(income, HorizonMonths) = SumOver(net, HorizonMonths) + SumOver(cost, HorizonMonths)
  <2> HIDE DEF income, net, cost
  <2> QED BY <1>2, <1>3, <1>8, <1>9, SumsOfSums
<1>13. SumOver(net, HorizonMonths) \in Int /\ SumOver(income, HorizonMonths) \in Int
  <2> HIDE DEF income, net
  <2>1. Sums(net, HorizonMonths) /\ Sums(income, HorizonMonths)
    BY <1>2, <1>3, <1>9, SumsHold
  <2> QED BY <2>1 DEF Sums
<1>14. Balance(categories, typical, 0, Horizon) = SumOver(net, HorizonMonths)
  BY <1>1, <1>13 DEF Balance
<1> DEFINE spent == SumOver(income, HorizonMonths) - Balance(categories, typical, 0, Horizon)
           expected == Greatest(Horizon * typical, known)
<1>15. SpendsOnce(categories, typical) <=> 2 * (spent - expected) \in -Horizon .. Horizon
  BY DEF SpendsOnce
<1>16. spent = known + residual * Horizon
  <2> HIDE DEF income, net, cost, flat, known, residual
  <2>1. residual * Horizon \in Int
    BY <1>1, <1>7
  <2> QED BY <1>4, <1>10, <1>11, <1>12, <1>13, <1>14, <2>1
<1> HIDE DEF spent, known, residual
<1>17. PICK p \in Int : p = Horizon * q
  BY <1>1, <1>5
<1>18. PICK t \in Int : t = Horizon * typical
  BY <1>1
<1>19. 2 * p - Horizon <= 2 * known /\ 2 * known < 2 * p + Horizon
  BY <1>5, <1>17
<1>20. expected = IF t >= known THEN t ELSE known
  BY <1>18 DEF Greatest
<1>21. CASE typical <= q
  <2>1. residual = 0
    BY <1>5, <1>6, <1>21
  <2>2. spent = known
    BY <1>1, <1>4, <1>16, <2>1
  <2>3. t <= p
    BY <1>1, <1>5, <1>17, <1>18, <1>21, ProductsInOrder
  <2> QED BY <1>1, <1>4, <1>15, <1>17, <1>18, <1>19, <1>20, <2>2, <2>3
<1>22. CASE typical > q
  <2>1. residual = typical - q
    BY <1>5, <1>6, <1>22
  <2>2. (typical - q) * Horizon = t - p
    BY <1>1, <1>5, <1>17, <1>18
  <2>3. spent = known + (t - p)
    BY <1>16, <2>1, <2>2
  <2>4. t >= p + Horizon
    <3>1. PICK r \in Int : r = q + 1 /\ r <= typical
      BY <1>5, <1>22
    <3>2. Horizon * r <= Horizon * typical
      BY <1>1, <3>1, ProductsInOrder
    <3>3. Horizon * r = Horizon * q + Horizon
      BY <1>1, <1>5, <3>1
    <3> QED BY <1>1, <1>17, <1>18, <3>2, <3>3
  <2> QED BY <1>1, <1>4, <1>15, <1>17, <1>18, <1>19, <1>20, <2>3, <2>4
<1> QED BY <1>5, <1>21, <1>22

(***************************************************************************)
(* The goals                                                               *)
(***************************************************************************)
LEMMA Divides ==
  ASSUME NEW n \in Int, NEW d \in Int, d > 0
  PROVE  /\ n \div d \in Int /\ n % d \in Int
         /\ n = d * (n \div d) + (n % d) /\ 0 <= n % d /\ n % d < d
<1>1. n \div d \in Int /\ n % d \in Int
  OBVIOUS
<1>2. 0 <= n % d /\ n % d < d
  OBVIOUS
<1>3. n = d * (n \div d) + (n % d)
  OBVIOUS
<1> QED BY <1>1, <1>2, <1>3

\* Any goal whose months divide what weights are counted in.
SavingsRows == {g \in [target : Nat \ {0}, months : Int] : Common % MonthsRemaining(g.months) = 0}

LEMMA WeightsArePositive ==
  ASSUME NEW goal \in SavingsRows
  PROVE  UrgencyWeight(goal) \in Nat \ {0}
<1>1. goal.target \in Nat \ {0} /\ goal.months \in Int
  BY DEF SavingsRows
<1>2. PICK d \in Nat \ {0} : d = MonthsRemaining(goal.months)
  BY <1>1 DEF MonthsRemaining, Greatest
<1>3. Common \in Nat \ {0} /\ Common % d = 0
  BY <1>2, GoalsAssumption DEF SavingsRows
<1>4. PICK q \in Int : q = Common \div d /\ Common = d * q
  <2>1. d \in Int /\ d > 0 /\ Common \in Int
    BY <1>2, <1>3
  <2>2. Common \div d \in Int /\ Common = d * (Common \div d) + (Common % d)
    BY <2>1, Divides
  <2>3. \A x \in Int : d * x \in Int /\ d * x + 0 = d * x
    BY <2>1
  <2> QED BY <1>3, <2>2, <2>3
<1>5. q > 0
  <2>1. SUFFICES ASSUME q <= 0 PROVE FALSE
    BY <1>4
  <2>2. d * q <= d * 0
    BY <1>2, <1>4, <2>1, ProductsInOrder
  <2> QED BY <1>2, <1>3, <1>4, <2>2
<1>6. UrgencyWeight(goal) = goal.target * q
  BY <1>2, <1>4 DEF UrgencyWeight
<1>7. goal.target * q >= 1
  <2>1. PICK r \in Nat : q = r + 1
    <3>1. q - 1 \in Nat /\ q = (q - 1) + 1
      BY <1>4, <1>5
    <3> QED BY <3>1
  <2>2. PICK t \in Nat \ {0} : t = goal.target
    BY <1>1
  <2>3. t * q = t * r + t
    BY <2>1, <2>2
  <2>4. t * r \in Nat
    BY <2>1, <2>2
  <2> QED BY <2>2, <2>3, <2>4
<1> QED BY <1>1, <1>4, <1>6, <1>7

\* The shares of a pool, whatever the goals: their floors and fractions add up to it, and
\* no more cents were lost than there are goals with a fraction.
Fractional(pool, goals) == {g \in DOMAIN goals : Fraction(pool, goals, g) > 0}
LEMMA PoolFloors ==
  ASSUME NEW goals \in Seq(SavingsRows), goals # <<>>, NEW pool \in Int
  PROVE  /\ IsFiniteSet(DOMAIN goals) /\ DOMAIN goals \subseteq Nat
         /\ TotalWeight(goals) \in Nat \ {0}
         /\ \A g \in DOMAIN goals :
              /\ UrgencyWeight(goals[g]) \in Nat \ {0}
              /\ Floor(pool, goals, g) \in Int /\ Fraction(pool, goals, g) \in Int
              /\ 0 <= Fraction(pool, goals, g) /\ Fraction(pool, goals, g) < TotalWeight(goals)
              /\ pool * UrgencyWeight(goals[g])
                   = TotalWeight(goals) * Floor(pool, goals, g) + Fraction(pool, goals, g)
         /\ Remainder(pool, goals) \in Nat
         /\ Remainder(pool, goals) <= Cardinality(Fractional(pool, goals))
         /\ SumOver([g \in DOMAIN goals |-> Floor(pool, goals, g)], DOMAIN goals) + Remainder(pool, goals) = pool
<1> DEFINE S == DOMAIN goals
           T == TotalWeight(goals)
           weight == [g \in S |-> UrgencyWeight(goals[g])]
           exact == [g \in S |-> pool * UrgencyWeight(goals[g])]
           floor == [g \in S |-> Floor(pool, goals, g)]
           lost == [g \in S |-> Fraction(pool, goals, g)]
           whole == [g \in S |-> T * Floor(pool, goals, g)]
           mark == [g \in S |-> IF g \in Fractional(pool, goals) THEN 1 ELSE 0]
           most == [g \in S |-> T * mark[g]]
<1>1. S = 1 .. Len(goals) /\ Len(goals) \in Nat \ {0}
  BY EmptySeq, LenProperties
<1>2. IsFiniteSet(S) /\ S \subseteq Nat /\ Cardinality(S) \in Nat \ {0}
  BY <1>1, FS_Interval
<1>3. \A g \in S : UrgencyWeight(goals[g]) \in Nat \ {0}
  BY <1>1, ElementIsIn, WeightsArePositive
<1>4. T \in Nat \ {0}
  <2>1. \A g \in S : weight[g] \in Int /\ 1 <= weight[g]
    BY <1>3
  <2>2. T = SumOver(weight, S)
    BY DEF TotalWeight
  <2> HIDE DEF weight, S, T
  <2>3. 1 * Cardinality(S) <= T
    <3>1. PICK c \in Int : c = 1
      OBVIOUS
    <3>2. IsFiniteSet(S) /\ \A g \in S : weight[g] \in Int /\ c <= weight[g]
      BY <1>2, <2>1, <3>1
    <3>3. c * Cardinality(S) <= SumOver(weight, S)
      BY <3>2, SumsAtLeast
    <3> QED BY <2>2, <3>1, <3>3
  <2>4. Sums(weight, S)
    BY <1>2, <2>1, SumsHold
  <2>5. T \in Int
    BY <2>2, <2>4 DEF Sums
  <2> QED BY <1>2, <2>3, <2>5
<1> HIDE DEF T
<1>5. \A g \in S : exact[g] \in Int
  BY <1>3
<1>6. \A g \in S : /\ floor[g] \in Int /\ lost[g] \in Int
                   /\ 0 <= lost[g] /\ lost[g] < T
                   /\ exact[g] = T * floor[g] + lost[g]
  <2>1. ASSUME NEW g \in S
        PROVE  /\ floor[g] \in Int /\ lost[g] \in Int
               /\ 0 <= lost[g] /\ lost[g] < T
               /\ exact[g] = T * floor[g] + lost[g]
    <3>1. PICK e \in Int : e = exact[g]
      BY <1>5
    <3>2. floor[g] = e \div T /\ lost[g] = e % T
      BY <3>1 DEF Floor, Fraction, T
    <3> HIDE DEF floor, lost, exact
    <3> QED BY <1>4, <3>1, <3>2, Divides, SMTT(30)
  <2> QED BY <2>1
<1>7. \A g \in S : /\ whole[g] \in Int /\ whole[g] = T * floor[g] /\ exact[g] = whole[g] + lost[g]
  <2>1. \A x \in Int : T * x \in Int
    BY <1>4
  <2> QED BY <1>6, <2>1
<1>8. \A g \in S : /\ mark[g] = IF g \in Fractional(pool, goals) THEN 1 ELSE 0
                   /\ mark[g] \in Int /\ most[g] \in Int /\ most[g] = T * mark[g] /\ lost[g] <= most[g]
  <2>1. ASSUME NEW g \in S PROVE most[g] = (IF lost[g] > 0 THEN T ELSE 0) /\ mark[g] \in Int /\ most[g] = T * mark[g]
    <3>1. most[g] = T * mark[g]
      OBVIOUS
    <3>2. mark[g] = IF lost[g] > 0 THEN 1 ELSE 0
      BY DEF Fractional
    <3> HIDE DEF most, mark, lost
    <3> QED BY <1>4, <3>1, <3>2
  <2>2. \A g \in S : mark[g] = IF g \in Fractional(pool, goals) THEN 1 ELSE 0
    OBVIOUS
  <2> HIDE DEF most, mark, lost, S
  <2> QED BY <1>4, <1>6, <2>1, <2>2
<1>9. SumOver(weight, S) = T /\ SumOver(floor, S) = pool - Remainder(pool, goals)
  <2>1. SumOver(weight, S) = T
    BY DEF TotalWeight, T
  <2>2. Remainder(pool, goals) = pool - SumOver(floor, S)
    BY DEF Remainder
  <2>3. SumOver(floor, S) \in Int
    <3> HIDE DEF floor, S
    <3>1. Sums(floor, S)
      BY <1>2, <1>6, SumsHold
    <3> QED BY <3>1 DEF Sums
  <2> QED BY <2>1, <2>2, <2>3
<1>10. \A g \in S : weight[g] \in Int /\ exact[g] = pool * weight[g]
  BY <1>3
<1>11. \A g \in S : g \in Fractional(pool, goals) <=> lost[g] > 0
  BY DEF Fractional
<1>12. Fractional(pool, goals) \subseteq S
  BY DEF Fractional
<1> HIDE DEF weight, exact, floor, lost, whole, mark, most, S
<1>13. SumOver(exact, S) = pool * T
  BY <1>2, <1>5, <1>9, <1>10, SumsOfMultiples
<1>14. SumOver(exact, S) = SumOver(whole, S) + SumOver(lost, S)
  BY <1>2, <1>5, <1>6, <1>7, SumsOfSums
<1>15. SumOver(whole, S) = T * SumOver(floor, S)
  <2>1. T \in Int /\ IsFiniteSet(S) /\ \A g \in S : floor[g] \in Int /\ whole[g] \in Int /\ whole[g] = T * floor[g]
    BY <1>2, <1>4, <1>6, <1>7
  <2> QED BY <2>1, SumsOfMultiples
<1>16. SumOver(lost, S) <= T * Cardinality(Fractional(pool, goals))
  <2>1. SumOver(lost, S) <= SumOver(most, S)
    BY <1>2, <1>6, <1>8, SumsInOrder
  <2>2. SumOver(most, S) = T * SumOver(mark, S)
    <3>1. T \in Int /\ IsFiniteSet(S) /\ \A g \in S : mark[g] \in Int /\ most[g] \in Int /\ most[g] = T * mark[g]
      BY <1>2, <1>4, <1>8
    <3> QED BY <3>1, SumsOfMultiples
  <2>3. SumOver(mark, S) = Cardinality(S \cap Fractional(pool, goals))
    BY <1>2, <1>8, SumsOfMarks
  <2>4. S \cap Fractional(pool, goals) = Fractional(pool, goals)
    BY <1>12
  <2> QED BY <2>1, <2>2, <2>3, <2>4
<1>17. 0 <= SumOver(lost, S)
  <2>1. 0 * Cardinality(S) <= SumOver(lost, S)
    <3>1. PICK c \in Int : c = 0
      OBVIOUS
    <3>2. IsFiniteSet(S) /\ \A g \in S : lost[g] \in Int /\ c <= lost[g]
      BY <1>2, <1>6, <3>1
    <3>3. c * Cardinality(S) <= SumOver(lost, S)
      BY <3>2, SumsAtLeast
    <3> QED BY <3>1, <3>3
  <2> QED BY <1>2, <2>1
<1>18. PICK R \in Int : R = Remainder(pool, goals) /\ SumOver(floor, S) = pool - R
  <2>1. Sums(floor, S)
    BY <1>2, <1>6, SumsHold
  <2>2. SumOver(floor, S) \in Int
    BY <2>1 DEF Sums
  <2>3. Remainder(pool, goals) = pool - SumOver(floor, S)
    BY DEF Remainder, floor, S
  <2> QED BY <2>2, <2>3
<1>19. SumOver(lost, S) = T * R
  <2>1. Sums(lost, S)
    BY <1>2, <1>6, SumsHold
  <2>2. PICK l \in Int : l = SumOver(lost, S)
    BY <2>1 DEF Sums
  <2>3. pool * T = T * (pool - R) + l
    BY <1>13, <1>14, <1>15, <1>18, <2>2
  <2>4. T * (pool - R) = pool * T - T * R
    BY <1>4
  <2>5. pool * T \in Int /\ T * R \in Int
    BY <1>4
  <2> QED BY <2>2, <2>3, <2>4, <2>5
<1>20. R >= 0
  <2>1. SUFFICES ASSUME R <= -1 PROVE FALSE
    OBVIOUS
  <2>2. T * R <= T * (-1)
    BY <1>4, <2>1, ProductsInOrder
  <2>3. T * (-1) = -T
    BY <1>4
  <2> QED BY <1>4, <1>17, <1>19, <2>2, <2>3
<1>21. PICK k \in Nat : k = Cardinality(Fractional(pool, goals))
  BY <1>2, <1>12, FS_Subset, FS_CardinalityType
<1>22. R <= k
  <2>1. SUFFICES ASSUME k + 1 <= R PROVE FALSE
    BY <1>21
  <2>2. PICK j \in Int : j = k + 1
    BY <1>21
  <2>3. T * j <= T * R
    BY <1>4, <2>1, <2>2, ProductsInOrder
  <2>4. T * j = T * k + T
    BY <1>4, <1>21, <2>2
  <2>5. T * k \in Int /\ T * R \in Int
    BY <1>4, <1>21
  <2> QED BY <1>4, <1>16, <1>19, <1>21, <2>3, <2>4, <2>5
<1>23. \A g \in S : /\ Floor(pool, goals, g) = floor[g] /\ Fraction(pool, goals, g) = lost[g]
                    /\ pool * UrgencyWeight(goals[g]) = exact[g]
  BY DEF floor, lost, exact
<1>24. \A g \in S :
          /\ Floor(pool, goals, g) \in Int /\ Fraction(pool, goals, g) \in Int
          /\ 0 <= Fraction(pool, goals, g) /\ Fraction(pool, goals, g) < T
          /\ pool * UrgencyWeight(goals[g]) = T * Floor(pool, goals, g) + Fraction(pool, goals, g)
  BY <1>6, <1>23
<1>25. Remainder(pool, goals) \in Nat /\ Remainder(pool, goals) <= Cardinality(Fractional(pool, goals))
  BY <1>18, <1>20, <1>21, <1>22
<1>26. SumOver(floor, S) + Remainder(pool, goals) = pool
  BY <1>18
<1> QED BY <1>2, <1>3, <1>4, <1>24, <1>25, <1>26 DEF S, T, floor

\* The goals in the order the lost cents are handed back.
Queue(pool, goals) == {p \in (DOMAIN goals) \X (DOMAIN goals) : Before(pool, goals, p[1], p[2])}

LEMMA GoalsAreOrdered ==
  ASSUME NEW goals \in Seq(SavingsRows), goals # <<>>, NEW pool \in Int
  PROVE  /\ Orders(Queue(pool, goals), DOMAIN goals)
         /\ \A h, g \in DOMAIN goals :
              <<h, g>> \in Queue(pool, goals) <=>
                \/ Fraction(pool, goals, h) > Fraction(pool, goals, g)
                \/ Fraction(pool, goals, h) = Fraction(pool, goals, g) /\ h < g
<1> DEFINE S == DOMAIN goals
           lost == [g \in S |-> Fraction(pool, goals, g)]
<1>1. \A g \in S : g \in Nat /\ lost[g] \in Int
  BY PoolFloors
<1>2. \A h, g \in S : <<h, g>> \in Queue(pool, goals) <=> (lost[h] > lost[g] \/ (lost[h] = lost[g] /\ h < g))
  BY DEF Queue, Before
<1>3. \A g \in S : lost[g] = Fraction(pool, goals, g)
  OBVIOUS
<1> HIDE DEF lost, S
<1>4. Orders(Queue(pool, goals), S)
  <2>1. \A x \in S : <<x, x>> \notin Queue(pool, goals)
    BY <1>1, <1>2
  <2>2. \A x, y, z \in S : <<x, y>> \in Queue(pool, goals) /\ <<y, z>> \in Queue(pool, goals)
                             => <<x, z>> \in Queue(pool, goals)
    <3>1. ASSUME NEW x \in S, NEW y \in S, NEW z \in S,
                 <<x, y>> \in Queue(pool, goals), <<y, z>> \in Queue(pool, goals)
          PROVE  <<x, z>> \in Queue(pool, goals)
      <4>1. lost[x] > lost[y] \/ (lost[x] = lost[y] /\ x < y)
        BY <1>2, <3>1
      <4>2. lost[y] > lost[z] \/ (lost[y] = lost[z] /\ y < z)
        BY <1>2, <3>1
      <4>3. lost[x] > lost[z] \/ (lost[x] = lost[z] /\ x < z)
        BY <1>1, <4>1, <4>2
      <4> QED BY <1>2, <4>3
    <3> QED BY <3>1
  <2>3. \A x, y \in S : x = y \/ <<x, y>> \in Queue(pool, goals) \/ <<y, x>> \in Queue(pool, goals)
    <3>1. ASSUME NEW x \in S, NEW y \in S, x # y
          PROVE  <<x, y>> \in Queue(pool, goals) \/ <<y, x>> \in Queue(pool, goals)
      <4>1. \/ lost[x] > lost[y] \/ (lost[x] = lost[y] /\ x < y)
            \/ lost[y] > lost[x] \/ (lost[y] = lost[x] /\ y < x)
        BY <1>1, <3>1
      <4> QED BY <1>2, <4>1
    <3> QED BY <3>1
  <2> QED BY <2>1, <2>2, <2>3 DEF Orders
<1> QED BY <1>2, <1>3, <1>4 DEF S

\* The cents that flooring lost are all handed back, each to a goal that lost a fraction,
\* and to a goal only when those that come before it have one.
Paid(pool, goals) == First(Queue(pool, goals), DOMAIN goals, Remainder(pool, goals))
LEMMA CentsAreHandedBack ==
  ASSUME NEW goals \in Seq(SavingsRows), goals # <<>>, NEW pool \in Int
  PROVE  /\ Cardinality(Paid(pool, goals)) = Remainder(pool, goals)
         /\ Paid(pool, goals) \subseteq Fractional(pool, goals)
         /\ \A g \in DOMAIN goals : HandedBack(pool, goals, g) = IF g \in Paid(pool, goals) THEN 1 ELSE 0
         /\ \A h, g \in DOMAIN goals :
              g \in Paid(pool, goals) /\ <<h, g>> \in Queue(pool, goals) => h \in Paid(pool, goals)
<1> DEFINE S == DOMAIN goals
           R == Remainder(pool, goals)
           order == Queue(pool, goals)
<1>1. IsFiniteSet(S) /\ R \in Nat /\ R <= Cardinality(Fractional(pool, goals))
  BY PoolFloors
<1>2. Fractional(pool, goals) \subseteq S
  BY DEF Fractional
<1>3. /\ IsFiniteSet(Fractional(pool, goals)) /\ Cardinality(Fractional(pool, goals)) \in Nat
      /\ Cardinality(S) \in Nat /\ Cardinality(Fractional(pool, goals)) <= Cardinality(S)
  BY <1>1, <1>2, FS_Subset, FS_CardinalityType
<1>4. Orders(order, S)
  BY GoalsAreOrdered
<1>5. Cardinality(First(order, S, R)) = R
  <2>1. R \in 0 .. Cardinality(S)
    BY <1>1, <1>3
  <2> HIDE DEF order, S, R
  <2> QED BY <1>1, <1>4, <2>1, FirstAreCounted
<1>6. \A g \in S : IsFiniteSet(Below(order, S, g)) /\ Cardinality(Below(order, S, g)) \in Nat
  <2>1. \A g \in S : Below(order, S, g) \subseteq S
    BY DEF Below
  <2> QED BY <1>1, <2>1, FS_Subset, FS_CardinalityType
<1>7. ASSUME NEW g \in S, g \notin Fractional(pool, goals) PROVE g \notin First(order, S, R)
  <2>1. \A h \in S : Fraction(pool, goals, h) \in Int /\ 0 <= Fraction(pool, goals, h)
    BY PoolFloors
  <2>2. Fraction(pool, goals, g) = 0
    BY <1>7, <2>1 DEF Fractional
  <2>3. \A h \in Fractional(pool, goals) : h \in S /\ Fraction(pool, goals, h) > Fraction(pool, goals, g)
    BY <1>2, <2>2 DEF Fractional
  <2>4. Fractional(pool, goals) \subseteq Below(order, S, g)
    BY <2>3, GoalsAreOrdered DEF Below
  <2>5. Cardinality(Fractional(pool, goals)) <= Cardinality(Below(order, S, g))
    BY <1>6, <2>4, FS_Subset
  <2> QED BY <1>1, <1>3, <1>6, <2>5 DEF First
<1>8. ASSUME NEW g \in S PROVE Below(order, S, g) = {h \in S : Before(pool, goals, h, g)}
  BY DEF Below, Queue
<1>9. \A g \in S : HandedBack(pool, goals, g) = IF g \in First(order, S, R) THEN 1 ELSE 0
  BY <1>8 DEF HandedBack, First
<1>10. ASSUME NEW h \in S, NEW g \in S, g \in First(order, S, R), <<h, g>> \in order
       PROVE  h \in First(order, S, R)
  <2>1. Below(order, S, h) \subseteq Below(order, S, g)
    BY <1>4, <1>10 DEF Below, Orders
  <2>2. Cardinality(Below(order, S, h)) <= Cardinality(Below(order, S, g))
    BY <1>6, <2>1, FS_Subset
  <2>3. Cardinality(Below(order, S, g)) < R
    BY <1>10 DEF First
  <2> QED BY <1>1, <1>6, <2>2, <2>3 DEF First
<1>11. First(order, S, R) \subseteq S
  BY DEF First
<1> QED BY <1>5, <1>7, <1>9, <1>10, <1>11 DEF Paid

\* The shares are the pool to the cent, overspent or not, none is a cent or more from its
\* exact share, and of two goals the more urgent never gets less of a pool.
THEOREM PoolsAreSplit ==
  ASSUME NEW goals \in Seq(SavingsRows), goals # <<>>, NEW pool \in Int
  PROVE  PoolIsSplit(pool, goals)
<1> DEFINE S == DOMAIN goals
           T == TotalWeight(goals)
           R == Remainder(pool, goals)
           paid == Paid(pool, goals)
           floor == [g \in S |-> Floor(pool, goals, g)]
           lost == [g \in S |-> Fraction(pool, goals, g)]
           weight == [g \in S |-> UrgencyWeight(goals[g])]
           back == [g \in S |-> HandedBack(pool, goals, g)]
           shares == SplitPool(pool, goals)
<1>1. IsFiniteSet(S) /\ T \in Nat \ {0} /\ R \in Nat
  BY PoolFloors
<1>2. \A g \in S : /\ weight[g] \in Nat \ {0} /\ floor[g] \in Int /\ lost[g] \in Int
                   /\ 0 <= lost[g] /\ lost[g] < T
                   /\ pool * weight[g] = T * floor[g] + lost[g]
  <2>1. ASSUME NEW g \in S
        PROVE  /\ weight[g] = UrgencyWeight(goals[g]) /\ floor[g] = Floor(pool, goals, g)
               /\ lost[g] = Fraction(pool, goals, g)
    OBVIOUS
  <2> HIDE DEF weight, floor, lost, T
  <2>2. \A g \in S : /\ UrgencyWeight(goals[g]) \in Nat \ {0}
                     /\ Floor(pool, goals, g) \in Int /\ Fraction(pool, goals, g) \in Int
                     /\ 0 <= Fraction(pool, goals, g) /\ Fraction(pool, goals, g) < T
                     /\ pool * UrgencyWeight(goals[g]) = T * Floor(pool, goals, g) + Fraction(pool, goals, g)
    BY PoolFloors DEF T
  <2> QED BY <2>1, <2>2
<1>3. SumOver(floor, S) + R = pool
  BY PoolFloors
<1>4. \A g \in S : back[g] = IF g \in paid THEN 1 ELSE 0
  BY CentsAreHandedBack
<1>5. paid \subseteq S /\ Cardinality(paid) = R /\ \A g \in paid : lost[g] > 0
  <2>1. paid \subseteq Fractional(pool, goals) /\ Cardinality(paid) = R
    BY CentsAreHandedBack
  <2>2. \A g \in Fractional(pool, goals) : g \in S /\ lost[g] > 0
    BY DEF Fractional
  <2> QED BY <2>1, <2>2
<1>6. \A g \in S : shares[g] \in Int /\ shares[g] = floor[g] + back[g] /\ back[g] \in Int
  BY <1>2, <1>4 DEF SplitPool
<1>7. \A h, g \in S : g \in paid /\ (lost[h] > lost[g] \/ (lost[h] = lost[g] /\ h < g)) => h \in paid
  BY GoalsAreOrdered, CentsAreHandedBack
<1>8. PoolIsSplit(pool, goals) <=>
        /\ SumOver(shares, S) = pool
        /\ \A g \in S : shares[g] * T - pool * weight[g] \in 1 - T .. T - 1
        /\ \A g, h \in S : weight[g] > weight[h] /\ pool >= 0 => shares[g] >= shares[h]
  BY DEF PoolIsSplit
<1> HIDE DEF S, T, R, paid, floor, lost, weight, back, shares
<1>9. SumOver(shares, S) = pool
  <2>1. IsFiniteSet(S) /\ \A g \in S : floor[g] \in Int /\ back[g] \in Int /\ shares[g] \in Int
                                       /\ shares[g] = floor[g] + back[g]
    BY <1>1, <1>2, <1>6
  <2>2. SumOver(shares, S) = SumOver(floor, S) + SumOver(back, S)
    BY <2>1, SumsOfSums
  <2>3. SumOver(back, S) = Cardinality(S \cap paid)
    BY <1>1, <1>4, SumsOfMarks
  <2>4. S \cap paid = paid
    BY <1>5
  <2> QED BY <1>3, <1>5, <2>2, <2>3, <2>4
<1>10. ASSUME NEW g \in S PROVE shares[g] * T - pool * weight[g] \in 1 - T .. T - 1
  <2>1. PICK f, l, e \in Int : f = floor[g] /\ l = lost[g] /\ e = T * f
    BY <1>1, <1>2
  <2>2. PICK p, t \in Int : p = pool * weight[g] /\ p = e + l /\ t = T /\ t > 0 /\ 0 <= l /\ l < t
    <3>1. T \in Int /\ T > 0 /\ 0 <= l /\ l < T
      BY <1>1, <1>2, <2>1
    <3>2. pool * weight[g] = e + l
      BY <1>2, <2>1
    <3> QED BY <2>1, <3>1, <3>2
  <2>3. CASE g \in paid
    <3>1. shares[g] = f + 1 /\ l > 0
      BY <1>4, <1>5, <1>6, <2>1, <2>3
    <3>2. (f + 1) * t = e + t
      BY <2>1, <2>2
    <3>3. shares[g] * T = e + t
      BY <2>2, <3>1, <3>2
    <3>4. shares[g] * T - pool * weight[g] = t - l
      BY <2>2, <3>3
    <3>5. t - l \in 1 - t .. t - 1
      BY <2>2, <3>1
    <3> QED BY <2>2, <3>4, <3>5
  <2>4. CASE g \notin paid
    <3>1. shares[g] = f
      BY <1>4, <1>6, <2>1, <2>4
    <3>2. shares[g] * T = e
      BY <2>1, <2>2, <3>1
    <3>3. shares[g] * T - pool * weight[g] = -l
      BY <2>2, <3>2
    <3>4. -l \in 1 - t .. t - 1
      BY <2>2
    <3> QED BY <2>2, <3>3, <3>4
  <2> QED BY <2>3, <2>4
<1>11. ASSUME NEW g \in S, NEW h \in S, weight[g] > weight[h], pool >= 0 PROVE shares[g] >= shares[h]
  <2>1. PICK f, l, x, y \in Int : f = floor[g] /\ l = lost[g] /\ x = floor[h] /\ y = lost[h]
    BY <1>2
  <2>2. 0 <= l /\ l < T /\ 0 <= y /\ y < T
    BY <1>2, <2>1
  <2>3. pool * weight[g] = T * f + l /\ pool * weight[h] = T * x + y
    BY <1>2, <2>1
  <2>4. pool * weight[h] + pool <= pool * weight[g]
    <3>1. PICK v, w \in Int : v = weight[g] /\ w = weight[h] + 1 /\ w <= v
      BY <1>2, <1>11
    <3>2. pool \in Nat /\ pool * w <= pool * v
      BY <1>11, <3>1, ProductsInOrder
    <3>3. PICK u \in Int : u = weight[h] /\ w = u + 1
      BY <1>2, <3>1
    <3>4. pool * (u + 1) = pool * u + pool
      BY <3>3
    <3> QED BY <3>1, <3>2, <3>3, <3>4
  <2>5. PICK a, b \in Int : a = T * f /\ b = T * x /\ b + y + pool <= a + l
    <3>1. T * f \in Int /\ T * x \in Int
      BY <1>1, <2>1
    <3> QED BY <2>1, <2>3, <2>4, <3>1
  <2>6. back[g] \in {0, 1} /\ back[h] \in {0, 1} /\ shares[g] = f + back[g] /\ shares[h] = x + back[h]
    BY <1>4, <1>6, <2>1
  <2>7. f >= x
    <3>1. SUFFICES ASSUME f < x PROVE FALSE
      BY <2>1
    <3>2. PICK z \in Int : z = f + 1 /\ z <= x
      BY <2>1, <3>1
    <3>3. T * z <= T * x
      BY <1>1, <2>1, <3>2, ProductsInOrder
    <3>4. T * z = T * f + T
      BY <1>1, <2>1, <3>2
    <3>5. a + T <= b
      BY <2>5, <3>3, <3>4
    <3>6. b + y + pool <= a + l /\ 0 <= y /\ l < T /\ 0 <= pool
      BY <1>11, <2>2, <2>5
    <3>7. a \in Int /\ b \in Int /\ l \in Int /\ y \in Int /\ T \in Int
      BY <1>1, <2>1, <2>5
    <3> QED BY <3>5, <3>6, <3>7
  <2>8. CASE f > x
    BY <2>1, <2>6, <2>8
  <2>9. CASE f = x
    <3>1. b = a /\ y + pool <= l
      BY <1>11, <2>1, <2>5, <2>9
    <3>2. CASE l > y
      <4>1. h \in paid => g \in paid
        BY <1>7, <2>1, <3>2
      <4> QED BY <1>4, <2>1, <2>6, <2>9, <4>1
    <3>3. CASE l <= y
      <4>1. pool = 0
        BY <1>11, <2>1, <3>1, <3>3
      <4>2. \A k \in S : lost[k] = 0
        <5>1. ASSUME NEW k \in S PROVE lost[k] = 0
          <6>1. PICK p, q, w \in Int : p = floor[k] /\ q = lost[k] /\ w = weight[k]
            BY <1>2
          <6>2. pool * w = T * p + q /\ 0 <= q /\ q < T
            BY <1>2, <6>1
          <6>3. pool * w = 0
            BY <4>1, <6>1
          <6>4. T * p = -q
            <7>1. PICK e \in Int : e = T * p
              BY <1>1, <6>1
            <7> QED BY <6>1, <6>2, <6>3, <7>1, SMTT(30)
          <6>5. p = 0
            <7>1. CASE p >= 1
              <8>1. T * 1 <= T * p
                BY <1>1, <6>1, <7>1, ProductsInOrder
              <8> QED BY <1>1, <6>1, <6>2, <6>4, <8>1
            <7>2. CASE p <= -1
              <8>1. T * p <= T * (-1)
                BY <1>1, <6>1, <7>2, ProductsInOrder
              <8>2. T * (-1) = -T
                BY <1>1
              <8> QED BY <1>1, <6>1, <6>2, <6>4, <8>1, <8>2
            <7> QED BY <6>1, <7>1, <7>2
          <6> QED BY <1>1, <6>1, <6>4, <6>5
        <5> QED BY <5>1
      <4>3. paid = {}
        BY <1>5, <4>2
      <4> QED BY <1>4, <2>1, <2>6, <2>9, <4>3
    <3> QED BY <2>1, <3>2, <3>3
  <2> QED BY <2>1, <2>7, <2>8, <2>9
<1> QED BY <1>8, <1>9, <1>10, <1>11

\* A whole rate is measured as it is, over however many months.
LEMMA WholeRatesAreExact ==
  ASSUME NEW rate \in Int, NEW d \in Nat \ {0}
  PROVE  Rounded(rate * d, d) = rate
<1>1. PICK n \in Int : n = rate * d /\ n = d * rate
  OBVIOUS
<1>2. PICK r \in Int : r = Rounded(n, d) /\ 2 * (d * r) - d <= 2 * n /\ 2 * n < 2 * (d * r) + d
  BY RoundedIsNear
<1>3. PICK p \in Int : p = d * r
  OBVIOUS
<1>4. ~(r >= rate + 1)
  <2>1. SUFFICES ASSUME r >= rate + 1 PROVE FALSE
    OBVIOUS
  <2>2. PICK s \in Int : s = rate + 1 /\ s <= r
    BY <2>1
  <2>3. d * s <= d * r
    BY <2>2, ProductsInOrder
  <2>4. d * s = d * rate + d
    BY <2>2
  <2>5. n + d <= p
    BY <1>1, <1>3, <2>3, <2>4
  <2>6. 2 * p - d <= 2 * n
    BY <1>2, <1>3
  <2>7. n \in Int /\ p \in Int /\ d > 0
    OBVIOUS
  <2> QED BY <2>5, <2>6, <2>7
<1>5. ~(r <= rate - 1)
  <2>1. SUFFICES ASSUME r <= rate - 1 PROVE FALSE
    OBVIOUS
  <2>2. PICK s \in Int : s = r + 1 /\ s <= rate
    BY <2>1
  <2>3. d * s <= d * rate
    BY <2>2, ProductsInOrder
  <2>4. d * s = d * r + d
    BY <2>2
  <2>5. p + d <= n
    BY <1>1, <1>3, <2>3, <2>4
  <2>6. 2 * n < 2 * p + d
    BY <1>2, <1>3
  <2>7. n \in Int /\ p \in Int /\ d > 0
    OBVIOUS
  <2> QED BY <2>5, <2>6, <2>7
<1> QED BY <1>1, <1>2, <1>4, <1>5

\* Some months are fewer than two exactly when the first is the last.
LEMMA SpanOfMonths ==
  ASSUME NEW months \in SUBSET Int, IsFiniteSet(months), months # {}
  PROVE  /\ Max(months) \in Int /\ Min(months) \in Int /\ Min(months) <= Max(months)
         /\ Max(months) \in months /\ Min(months) \in months
         /\ Cardinality(months) < 2 <=> Max(months) = Min(months)
<1> DEFINE M == Max(months)
           m == Min(months)
<1>1. /\ M \in months /\ \A k \in months : k <= M
      /\ m \in months /\ \A k \in months : m <= k
  BY EndsOfNumbers
<1> HIDE DEF M, m
<1>2. M \in Int /\ m \in Int /\ m <= M
  BY <1>1
<1>3. ASSUME M = m PROVE Cardinality(months) < 2
  <2>1. \A k \in months : k = M
    BY <1>1, <1>2, <1>3
  <2>2. months = {M}
    BY <1>1, <2>1
  <2>3. Cardinality({M}) = 1
    BY FS_Singleton
  <2> QED BY <2>2, <2>3
<1>4. ASSUME M # m PROVE ~(Cardinality(months) < 2)
  <2>1. {M} \subseteq months /\ M \in {M} /\ m \notin {M}
    BY <1>1, <1>4
  <2>2. IsFiniteSet({M}) /\ Cardinality({M}) = 1
    BY FS_Singleton
  <2>3. IsFiniteSet({M} \cup {m}) /\ Cardinality({M} \cup {m}) = 2
    <3>1. /\ IsFiniteSet({M} \cup {m})
          /\ Cardinality({M} \cup {m}) = IF m \in {M} THEN Cardinality({M})
                                         ELSE Cardinality({M}) + 1
      BY <2>2, FS_AddElement, ZenonT(40)
    <3> QED BY <2>1, <2>2, <3>1
  <2>4. ({M} \cup {m}) \subseteq months
    BY <1>1
  <2>5. Cardinality({M} \cup {m}) <= Cardinality(months) /\ Cardinality(months) \in Nat
    BY <2>4, FS_Subset, FS_CardinalityType
  <2> QED BY <2>3, <2>5
<1> QED BY <1>1, <1>2, <1>3, <1>4 DEF M, m

\* At the rate of a trend that grows the same every month, a goal is reached in the month
\* it is said to be and not a month before, whichever months have a snapshot.
THEOREM GoalsAreReached ==
  ASSUME NEW target \in Int, NEW rate \in Int, NEW from \in Int,
         NEW months \in SUBSET Int, IsFiniteSet(months), months # {}
  PROVE  EtaHolds(target, rate, from, months)
<1> DEFINE trend == [k \in months |-> from + rate * k]
           current == trend[Max(months)]
           eta == MonthsToTarget(target, current, trend)
<1>1. DOMAIN trend = months
  OBVIOUS
<1>2. PICK M, m \in Int : M = Max(months) /\ m = Min(months) /\ m <= M /\ M \in months /\ m \in months
  BY SpanOfMonths
<1>3. Cardinality(months) < 2 <=> M = m
  BY <1>2, SpanOfMonths
<1>4. trend[M] = from + rate * M /\ trend[m] = from + rate * m
  BY <1>2
<1>5. EtaHolds(target, rate, from, months) <=>
        IF current >= target THEN eta = 0
        ELSE IF Cardinality(months) < 2 \/ rate <= 0 THEN eta = NoEta
        ELSE current + eta * rate >= target /\ current + (eta - 1) * rate < target
  BY DEF EtaHolds
<1>6. current \in Int
  BY <1>2, <1>4
<1> HIDE DEF trend
<1>7. ASSUME M # m PROVE MonthlyRate(trend) = rate
  <2>1. PICK d \in Nat \ {0} : d = M - m
    BY <1>2, <1>7
  <2>2. trend[M] - trend[m] = rate * d
    <3>1. PICK a, b \in Int : a = rate * M /\ b = rate * m
      OBVIOUS
    <3>2. rate * (M - m) = a - b
      BY <3>1
    <3>3. (from + a) - (from + b) = a - b
      BY <3>1
    <3> QED BY <1>4, <2>1, <3>1, <3>2, <3>3
  <2>3. Rounded(rate * d, d) = rate
    BY WholeRatesAreExact
  <2>4. MonthlyRate(trend) = Rounded(trend[M] - trend[m], M - m)
    BY <1>1, <1>2 DEF MonthlyRate
  <2> QED BY <2>1, <2>2, <2>3, <2>4
<1>8. eta = IF current >= target THEN 0
            ELSE IF Cardinality(months) < 2 \/ MonthlyRate(trend) <= 0 THEN NoEta
            ELSE 0 - ((current - target) \div MonthlyRate(trend))
  BY <1>1 DEF MonthsToTarget
<1> HIDE DEF current, eta
<1>9. CASE current >= target
  BY <1>5, <1>8, <1>9
<1>10. CASE ~(current >= target) /\ Cardinality(months) < 2
  BY <1>5, <1>8, <1>10
<1>11. CASE ~(current >= target) /\ ~(Cardinality(months) < 2) /\ rate <= 0
  BY <1>3, <1>5, <1>7, <1>8, <1>11
<1>12. CASE ~(current >= target) /\ ~(Cardinality(months) < 2) /\ rate > 0
  <2>1. MonthlyRate(trend) = rate /\ ~(rate <= 0)
    BY <1>3, <1>7, <1>12
  <2>2. PICK n \in Int : n = current - target
    BY <1>6
  <2>3. PICK q, r \in Int : q = n \div rate /\ n = rate * q + r /\ 0 <= r /\ r < rate
    BY <1>12, Divides
  <2>4. eta = 0 - q
    BY <1>8, <1>12, <2>1, <2>2, <2>3
  <2>5. PICK p \in Int : p = rate * q
    OBVIOUS
  <2>6. eta * rate = 0 - p /\ (eta - 1) * rate = 0 - p - rate
    BY <2>4, <2>5
  <2>7. n = p + r /\ 0 <= r /\ r < rate
    BY <2>3, <2>5
  <2>8. current + (0 - p) >= target /\ current + (0 - p - rate) < target
    BY <1>6, <2>2, <2>7
  <2> QED BY <1>5, <1>12, <2>6, <2>8
<1> QED BY <1>9, <1>10, <1>11, <1>12

\* Saving what is required each month reaches the target on time.
THEOREM SavingReaches ==
  ASSUME NEW target \in Int, NEW current \in Int, NEW months \in Int
  PROVE  RequiredSuffices(target, current, months)
<1>1. PICK d \in Nat \ {0} : d = MonthsRemaining(months)
  BY DEF MonthsRemaining, Greatest
<1>2. CASE current >= target
  BY <1>1, <1>2 DEF RequiredSuffices, RequiredMonthly
<1>3. CASE ~(current >= target)
  <2>1. PICK n \in Int : n = current - target
    OBVIOUS
  <2>2. PICK q, r \in Int : q = n \div d /\ n = d * q + r /\ 0 <= r /\ r < d
    BY Divides
  <2>3. RequiredMonthly(target, current, months) = 0 - q
    BY <1>1, <1>3, <2>1, <2>2 DEF RequiredMonthly
  <2>4. PICK p \in Int : p = d * q /\ (0 - q) * d = 0 - p
    OBVIOUS
  <2>5. current + (0 - p) >= target
    BY <2>1, <2>2, <2>4
  <2> QED BY <1>1, <2>3, <2>4, <2>5 DEF RequiredSuffices
<1> QED BY <1>2, <1>3

(***************************************************************************)
(* The calendar                                                            *)
(***************************************************************************)
LEMMA MonthFacts ==
  /\ Len(MonthLengths) \in Nat \ {0} /\ Months = 1 .. Len(MonthLengths) /\ 1 \in Months
  /\ \A m \in Months : MonthLengths[m] \in Int /\ 28 <= MonthLengths[m] /\ MonthLengths[m] <= 31
<1>1. MonthLengths \in Seq(28 .. 31) /\ MonthLengths # <<>>
  BY CalendarAssumption
<1>2. Len(MonthLengths) \in Nat \ {0}
  BY <1>1, EmptySeq, LenProperties
<1>3. \A m \in Months : MonthLengths[m] \in 28 .. 31
  BY <1>1, ElementIsIn DEF Months
<1> QED BY <1>2, <1>3 DEF Months

\* A month starts where the one before it ends.
LEMMA StartsFollow ==
  /\ StartOfMonth[1] = 0
  /\ \A m \in Months : StartOfMonth[m] \in Int
  /\ \A m \in Months : m + 1 \in Months => StartOfMonth[m + 1] = StartOfMonth[m] + MonthLengths[m]
<1>1. IsFiniteSet(Months)
  BY MonthFacts, FS_Interval
<1>2. Sums(MonthLengths, Months)
  BY <1>1, MonthFacts, SumsHold
<1>3. \A m \in Months : 1 .. m - 1 \in SUBSET Months /\ StartOfMonth[m] = SumOver(MonthLengths, 1 .. m - 1)
  BY MonthFacts DEF StartOfMonth
<1>4. StartOfMonth[1] = 0
  <2>1. 1 .. 1 - 1 = {}
    OBVIOUS
  <2>2. StartOfMonth[1] = SumOver(MonthLengths, 1 .. 1 - 1)
    BY <1>3, MonthFacts
  <2> QED BY <1>2, <2>1, <2>2 DEF Sums
<1>5. \A m \in Months : StartOfMonth[m] \in Int
  BY <1>2, <1>3 DEF Sums
<1>6. ASSUME NEW m \in Months, m + 1 \in Months
      PROVE  StartOfMonth[m + 1] = StartOfMonth[m] + MonthLengths[m]
  <2>1. m \in Int /\ m >= 1
    BY MonthFacts
  <2>2. PICK k \in Months : k = m + 1 /\ 1 .. k - 1 = 1 .. m
    BY <1>6, <2>1
  <2>3. StartOfMonth[k] = SumOver(MonthLengths, 1 .. m) /\ 1 .. m \in SUBSET Months
    BY <1>3, <2>2
  <2>4. m \in 1 .. m /\ (1 .. m) \ {m} = 1 .. m - 1
    BY <2>1
  <2>5. SumOver(MonthLengths, 1 .. m) = MonthLengths[m] + SumOver(MonthLengths, (1 .. m) \ {m})
    BY <1>2, <2>3, <2>4 DEF Sums
  <2>6. SumOver(MonthLengths, 1 .. m - 1) = StartOfMonth[m]
    BY <1>3
  <2>7. StartOfMonth[k] = MonthLengths[m] + StartOfMonth[m]
    BY <2>3, <2>4, <2>5, <2>6
  <2>8. MonthLengths[m] \in Int /\ StartOfMonth[m] \in Int
    BY <1>5, MonthFacts
  <2> QED BY <2>2, <2>7, <2>8
<1> QED BY <1>4, <1>5, <1>6

\* Of two months the later starts after the whole of the earlier.
LEMMA StartsRise ==
  /\ \A m \in Months : StartOfMonth[m] >= 0
  /\ \A m, k \in Months : m < k => StartOfMonth[m] + MonthLengths[m] <= StartOfMonth[k]
<1> DEFINE N == Len(MonthLengths)
           F == {n \in 0 .. N : \A k \in 1 .. n : /\ StartOfMonth[k] >= 0
                                                   /\ \A m \in 1 .. k - 1 :
                                                        StartOfMonth[m] + MonthLengths[m] <= StartOfMonth[k]}
<1>1. N \in Nat \ {0} /\ Months = 1 .. N
  BY MonthFacts
<1> HIDE DEF N
<1>2. 0 \in F
  BY <1>1
<1>3. ASSUME NEW n \in 0 .. N - 1, n \in F PROVE n + 1 \in F
  <2>1. n + 1 \in 0 .. N /\ n \in Nat
    BY <1>1
  <2>2. PICK j \in Months : j = n + 1
    BY <1>1
  <2>3. CASE n = 0
    <3>1. StartOfMonth[1] >= 0
      BY StartsFollow
    <3> QED BY <2>1, <2>3, <3>1
  <2>4. CASE n # 0
    <3>1. n \in Months /\ n + 1 \in Months
      BY <1>1, <2>1, <2>4
    <3>2. StartOfMonth[j] = StartOfMonth[n] + MonthLengths[n] /\ StartOfMonth[n] >= 0
      BY <1>3, <2>1, <2>2, <2>4, <3>1, StartsFollow
    <3>3. MonthLengths[n] \in Int /\ MonthLengths[n] >= 28 /\ StartOfMonth[n] \in Int
      BY <3>1, MonthFacts, StartsFollow
    <3>4. ASSUME NEW m \in 1 .. j - 1 PROVE StartOfMonth[m] + MonthLengths[m] <= StartOfMonth[j]
      <4>1. m \in Months /\ (m = n \/ m \in 1 .. n - 1)
        BY <1>1, <2>1, <2>2, <2>4
      <4>2. StartOfMonth[m] \in Int /\ MonthLengths[m] \in Int
        BY <4>1, MonthFacts, StartsFollow
      <4>3. CASE m = n
        BY <3>2, <3>3, <4>3
      <4>4. CASE m \in 1 .. n - 1
        <5>1. StartOfMonth[m] + MonthLengths[m] <= StartOfMonth[n]
          BY <1>3, <2>1, <2>4, <4>4
        <5> QED BY <3>2, <3>3, <4>2, <5>1
      <4> QED BY <4>1, <4>3, <4>4
    <3>5. StartOfMonth[j] >= 0
      BY <3>2, <3>3
    <3>6. \A k \in 1 .. n + 1 : k = j \/ k \in 1 .. n
      BY <2>1, <2>2
    <3> QED BY <1>3, <2>1, <2>2, <3>4, <3>5, <3>6
  <2> QED BY <2>3, <2>4
<1>4. 0 .. N \subseteq F
  <2> HIDE DEF F
  <2> QED BY <1>1, <1>2, <1>3, InductionUpTo
<1>5. N \in F
  BY <1>1, <1>4
<1>6. \A m, k \in Months : m < k => m \in 1 .. k - 1
  BY <1>1
<1> QED BY <1>1, <1>5, <1>6

\* Every date is a day of the month it is of, and of no other.
LEMMA MonthOfDate ==
  ASSUME NEW d \in Dates
  PROVE  /\ d \in Int /\ MonthOf(d) \in Months
         /\ DayOf(d) \in 1 .. MonthLengths[MonthOf(d)]
         /\ d = StartOfMonth[MonthOf(d)] + DayOf(d) - 1
<1>1. PICK N \in Nat \ {0} : N = Len(MonthLengths) /\ Months = 1 .. N
  BY MonthFacts
<1>2. d \in Nat /\ d < StartOfMonth[N] + MonthLengths[N]
  <2>1. N \in Months
    BY <1>1
  <2>2. StartOfMonth[N] \in Int /\ MonthLengths[N] \in Int
    BY <2>1, MonthFacts, StartsFollow
  <2> QED BY <1>1, <2>2 DEF Dates, EndOfMonth
<1> DEFINE S == {m \in 0 .. N - 1 : StartOfMonth[m + 1] <= d}
<1>3. 0 \in S
  BY <1>1, <1>2, StartsFollow
<1>4. PICK m \in S : \A k \in S : k <= m
  <2>1. N - 1 \in Nat /\ S \in SUBSET (0 .. N - 1) /\ S # {}
    BY <1>3
  <2>2. PICK n \in Nat : n = N - 1 /\ S \in SUBSET (0 .. n)
    BY <2>1
  <2> HIDE DEF S
  <2> QED BY <2>1, <2>2, GreatestUpTo
<1>5. PICK j \in Months : j = m + 1 /\ StartOfMonth[j] <= d
  BY <1>1, <1>4
<1>6. StartOfMonth[j] \in Int /\ MonthLengths[j] \in Int
  BY MonthFacts, StartsFollow
<1>7. d < StartOfMonth[j] + MonthLengths[j]
  <2>1. CASE j = N
    BY <1>2, <2>1
  <2>2. CASE j # N
    <3>1. PICK k \in Months : k = j + 1 /\ j \in 0 .. N - 1 /\ k # m
      <4>1. j \in 1 .. N - 1 /\ m \in Int /\ j = m + 1
        BY <1>1, <1>5, <2>2
      <4>2. j + 1 \in Months /\ j + 1 \in Int
        BY <1>1, <4>1
      <4>3. j + 1 # m /\ j \in 0 .. N - 1
        BY <1>1, <4>1
      <4>4. j + 1 \in 0 .. N
        BY <1>1, <4>1
      <4> QED BY <4>2, <4>3, <4>4
    <3>2. StartOfMonth[k] = StartOfMonth[j] + MonthLengths[j]
      BY <3>1, StartsFollow
    <3>3. ~(StartOfMonth[k] <= d)
      <4>1. m + 1 \notin S
        BY <1>4
      <4>2. j \notin S /\ j \in 0 .. N - 1
        BY <1>5, <3>1, <4>1, <1>1
      <4>3. ~(StartOfMonth[j + 1] <= d)
        BY <4>2
      <4> QED BY <3>1, <4>3
    <3>4. StartOfMonth[k] \in Int
      BY StartsFollow
    <3> QED BY <1>2, <3>2, <3>3, <3>4
  <2> QED BY <2>1, <2>2
<1>8. \E i \in Months : StartOfMonth[i] <= d /\ d <= EndOfMonth(i)
  BY <1>2, <1>5, <1>6, <1>7 DEF EndOfMonth
<1>9. MonthOf(d) = CHOOSE i \in Months : StartOfMonth[i] <= d /\ d <= EndOfMonth(i)
  BY DEF MonthOf, MonthAt
<1>10. MonthOf(d) \in Months /\ StartOfMonth[MonthOf(d)] <= d /\ d <= EndOfMonth(MonthOf(d))
  BY <1>8, <1>9
<1>11. StartOfMonth[MonthOf(d)] \in Int /\ MonthLengths[MonthOf(d)] \in Int
  BY <1>10, MonthFacts, StartsFollow
<1> QED BY <1>2, <1>10, <1>11 DEF DayOf, EndOfMonth

\* A month that has a date is the date's.
LEMMA DatesAreOfOneMonth ==
  ASSUME NEW m \in Months, NEW day \in 1 .. MonthLengths[m]
  PROVE  /\ DateOf(m, day) \in Dates /\ MonthOf(DateOf(m, day)) = m /\ DayOf(DateOf(m, day)) = day
<1>1. StartOfMonth[m] \in Int /\ MonthLengths[m] \in Int /\ StartOfMonth[m] >= 0
  BY MonthFacts, StartsFollow, StartsRise
<1>2. PICK d \in Nat : d = DateOf(m, day) /\ StartOfMonth[m] <= d /\ d < StartOfMonth[m] + MonthLengths[m]
  BY <1>1 DEF DateOf
<1>3. PICK N \in Months : N = Len(MonthLengths) /\ m <= N
  BY MonthFacts
<1>4. StartOfMonth[N] \in Int /\ MonthLengths[N] \in Int /\ MonthLengths[N] >= 28
  BY MonthFacts, StartsFollow
<1>5. d < StartOfMonth[N] + MonthLengths[N]
  <2>1. CASE m = N
    BY <1>2, <2>1
  <2>2. CASE m < N
    BY <1>1, <1>2, <1>4, <2>2, StartsRise
  <2>3. m \in Int /\ N \in Int
    BY MonthFacts
  <2> QED BY <1>3, <2>1, <2>2, <2>3
<1>6. d \in Dates
  BY <1>2, <1>3, <1>4, <1>5 DEF Dates, EndOfMonth
<1>7. PICK k \in Months : k = MonthOf(d) /\ DayOf(d) \in 1 .. MonthLengths[k] /\ d = StartOfMonth[k] + DayOf(d) - 1
  BY <1>6, MonthOfDate
<1>8. StartOfMonth[k] \in Int /\ MonthLengths[k] \in Int
  BY MonthFacts, StartsFollow
<1>9. k = m
  <2>1. k \in Int /\ m \in Int
    BY MonthFacts
  <2>2. ~(k < m)
    BY <1>1, <1>2, <1>7, <1>8, StartsRise
  <2>3. ~(m < k)
    BY <1>1, <1>2, <1>7, <1>8, StartsRise
  <2> QED BY <2>1, <2>2, <2>3
<1>10. DayOf(d) = day
  <2>1. DayOf(d) = d - StartOfMonth[m] + 1
    BY <1>7, <1>9 DEF DayOf
  <2> QED BY <1>1, <1>2, <2>1 DEF DateOf
<1> QED BY <1>2, <1>6, <1>7, <1>9, <1>10

\* A date n months on is reached when n months have fully elapsed: for a day of the month
\* that every month has.
LEMMA MonthsElapseTogether ==
  ASSUME NEW from \in Dates, NEW to \in Dates, DayOf(from) <= 28, NEW n \in Nat, MonthOf(from) + n \in Months
  PROVE  /\ AddMonths(from, n) \in Dates
         /\ MonthsBetween(from, to) \in Int
         /\ AddMonths(from, n) <= to <=> n <= MonthsBetween(from, to)
<1>1. PICK a \in Months, x \in Int : a = MonthOf(from) /\ x = DayOf(from) /\ 1 <= x /\ x <= 28
  BY MonthOfDate, MonthFacts
<1>2. PICK m \in Months, y \in Int : /\ m = MonthOf(to) /\ y = DayOf(to) /\ 1 <= y /\ y <= MonthLengths[m]
                                     /\ to = StartOfMonth[m] + y - 1
  <2>1. PICK m \in Months : m = MonthOf(to) /\ DayOf(to) \in 1 .. MonthLengths[m] /\ to = StartOfMonth[m] + DayOf(to) - 1
    BY MonthOfDate
  <2>2. MonthLengths[m] \in Int
    BY MonthFacts
  <2>3. DayOf(to) \in Int /\ 1 <= DayOf(to) /\ DayOf(to) <= MonthLengths[m]
    BY <2>1, <2>2
  <2> QED BY <2>1, <2>3
<1>3. PICK k \in Months : k = a + n
  BY <1>1
<1>4. StartOfMonth[k] \in Int /\ MonthLengths[k] \in Int /\ 28 <= MonthLengths[k]
  BY MonthFacts, StartsFollow
<1>5. StartOfMonth[m] \in Int /\ MonthLengths[m] \in Int /\ to \in Int
  BY MonthFacts, StartsFollow, MonthOfDate
<1>6. AddMonths(from, n) = DateOf(k, x) /\ DateOf(k, x) = StartOfMonth[k] + x - 1
  BY <1>1, <1>3, <1>4 DEF AddMonths, Least, DateOf
<1>7. AddMonths(from, n) \in Dates
  BY <1>1, <1>4, <1>6, DatesAreOfOneMonth
<1>8. a \in Int /\ m \in Int /\ k \in Int
  BY MonthFacts
<1>9. MonthsBetween(from, to) = m - a - (IF y < x THEN 1 ELSE 0)
  BY <1>1, <1>2 DEF MonthsBetween, MonthsApart
<1>10. CASE m = k
  <2>1. MonthsBetween(from, to) = n - (IF y < x THEN 1 ELSE 0)
    BY <1>3, <1>8, <1>9, <1>10
  <2>2. AddMonths(from, n) <= to <=> x <= y
    BY <1>1, <1>2, <1>4, <1>6, <1>10
  <2> QED BY <1>1, <1>2, <1>7, <2>1, <2>2
<1>11. CASE m < k
  <2>1. StartOfMonth[m] + MonthLengths[m] <= StartOfMonth[k]
    BY <1>11, StartsRise
  <2>2. ~(AddMonths(from, n) <= to)
    BY <1>1, <1>2, <1>4, <1>5, <1>6, <2>1
  <2>3. ~(n <= MonthsBetween(from, to))
    BY <1>3, <1>8, <1>9, <1>11
  <2> QED BY <1>7, <1>8, <1>9, <2>2, <2>3
<1>12. CASE k < m
  <2>1. StartOfMonth[k] + MonthLengths[k] <= StartOfMonth[m]
    BY <1>12, StartsRise
  <2>2. AddMonths(from, n) <= to
    BY <1>1, <1>2, <1>4, <1>5, <1>6, <2>1
  <2>3. n <= MonthsBetween(from, to)
    BY <1>3, <1>8, <1>9, <1>12
  <2> QED BY <1>7, <1>8, <1>9, <2>2, <2>3
<1> QED BY <1>7, <1>8, <1>9, <1>10, <1>11, <1>12

(***************************************************************************)
(* The loans                                                               *)
(***************************************************************************)
LoanRows == [principal : Int, anchor : Dates, payment : Int, term : Nat]

\* The units of a loan are the powers of the rate, all positive.
LEMMA UnitsArePositive ==
  ASSUME NEW loan \in LoanRows
  PROVE  \A n \in 0 .. loan.term : Units(loan)[n] \in Nat \ {0}
<1> DEFINE N == loan.term
           F == [n \in 1 .. N |-> [u \in Int |-> IF RateOf = 0 THEN 1 ELSE RateOf * u]]
           Iter(f) == f = [n \in 0 .. N |-> IF n = 0 \/ RateOf = 0 THEN 1 ELSE RateOf * f[n - 1]]
<1>1. N \in Nat /\ RateOf \in Nat
  BY LoansAssumption DEF LoanRows
<1>2. F \in StepTables(N, Int)
  BY <1>1 DEF StepTables
<1>3. \A n \in 1 .. N, u \in Int : F[n][u] = IF RateOf = 0 THEN 1 ELSE RateOf * u
  OBVIOUS
<1> HIDE DEF F, N
<1>4. PICK g : Walks(g, Int, 1, N, F)
  <2>1. 1 \in Int
    OBVIOUS
  <2> QED BY <1>1, <1>2, <2>1, WalkExists, Zenon
<1>5. g \in [0 .. N -> Int] /\ g[0] = 1 /\ \A i \in 1 .. N : g[i] = F[i][g[i - 1]]
  BY <1>4 DEF Walks
<1>6. ASSUME NEW n \in 0 .. N PROVE g[n] = IF n = 0 \/ RateOf = 0 THEN 1 ELSE RateOf * g[n - 1]
  <2>1. CASE n = 0
    BY <1>5, <2>1
  <2>2. CASE n # 0
    <3>1. n \in 1 .. N /\ n - 1 \in 0 .. N
      BY <1>1, <2>2
    <3>2. g[n] = F[n][g[n - 1]] /\ g[n - 1] \in Int
      BY <1>5, <3>1
    <3> QED BY <1>3, <2>2, <3>1, <3>2
  <2> QED BY <2>1, <2>2
<1>7. Iter(g)
  <2>1. g = [n \in 0 .. N |-> g[n]]
    BY <1>5
  <2> QED BY <1>6, <2>1
<1>8. Units(loan) = CHOOSE f : Iter(f)
  BY Zenon DEF Units, N
<1>9. Iter(Units(loan))
  <2> HIDE DEF Iter
  <2> QED BY <1>7, <1>8, Zenon
<1> DEFINE u == Units(loan)
<1>10. \A n \in 0 .. N : u[n] = IF n = 0 \/ RateOf = 0 THEN 1 ELSE RateOf * u[n - 1]
  BY <1>9
<1> HIDE DEF u, Iter
<1> DEFINE S == {n \in 0 .. N : u[n] \in Nat \ {0}}
<1>11. 0 \in S
  BY <1>1, <1>10
<1>12. ASSUME NEW n \in 0 .. N - 1, n \in S PROVE n + 1 \in S
  <2>1. PICK j \in 0 .. N : j = n + 1 /\ j - 1 = n /\ j # 0
    BY <1>1
  <2>2. u[j] = IF RateOf = 0 THEN 1 ELSE RateOf * u[n]
    BY <1>10, <2>1
  <2>3. CASE RateOf = 0
    BY <2>1, <2>2, <2>3
  <2>4. CASE RateOf # 0
    <3>1. PICK v \in Nat \ {0} : v = u[n]
      BY <1>12
    <3>2. RateOf * 1 <= RateOf * v
      BY <1>1, <3>1, ProductsInOrder
    <3>3. RateOf * v \in Int /\ RateOf * 1 = RateOf
      BY <1>1, <3>1
    <3>4. RateOf * v \in Nat \ {0}
      BY <1>1, <2>4, <3>2, <3>3
    <3> QED BY <2>1, <2>2, <2>4, <3>1, <3>4
  <2> QED BY <2>3, <2>4
<1>13. 0 .. N \subseteq S
  <2> HIDE DEF S
  <2> QED BY <1>1, <1>11, <1>12, InductionUpTo
<1> QED BY <1>13 DEF N, u

\* A balance is a number each month, and one that is gone stays gone.
LEMMA BalancesStayGone ==
  ASSUME NEW loan \in LoanRows
  PROVE  LET b == BalanceAfter(loan)
         IN /\ \A n \in 0 .. loan.term : b[n] \in Int
            /\ \A k, n \in 0 .. loan.term : k <= n /\ b[k] <= 0 => b[n] <= 0
<1> DEFINE N == loan.term
           F == [n \in 1 .. N |-> [b \in Int |-> NextBalance(b, n, loan)]]
           Iter(f) == f = [n \in 0 .. N |-> IF n = 0 THEN loan.principal ELSE NextBalance(f[n - 1], n, loan)]
<1>1. N \in Nat /\ loan.principal \in Int /\ loan.payment \in Int /\ RateOf \in Nat
  BY LoansAssumption DEF LoanRows
<1>2. ASSUME NEW n \in 1 .. N, NEW b \in Int
      PROVE  NextBalance(b, n, loan) \in Int /\ (b <= 0 => NextBalance(b, n, loan) <= 0)
  <2>1. PICK u \in Int : u = Units(loan)[n]
    BY <1>1, UnitsArePositive
  <2>2. b * (RateOf + 1) \in Int /\ loan.payment * u \in Int
    BY <1>1
  <2> QED BY <1>1, <2>1, <2>2 DEF NextBalance
<1>3. F \in StepTables(N, Int)
  BY <1>2 DEF StepTables
<1>4. \A n \in 1 .. N, b \in Int : F[n][b] = NextBalance(b, n, loan)
  OBVIOUS
<1> HIDE DEF F, N
<1>5. PICK g : Walks(g, Int, loan.principal, N, F)
  BY <1>1, <1>3, WalkExists, Zenon
<1>6. g \in [0 .. N -> Int] /\ g[0] = loan.principal /\ \A i \in 1 .. N : g[i] = F[i][g[i - 1]]
  BY <1>5 DEF Walks
<1>7. ASSUME NEW n \in 0 .. N PROVE g[n] = IF n = 0 THEN loan.principal ELSE NextBalance(g[n - 1], n, loan)
  <2>1. CASE n = 0
    BY <1>6, <2>1
  <2>2. CASE n # 0
    <3>1. n \in 1 .. N /\ n - 1 \in 0 .. N
      BY <1>1, <2>2
    <3>2. g[n] = F[n][g[n - 1]] /\ g[n - 1] \in Int
      BY <1>6, <3>1
    <3> QED BY <1>4, <2>2, <3>1, <3>2
  <2> QED BY <2>1, <2>2
<1>8. Iter(g)
  <2>1. g = [n \in 0 .. N |-> g[n]]
    BY <1>6
  <2> QED BY <1>7, <2>1
<1>9. BalanceAfter(loan) = CHOOSE f : Iter(f)
  BY Zenon DEF BalanceAfter, N
<1>10. Iter(BalanceAfter(loan))
  <2> HIDE DEF Iter
  <2> QED BY <1>8, <1>9, Zenon
<1> DEFINE b == BalanceAfter(loan)
<1>11. DOMAIN b = 0 .. N /\ \A n \in 0 .. N : b[n] = IF n = 0 THEN loan.principal ELSE NextBalance(b[n - 1], n, loan)
  BY <1>10
<1> HIDE DEF b, Iter
<1> DEFINE S == {n \in 0 .. N : b[n] \in Int /\ \A k \in 0 .. n : b[k] <= 0 => b[n] <= 0}
<1>12. 0 \in S
  <2>1. b[0] = loan.principal /\ 0 \in 0 .. N
    BY <1>1, <1>11
  <2>2. \A k \in 0 .. 0 : k = 0
    OBVIOUS
  <2> QED BY <1>1, <2>1, <2>2
<1>13. ASSUME NEW n \in 0 .. N - 1, n \in S PROVE n + 1 \in S
  <2>1. PICK j \in 1 .. N : j = n + 1 /\ j - 1 = n /\ j # 0 /\ j \in 0 .. N
    BY <1>1
  <2>2. b[j] = NextBalance(b[n], j, loan) /\ b[n] \in Int
    BY <1>11, <1>13, <2>1
  <2>3. b[j] \in Int /\ (b[n] <= 0 => b[j] <= 0)
    BY <1>2, <2>2 DEF N
  <2>4. ASSUME NEW k \in 0 .. j, b[k] <= 0 PROVE b[j] <= 0
    <3>1. k = j \/ k \in 0 .. n
      BY <2>1
    <3> QED BY <1>13, <2>3, <2>4, <3>1
  <2> QED BY <2>1, <2>3, <2>4
<1>14. 0 .. N \subseteq S
  <2> HIDE DEF S
  <2> QED BY <1>1, <1>12, <1>13, InductionUpTo
<1>15. \A n \in 0 .. N : b[n] \in Int
  BY <1>14
<1>16. \A k, n \in 0 .. N : k <= n /\ b[k] <= 0 => b[n] <= 0
  <2>1. ASSUME NEW k \in 0 .. N, NEW n \in 0 .. N, k <= n, b[k] <= 0 PROVE b[n] <= 0
    <3>1. k \in 0 .. n /\ n \in S
      BY <1>1, <1>14, <2>1
    <3> QED BY <2>1, <3>1
  <2> QED BY <2>1
<1> QED BY <1>15, <1>16 DEF N, b

\* The payoff date and the balance beside it agree: for every loan anchored on a day that
\* every month has, in a calendar that holds its term.
THEOREM PayoffsAgree ==
  ASSUME NEW loan \in LoanRows, AnchoredEveryMonth(loan), MonthOf(loan.anchor) + loan.term \in Months,
         NEW d \in Dates, d >= loan.anchor
  PROVE  PayoffAgrees(loan, d)
<1> DEFINE N == loan.term
           b == BalanceAfter(loan)
           from == loan.anchor
           p == MonthsToPayoff(loan)
           e == MonthsElapsed(loan, d)
           cleared == {n \in 0 .. N : b[n] <= 0}
           apart == MonthsBetween(from, d)
<1>1. N \in Nat /\ from \in Dates /\ DayOf(from) <= 28
  BY DEF LoanRows, AnchoredEveryMonth
<1>2. \A n \in 0 .. N : b[n] \in Int
  BY BalancesStayGone
<1>3. \A k, n \in 0 .. N : k <= n /\ b[k] <= 0 => b[n] <= 0
  BY BalancesStayGone
<1>4. ASSUME NEW n \in 0 .. N
      PROVE  /\ AddMonths(from, n) \in Dates /\ apart \in Int
             /\ AddMonths(from, n) <= d <=> n <= apart
  <2>1. PICK a \in Int : a = MonthOf(from) /\ a \in Months /\ a + N \in Months
    BY <1>1, MonthOfDate, MonthFacts
  <2>2. a + n \in Months /\ n \in Nat
    BY <1>1, <2>1, MonthFacts
  <2> QED BY <1>1, <2>1, <2>2, MonthsElapseTogether
<1>5. 0 <= apart
  <2>1. AddMonths(from, 0) = from
    <3>1. from \in Int /\ DayOf(from) \in 1 .. MonthLengths[MonthOf(from)] /\ MonthOf(from) \in Months
          /\ from = StartOfMonth[MonthOf(from)] + DayOf(from) - 1
      BY <1>1, MonthOfDate
    <3>2. MonthOf(from) \in Int /\ MonthLengths[MonthOf(from)] \in Int
      BY <3>1, MonthFacts
    <3>3. MonthOf(from) + 0 = MonthOf(from) /\ DayOf(from) <= MonthLengths[MonthOf(from)]
      BY <3>1, <3>2
    <3>4. Least(DayOf(from), MonthLengths[MonthOf(from)]) = DayOf(from)
      BY <3>3 DEF Least
    <3> QED BY <3>1, <3>3, <3>4 DEF AddMonths, DateOf
  <2>2. 0 \in 0 .. N
    BY <1>1
  <2>3. d \in Int /\ from \in Int
    BY <1>1, MonthOfDate
  <2> QED BY <1>4, <2>1, <2>2, <2>3
<1>6. e = IF apart <= N THEN apart ELSE N
  BY <1>1, <1>4, <1>5 DEF MonthsElapsed, Least, Greatest
<1>7. apart \in Int
  <2>1. 0 \in 0 .. N
    BY <1>1
  <2> QED BY <1>4, <2>1
<1>8. e \in 0 .. N
  <2> HIDE DEF e, apart, N
  <2> QED BY <1>1, <1>5, <1>6, <1>7
<1>9. Owed(loan, d) = b[e]
  BY DEF Owed
<1>10. PICK u \in Nat \ {0} : u = Units(loan)[e]
  BY <1>8, UnitsArePositive
<1>11. ASSUME b[e] <= 0 PROVE AmortizedBalance(loan, d) = 0
  <2>1. PICK w \in Int : w = b[e] /\ w <= 0
    BY <1>2, <1>8, <1>11
  <2>2. PICK n, m \in Int : n = 2 * w + u /\ m = 2 * u /\ n < m /\ m > 0
    BY <2>1
  <2>3. PICK q, r \in Int : q = n \div m /\ n = m * q + r /\ 0 <= r /\ r < m
    BY <2>2, Divides
  <2>4. q <= 0
    <3>1. SUFFICES ASSUME q >= 1 PROVE FALSE
      OBVIOUS
    <3>2. m \in Nat /\ m * 1 <= m * q
      BY <2>2, <3>1, ProductsInOrder
    <3>3. m * q \in Int /\ m * 1 = m
      BY <2>2
    <3> QED BY <2>2, <2>3, <3>2, <3>3
  <2>5. AmortizedBalance(loan, d) = Greatest(0, q)
    BY <1>9, <1>10, <2>1, <2>2, <2>3 DEF AmortizedBalance
  <2> QED BY <2>4, <2>5 DEF Greatest
<1>12. p = IF cleared = {} THEN NoPayoff ELSE CHOOSE n \in cleared : \A k \in cleared : n <= k
  BY DEF MonthsToPayoff
<1>13. PayoffAgrees(loan, d) <=>
         IF ProjectedPayoffDate(loan) # NoPayoff /\ d >= ProjectedPayoffDate(loan)
         THEN AmortizedBalance(loan, d) = 0 ELSE Owed(loan, d) > 0
  BY DEF PayoffAgrees
<1> HIDE DEF p, e, b, apart, N
<1>14. CASE cleared = {}
  <2>1. ProjectedPayoffDate(loan) = NoPayoff
    BY <1>12, <1>14 DEF ProjectedPayoffDate, p
  <2>2. b[e] \in Int /\ ~(b[e] <= 0)
    BY <1>2, <1>8, <1>14
  <2> QED BY <1>9, <1>13, <2>1, <2>2
<1>15. CASE cleared # {}
  <2>1. p \in cleared /\ \A k \in cleared : p <= k
    <3>1. cleared \in SUBSET Int /\ IsFiniteSet(cleared)
      <4>1. IsFiniteSet(0 .. N) /\ cleared \subseteq 0 .. N
        <5>1. 0 \in Int /\ N \in Int
          BY <1>1
        <5> QED BY <5>1, FS_Interval
      <4> QED BY <1>1, <4>1, FS_Subset
    <3> HIDE DEF cleared
    <3>2. Min(cleared) \in cleared /\ \A k \in cleared : Min(cleared) <= k
      BY <1>15, <3>1, EndsOfNumbers
    <3> QED BY <1>12, <1>15, <3>2
  <2>2. p \in 0 .. N /\ p # NoPayoff /\ b[p] <= 0
    BY <1>1, <2>1 DEF NoPayoff
  <2>3. ProjectedPayoffDate(loan) = AddMonths(from, p)
    BY <2>2 DEF ProjectedPayoffDate, p
  <2>4. AddMonths(from, p) \in Dates /\ (AddMonths(from, p) <= d <=> p <= apart)
    BY <1>4, <2>2
  <2>5. AddMonths(from, p) # NoPayoff /\ AddMonths(from, p) \in Int /\ d \in Int
    <3>1. \A x \in Dates : x \in Nat
      BY DEF Dates
    <3> QED BY <2>4, <3>1 DEF NoPayoff
  <2>6. CASE p <= apart
    <3>1. p <= e
      BY <1>1, <1>6, <1>7, <2>2, <2>6
    <3>2. b[e] <= 0
      BY <1>3, <1>8, <2>2, <3>1
    <3> QED BY <1>11, <1>13, <2>3, <2>4, <2>5, <2>6, <3>2
  <2>7. CASE ~(p <= apart)
    <3>1. ~(p <= e)
      BY <1>1, <1>6, <1>7, <2>2, <2>7
    <3>2. e \notin cleared
      BY <2>1, <3>1
    <3>3. b[e] \in Int /\ ~(b[e] <= 0)
      BY <1>2, <1>8, <3>2
    <3>4. ~(AddMonths(from, p) <= d)
      BY <2>4, <2>7
    <3> QED BY <1>9, <1>13, <2>3, <2>5, <3>3, <3>4
  <2> QED BY <2>6, <2>7
<1> QED BY <1>14, <1>15

(***************************************************************************)
(* The schedules                                                           *)
(***************************************************************************)
Instants == {t \in Nat : DateIn(t) \in Dates}
SlotSchedules == [kind : {"daily"}, hour : Int] \cup [kind : {"monthly"}, day : Int, hour : Int]
Open(s, t) == InCycle(s, t) /\ HourIn(t) >= s.hour

\* The local clock never goes back by more than the hour it repeats: dates follow instants.
LEMMA LocalTime ==
  ASSUME NEW t \in Int
  PROVE  /\ LocalHours(t) \in Int /\ DateIn(t) \in Int /\ HourIn(t) \in 0 .. 23
         /\ LocalHours(t) = 24 * DateIn(t) + HourIn(t)
         /\ t <= LocalHours(t) /\ LocalHours(t) <= t + 1
         /\ \A u \in Int : t <= u => LocalHours(t) <= LocalHours(u) /\ DateIn(t) <= DateIn(u)
<1>1. SummerFrom \in Int /\ SummerTo \in Int
  BY SchedulesAssumption
<1>2. \A u \in Int : LocalHours(u) = u \/ LocalHours(u) = u + 1
  BY DEF LocalHours
<1>3. \A u \in Int : t <= u => LocalHours(t) <= LocalHours(u)
  BY <1>1 DEF LocalHours
<1>4. \A u \in Int : LocalHours(u) \in Int
  BY <1>2
<1>5. \A a \in Int : /\ a \div 24 \in Int /\ a % 24 \in 0 .. 23
                     /\ a = 24 * (a \div 24) + (a % 24)
  OBVIOUS
<1>6. \A a, b \in Int : a <= b => a \div 24 <= b \div 24
  OBVIOUS
<1>7. LocalHours(t) = 24 * DateIn(t) + HourIn(t) /\ DateIn(t) \in Int /\ HourIn(t) \in 0 .. 23
  BY <1>4, <1>5 DEF DateIn, HourIn
<1>8. \A u \in Int : t <= u => DateIn(t) <= DateIn(u)
  BY <1>3, <1>4, <1>6 DEF DateIn
<1> QED BY <1>2, <1>3, <1>4, <1>7, <1>8

LEMMA MonthsFollowDates ==
  ASSUME NEW a \in Dates, NEW b \in Dates, a <= b
  PROVE  /\ MonthOf(a) <= MonthOf(b)
         /\ MonthOf(a) = MonthOf(b) => DayOf(a) <= DayOf(b)
<1>1. PICK m \in Months : m = MonthOf(a) /\ DayOf(a) \in 1 .. MonthLengths[m] /\ a = StartOfMonth[m] + DayOf(a) - 1
  BY MonthOfDate
<1>2. PICK k \in Months : k = MonthOf(b) /\ DayOf(b) \in 1 .. MonthLengths[k] /\ b = StartOfMonth[k] + DayOf(b) - 1
  BY MonthOfDate
<1>3. /\ m \in Int /\ k \in Int /\ StartOfMonth[m] \in Int /\ StartOfMonth[k] \in Int
      /\ MonthLengths[m] \in Int /\ MonthLengths[k] \in Int
  BY MonthFacts, StartsFollow
<1>4. PICK x, y \in Int : /\ x = DayOf(a) /\ 1 <= x /\ x <= MonthLengths[m]
                          /\ y = DayOf(b) /\ 1 <= y /\ y <= MonthLengths[k]
  BY <1>1, <1>2, <1>3
<1>5. a = StartOfMonth[m] + x - 1 /\ b = StartOfMonth[k] + y - 1
  BY <1>1, <1>2, <1>4
<1>6. ~(k < m)
  <2>1. SUFFICES ASSUME k < m PROVE FALSE
    OBVIOUS
  <2>2. StartOfMonth[k] + MonthLengths[k] <= StartOfMonth[m]
    BY <2>1, StartsRise
  <2> QED BY <1>3, <1>4, <1>5, <2>2
<1>7. m = k => x <= y
  BY <1>3, <1>4, <1>5
<1> QED BY <1>1, <1>2, <1>3, <1>4, <1>6, <1>7

\* Slots follow instants, and once a slot's due day has come it has come.
LEMMA SlotsFollow ==
  ASSUME NEW s \in SlotSchedules, NEW x \in Instants, NEW y \in Instants, x <= y
  PROVE  /\ SlotOf(s, x) \in Int /\ SlotOf(s, y) \in Int /\ SlotOf(s, x) <= SlotOf(s, y)
         /\ SlotOf(s, x) = SlotOf(s, y) /\ InCycle(s, x) => InCycle(s, y)
<1>1. x \in Int /\ y \in Int /\ DateIn(x) \in Dates /\ DateIn(y) \in Dates
  BY DEF Instants
<1>2. DateIn(x) \in Int /\ DateIn(y) \in Int /\ DateIn(x) <= DateIn(y)
  BY <1>1, LocalTime
<1>3. /\ MonthOf(DateIn(x)) \in Int /\ MonthOf(DateIn(y)) \in Int
      /\ DayOf(DateIn(x)) \in Int /\ DayOf(DateIn(y)) \in Int
  BY <1>1, MonthOfDate, MonthFacts DEF DayOf
<1>4. /\ MonthOf(DateIn(x)) <= MonthOf(DateIn(y))
      /\ MonthOf(DateIn(x)) = MonthOf(DateIn(y)) => DayOf(DateIn(x)) <= DayOf(DateIn(y))
  BY <1>1, <1>2, MonthsFollowDates
<1>5. CASE s.kind = "daily"
  BY <1>2, <1>5 DEF SlotOf, InCycle
<1>6. CASE s.kind = "monthly"
  <2>1. s.day \in Int
    BY <1>6 DEF SlotSchedules
  <2>2. PICK due \in Int : due = DueDay(s, MonthOf(DateIn(x)))
    <3>1. MonthOf(DateIn(x)) \in Months
      BY <1>1, MonthOfDate
    <3>2. MonthLengths[MonthOf(DateIn(x))] \in Int
      BY <3>1, MonthFacts
    <3> QED BY <2>1, <3>2 DEF DueDay, Least
  <2>3. SlotOf(s, x) = MonthOf(DateIn(x)) /\ SlotOf(s, y) = MonthOf(DateIn(y))
    BY <1>6 DEF SlotOf
  <2>4. InCycle(s, x) <=> DayOf(DateIn(x)) >= due
    BY <1>6, <2>2 DEF InCycle
  <2>5. MonthOf(DateIn(x)) = MonthOf(DateIn(y)) => (InCycle(s, y) <=> DayOf(DateIn(y)) >= due)
    BY <1>6, <2>2 DEF InCycle
  <2> QED BY <1>3, <1>4, <2>3, <2>4, <2>5
<1> QED BY <1>5, <1>6 DEF SlotSchedules

\* A job is due at an open instant of a slot it has not run in since its due day.
LEMMA DueWhenOpen ==
  ASSUME NEW s \in SlotSchedules, NEW x \in Instants, NEW y \in Instants
  PROVE  IsDue(s, y, x) <=> Open(s, y) /\ ~(SlotOf(s, x) = SlotOf(s, y) /\ InCycle(s, x))
<1>1. x # Never
  BY DEF Instants, Never
<1>2. CASE s.kind = "daily"
  BY <1>1, <1>2 DEF IsDue, Open, SlotOf, InCycle
<1>3. CASE s.kind = "monthly"
  BY <1>1, <1>3 DEF IsDue, Open, SlotOf, InCycle, RanThisCycle
<1> QED BY <1>2, <1>3 DEF SlotSchedules

\* The scheduled runs after one at l: the open ticks with nothing before them in their
\* slot that takes it, be it the run at l, the run by hand or an earlier open tick.
Takes(s, x, t) == SlotOf(s, x) = SlotOf(s, t) /\ InCycle(s, x)
RunsAfter(s, ticks, byHand, l) ==
  {t \in ticks :
    /\ t > l /\ Open(s, t)
    /\ ~Takes(s, l, t)
    /\ ~(byHand > l /\ byHand <= t /\ Takes(s, byHand, t))
    /\ \A x \in ticks : l < x /\ x < t /\ Open(s, x) => SlotOf(s, x) # SlotOf(s, t)}

\* What takes a slot before an instant of it also takes it through anything between.
LEMMA TakenThrough ==
  ASSUME NEW s \in SlotSchedules, NEW x \in Instants, NEW y \in Instants, NEW t \in Instants,
         x <= y, y <= t, Takes(s, x, t)
  PROVE  Takes(s, x, y) /\ Takes(s, y, t)
<1>1. /\ SlotOf(s, x) \in Int /\ SlotOf(s, y) \in Int /\ SlotOf(s, t) \in Int
      /\ SlotOf(s, x) <= SlotOf(s, y) /\ SlotOf(s, y) <= SlotOf(s, t)
      /\ SlotOf(s, x) = SlotOf(s, y) /\ InCycle(s, x) => InCycle(s, y)
  BY SlotsFollow
<1>2. SlotOf(s, x) = SlotOf(s, t) /\ InCycle(s, x)
  BY DEF Takes
<1>3. SlotOf(s, x) = SlotOf(s, y) /\ SlotOf(s, y) = SlotOf(s, t)
  BY <1>1, <1>2
<1> QED BY <1>1, <1>2, <1>3 DEF Takes

\* The walk from run to run arrives at just those.
NextRun(s, ticks, byHand, after, l) ==
  LET due == {t \in ticks : t > l /\ IsDue(s, t, l)}
  IN IF byHand > l /\ \A t \in due : byHand <= t THEN after[byHand]
     ELSE IF due = {} THEN {} ELSE {Min(due)} \cup after[Min(due)]
LEMMA RunsFollowRuns ==
  ASSUME NEW s \in SlotSchedules, NEW ticks \in SUBSET Instants, IsFiniteSet(ticks),
         NEW byHand \in Instants, NEW D \in SUBSET Instants, ticks \subseteq D, byHand \in D, NEW l \in D,
         NEW after, \A x \in D : x > l => after[x] = RunsAfter(s, ticks, byHand, x)
  PROVE  NextRun(s, ticks, byHand, after, l) = RunsAfter(s, ticks, byHand, l)
<1> DEFINE due == {t \in ticks : t > l /\ IsDue(s, t, l)}
           A(x) == RunsAfter(s, ticks, byHand, x)
<1>1. \A x \in D : x \in Instants /\ x \in Int
  BY DEF Instants
<1>2. l \in Int /\ byHand \in Int /\ byHand \in D /\ \A t \in ticks : t \in Int /\ t \in D
  BY <1>1
<1>3. \A t \in ticks : t \in due <=> t > l /\ Open(s, t) /\ ~Takes(s, l, t)
  BY <1>1, <1>2, DueWhenOpen DEF Takes
<1>4. due \subseteq ticks
  OBVIOUS
<1>5. A(l) \subseteq due
  BY <1>3 DEF RunsAfter
<1>6. NextRun(s, ticks, byHand, after, l) =
        IF byHand > l /\ \A t \in due : byHand <= t THEN after[byHand]
        ELSE IF due = {} THEN {} ELSE {Min(due)} \cup after[Min(due)]
  BY DEF NextRun
<1> HIDE DEF due
\* A slot that nothing before m takes is not taken by an open tick before m either.
<1>7. ASSUME NEW m \in D, m > l, \A t \in due : m <= t, NEW t \in ticks, t > l, m <= t, Open(s, t), ~Takes(s, m, t)
      PROVE  /\ ~Takes(s, l, t)
             /\ \A x \in ticks : l < x /\ x < m /\ Open(s, x) => SlotOf(s, x) # SlotOf(s, t)
  <2>1. ~Takes(s, l, t)
    BY <1>1, <1>2, <1>7, TakenThrough
  <2>2. ASSUME NEW x \in ticks, l < x, x < m, Open(s, x), SlotOf(s, x) = SlotOf(s, t) PROVE FALSE
    <3>1. x \notin due
      BY <1>1, <1>2, <1>7, <2>2
    <3>2. Takes(s, l, x)
      BY <1>3, <2>2, <3>1
    <3>3. Takes(s, l, t)
      BY <2>2, <3>2 DEF Takes
    <3> QED BY <2>1, <3>3
  <2> QED BY <2>1, <2>2
<1>8. CASE byHand > l /\ \A t \in due : byHand <= t
  <2>1. after[byHand] = A(byHand)
    BY <1>2, <1>8
  <2>2. ASSUME NEW t \in A(l) PROVE t \in A(byHand)
    <3>1. t \in due /\ t \in ticks /\ Open(s, t) /\ byHand <= t /\ ~Takes(s, byHand, t)
      BY <1>5, <1>8 DEF RunsAfter
    <3>2. byHand # t
      BY <3>1 DEF Takes, Open
    <3>3. t > byHand /\ t \in Int
      BY <1>2, <3>1, <3>2
    <3>4. \A x \in ticks : byHand < x /\ x < t /\ Open(s, x) => SlotOf(s, x) # SlotOf(s, t)
      BY <1>2, <1>8 DEF RunsAfter
    <3> QED BY <1>2, <3>1, <3>3, <3>4 DEF RunsAfter
  <2>3. ASSUME NEW t \in A(byHand) PROVE t \in A(l)
    <3>1. /\ t \in ticks /\ t > byHand /\ Open(s, t) /\ ~Takes(s, byHand, t)
          /\ \A x \in ticks : byHand < x /\ x < t /\ Open(s, x) => SlotOf(s, x) # SlotOf(s, t)
      BY DEF RunsAfter
    <3>2. t > l /\ t \in Int /\ byHand <= t
      BY <1>2, <1>8, <3>1
    <3>3. /\ ~Takes(s, l, t)
          /\ \A x \in ticks : l < x /\ x < byHand /\ Open(s, x) => SlotOf(s, x) # SlotOf(s, t)
      BY <1>2, <1>7, <1>8, <3>1, <3>2
    <3>4. ASSUME NEW x \in ticks, l < x, x < t, Open(s, x) PROVE SlotOf(s, x) # SlotOf(s, t)
      <4>1. x < byHand \/ x = byHand \/ byHand < x
        BY <1>2
      <4>2. CASE x = byHand
        BY <3>1, <3>4, <4>2 DEF Takes, Open
      <4> QED BY <3>1, <3>3, <3>4, <4>1, <4>2
    <3> QED BY <3>1, <3>2, <3>3, <3>4 DEF RunsAfter
  <2> QED BY <1>6, <1>8, <2>1, <2>2, <2>3
<1>9. CASE ~(byHand > l /\ \A t \in due : byHand <= t) /\ due = {}
  BY <1>5, <1>6, <1>9
<1>10. CASE ~(byHand > l /\ \A t \in due : byHand <= t) /\ due # {}
  <2>1. PICK u \in due : u = Min(due) /\ \A t \in due : u <= t
    <3>1. due \in SUBSET Int /\ IsFiniteSet(due)
      BY <1>2, <1>4, FS_Subset
    <3> QED BY <1>10, <3>1, EndsOfNumbers
  <2>2. u \in ticks /\ u > l /\ Open(s, u) /\ ~Takes(s, l, u) /\ u \in Int /\ u \in D
    BY <1>2, <1>3, <1>4, <2>1
  <2>3. after[u] = A(u)
    BY <2>2
  <2>4. ~(byHand > l /\ byHand <= u)
    <3>1. \A t \in due : t \in Int
      BY <1>2, <1>4
    <3> QED BY <1>2, <1>10, <2>1, <2>2, <3>1
  <2>5. u \in A(l)
    <3>1. ASSUME NEW x \in ticks, l < x, x < u, Open(s, x), SlotOf(s, x) = SlotOf(s, u) PROVE FALSE
      <4>1. x \notin due
        BY <1>2, <2>1, <2>2, <3>1
      <4>2. Takes(s, l, x)
        BY <1>3, <3>1, <4>1
      <4> QED BY <2>2, <3>1, <4>2 DEF Takes
    <3> QED BY <2>2, <2>4, <3>1 DEF RunsAfter
  <2>6. ASSUME NEW t \in A(l), t # u PROVE t \in A(u)
    <3>1. /\ t \in ticks /\ t \in due /\ t > l /\ Open(s, t) /\ t \in Int
          /\ ~(byHand > l /\ byHand <= t /\ Takes(s, byHand, t))
          /\ \A x \in ticks : l < x /\ x < t /\ Open(s, x) => SlotOf(s, x) # SlotOf(s, t)
      BY <1>2, <1>5 DEF RunsAfter
    <3>2. t > u
      BY <2>1, <2>2, <2>6, <3>1
    <3>3. ~Takes(s, u, t)
      BY <2>2, <3>1, <3>2 DEF Takes
    <3>4. ~(byHand > u /\ byHand <= t /\ Takes(s, byHand, t))
      BY <1>2, <2>2, <3>1
    <3>5. \A x \in ticks : u < x /\ x < t /\ Open(s, x) => SlotOf(s, x) # SlotOf(s, t)
      BY <1>2, <2>2, <3>1
    <3> QED BY <3>1, <3>2, <3>3, <3>4, <3>5 DEF RunsAfter
  <2>7. ASSUME NEW t \in A(u) PROVE t \in A(l)
    <3>1. /\ t \in ticks /\ t > u /\ Open(s, t) /\ ~Takes(s, u, t) /\ t \in Int
          /\ ~(byHand > u /\ byHand <= t /\ Takes(s, byHand, t))
          /\ \A x \in ticks : u < x /\ x < t /\ Open(s, x) => SlotOf(s, x) # SlotOf(s, t)
      BY <1>2 DEF RunsAfter
    <3>2. t > l /\ u <= t
      BY <1>2, <2>2, <3>1
    <3>3. /\ ~Takes(s, l, t)
          /\ \A x \in ticks : l < x /\ x < u /\ Open(s, x) => SlotOf(s, x) # SlotOf(s, t)
      BY <1>7, <2>1, <2>2, <3>1, <3>2
    <3>4. ~(byHand > l /\ byHand <= t /\ Takes(s, byHand, t))
      BY <1>2, <2>2, <2>4, <3>1
    <3>5. ASSUME NEW x \in ticks, l < x, x < t, Open(s, x) PROVE SlotOf(s, x) # SlotOf(s, t)
      <4>1. x < u \/ x = u \/ u < x
        <5>1. x \in Int /\ u \in Int
          BY <1>2, <2>2
        <5> QED BY <5>1
      <4>2. CASE x = u
        BY <3>1, <3>5, <4>2 DEF Takes, Open
      <4> QED BY <3>1, <3>3, <3>5, <4>1, <4>2
    <3> QED BY <3>1, <3>2, <3>3, <3>4, <3>5 DEF RunsAfter
  <2>8. A(l) = {u} \cup A(u)
    BY <2>5, <2>6, <2>7
  <2> QED BY <1>6, <1>10, <2>1, <2>3, <2>8
<1> QED BY <1>8, <1>9, <1>10

LEMMA RunsAreTheFree ==
  ASSUME NEW s \in SlotSchedules, NEW ticks \in SUBSET Instants, IsFiniteSet(ticks),
         NEW byHand \in Instants, NEW last \in Instants
  PROVE  Runs(s, ticks, byHand, last) = RunsAfter(s, ticks, byHand, last)
<1> DEFINE D == ticks \cup {byHand, last}
           A(l) == RunsAfter(s, ticks, byHand, l)
           Iter(f) == f = [l \in D |-> NextRun(s, ticks, byHand, f, l)]
           h == [l \in D |-> A(l)]
<1>1. /\ D \in SUBSET Instants /\ ticks \subseteq D /\ byHand \in D /\ last \in D
      /\ \A x \in D : x \in Int
  BY DEF Instants
<1>2. IsFiniteSet(D)
  <2>1. D = (ticks \cup {byHand}) \cup {last}
    OBVIOUS
  <2> HIDE DEF D
  <2> QED BY <2>1, FS_AddElement
<1>3. \A x \in D : h[x] = A(x)
  OBVIOUS
<1>4. h = [l \in D |-> h[l]]
  OBVIOUS
<1> HIDE DEF D, h, A
<1>5. ASSUME NEW g, NEW l \in D, \A x \in D : x > l => g[x] = A(x)
      PROVE  NextRun(s, ticks, byHand, g, l) = A(l)
  BY <1>1, <1>5, RunsFollowRuns DEF A
<1>6. Iter(h)
  BY <1>3, <1>4, <1>5
<1>7. Runs(s, ticks, byHand, last) = (CHOOSE f : Iter(f))[last]
  BY Zenon DEF Runs, NextRun, D
<1>8. PICK g : g = CHOOSE f : Iter(f)
  OBVIOUS
<1>9. Iter(g)
  <2> HIDE DEF Iter
  <2>1. Iter(CHOOSE f : Iter(f))
    BY <1>6, Zenon
  <2> QED BY <1>8, <2>1
<1>10. \A l \in D : g[l] = NextRun(s, ticks, byHand, g, l)
  BY <1>9
<1> HIDE DEF Iter
<1> DEFINE Upper(T) == \A x \in T, y \in D : x < y => y \in T
           F == {T \in SUBSET D : Upper(T) => \A l \in T : g[l] = A(l)}
<1>11. ASSUME NEW T \in SUBSET D, \A x \in T : T \ {x} \in F, Upper(T), NEW l \in T PROVE g[l] = A(l)
  <2>1. T \in SUBSET Int /\ IsFiniteSet(T) /\ T # {}
    BY <1>1, <1>2, FS_Subset
  <2>2. PICK m \in T : \A k \in T : m <= k
    BY <2>1, EndsOfNumbers
  <2>3. \A x \in T : x \in Int
    BY <2>1
  <2>4. Upper(T \ {m})
    <3>1. ASSUME NEW x \in T \ {m}, NEW y \in D, x < y PROVE y \in T \ {m}
      <4>1. y \in T /\ y \in Int /\ m <= x /\ x \in Int /\ m \in Int
        BY <1>1, <1>11, <2>2, <2>3, <3>1
      <4> QED BY <3>1, <4>1
    <3> QED BY <3>1
  <2>5. \A x \in T \ {m} : g[x] = A(x)
    BY <1>11, <2>4
  <2>6. \A x \in D : x > m => x \in T \ {m}
    BY <1>1, <1>11, <2>3
  <2>7. g[m] = A(m)
    BY <1>5, <1>10, <2>5, <2>6
  <2> QED BY <2>5, <2>7
<1>12. \A T \in SUBSET D : T \in F
  <2>1. \A T \in SUBSET D : (\A x \in T : T \ {x} \in F) => T \in F
    BY <1>11
  <2> HIDE DEF F
  <2> QED BY <1>2, <2>1, FiniteInduction
<1>13. \A l \in D : g[l] = A(l)
  <2>1. D \in F
    BY <1>12
  <2> QED BY <2>1
<1> QED BY <1>1, <1>7, <1>8, <1>13 DEF A

\* Every local day or month in which the ticker is up at the due hour or after it has one
\* scheduled run, unless a run by hand took it: for every finite set of ticks after the
\* last run, on days of 23 and 25 hours and in months without the due day.
THEOREM SlotsAreKept ==
  ASSUME NEW s \in SlotSchedules, NEW ticks \in SUBSET Instants, IsFiniteSet(ticks),
         NEW byHand \in Instants, NEW last \in Instants, \A t \in ticks : t > last
  PROVE  KeepsSlots(s, ticks, byHand, last)
<1> DEFINE slots == {SlotOf(s, t) : t \in ticks} \ {SlotOf(s, last)}
           open(slot) == {t \in ticks : SlotOf(s, t) = slot /\ InCycle(s, t) /\ HourIn(t) >= s.hour}
           runs == RunsAfter(s, ticks, byHand, last)
<1>1. Runs(s, ticks, byHand, last) = runs
  BY RunsAreTheFree
<1>2. \A t \in ticks : t \in Int /\ t \in Instants
  BY DEF Instants
<1>3. last \in Int /\ byHand \in Int
  BY DEF Instants
<1>4. ASSUME NEW slot \in slots, NEW t \in ticks, SlotOf(s, t) = slot
      PROVE  t \in runs <=> t \in SlotRuns(s, ticks, byHand, slot)
  <2>1. ~Takes(s, last, t) /\ slot # SlotOf(s, last)
    BY <1>4 DEF Takes
  <2>2. open(slot) \in SUBSET Int /\ IsFiniteSet(open(slot))
    <3>1. open(slot) \subseteq ticks
      OBVIOUS
    <3> QED BY <1>2, <3>1, FS_Subset
  <2>3. SlotRuns(s, ticks, byHand, slot) =
          IF open(slot) = {} \/ (SlotOf(s, byHand) = slot /\ InCycle(s, byHand) /\ byHand <= Min(open(slot)))
          THEN {} ELSE {Min(open(slot))}
    BY DEF SlotRuns
  <2>4. \A x \in ticks : x \in open(slot) <=> SlotOf(s, x) = slot /\ Open(s, x)
    BY DEF Open
  <2>5. \A x \in open(slot) : x \in ticks
    OBVIOUS
  <2> HIDE DEF open, slots
  <2>6. ASSUME t \in runs PROVE t \in SlotRuns(s, ticks, byHand, slot)
    <3>1. /\ Open(s, t) /\ ~(byHand > last /\ byHand <= t /\ Takes(s, byHand, t))
          /\ \A x \in ticks : last < x /\ x < t /\ Open(s, x) => SlotOf(s, x) # SlotOf(s, t)
      BY <2>6 DEF RunsAfter
    <3>2. t \in open(slot)
      BY <1>4, <2>4, <3>1
    <3>3. Min(open(slot)) \in open(slot) /\ Min(open(slot)) <= t
      BY <2>2, <3>2, EndsOfNumbers
    <3>4. Min(open(slot)) = t
      <4>1. PICK m \in ticks : m = Min(open(slot)) /\ SlotOf(s, m) = slot /\ Open(s, m) /\ m <= t
        BY <2>4, <2>5, <3>3
      <4>2. ~(m < t)
        BY <1>4, <3>1, <4>1
      <4> QED BY <1>2, <4>1, <4>2
    <3>5. ~(SlotOf(s, byHand) = slot /\ InCycle(s, byHand) /\ byHand <= t)
      <4>1. SUFFICES ASSUME SlotOf(s, byHand) = slot, InCycle(s, byHand), byHand <= t PROVE FALSE
        OBVIOUS
      <4>2. Takes(s, byHand, t)
        BY <1>4, <4>1 DEF Takes
      <4>3. byHand <= last /\ last <= t
        BY <1>2, <1>3, <3>1, <4>1, <4>2
      <4>4. Takes(s, last, t)
        BY <1>2, <4>2, <4>3, TakenThrough
      <4> QED BY <2>1, <4>4
    <3> QED BY <2>3, <3>2, <3>4, <3>5
  <2>7. ASSUME t \in SlotRuns(s, ticks, byHand, slot) PROVE t \in runs
    <3>1. /\ open(slot) # {} /\ t = Min(open(slot))
          /\ ~(SlotOf(s, byHand) = slot /\ InCycle(s, byHand) /\ byHand <= t)
      BY <2>3, <2>7
    <3>2. t \in open(slot) /\ \A x \in open(slot) : t <= x
      BY <2>2, <3>1, EndsOfNumbers
    <3>3. Open(s, t) /\ t > last
      BY <2>4, <3>2
    <3>4. ~Takes(s, byHand, t) \/ ~(byHand <= t)
      BY <1>4, <3>1 DEF Takes
    <3>5. ASSUME NEW x \in ticks, last < x, x < t, Open(s, x), SlotOf(s, x) = SlotOf(s, t) PROVE FALSE
      <4>1. x \in open(slot)
        BY <1>4, <2>4, <3>5
      <4> QED BY <1>2, <3>2, <3>5, <4>1
    <3> QED BY <2>1, <3>3, <3>4, <3>5 DEF RunsAfter
  <2> QED BY <2>6, <2>7
<1>5. \A slot \in slots : \A t \in SlotRuns(s, ticks, byHand, slot) : t \in ticks /\ SlotOf(s, t) = slot
  <2>1. ASSUME NEW slot \in slots, NEW t \in SlotRuns(s, ticks, byHand, slot) PROVE t \in open(slot)
    <3>1. open(slot) # {} /\ t = Min(open(slot))
      BY <2>1 DEF SlotRuns
    <3>2. open(slot) \in SUBSET Int /\ IsFiniteSet(open(slot))
      <4>1. open(slot) \subseteq ticks
        OBVIOUS
      <4> QED BY <1>2, <4>1, FS_Subset
    <3> HIDE DEF open
    <3> QED BY <3>1, <3>2, EndsOfNumbers
  <2> QED BY <2>1
<1>6. runs \subseteq ticks
  BY DEF RunsAfter
<1> HIDE DEF runs
<1>7. {t \in runs : SlotOf(s, t) \in slots} = UNION {SlotRuns(s, ticks, byHand, slot) : slot \in slots}
  <2> HIDE DEF slots
  <2>1. ASSUME NEW t \in runs, SlotOf(s, t) \in slots
        PROVE  t \in UNION {SlotRuns(s, ticks, byHand, slot) : slot \in slots}
    BY <1>4, <1>6, <2>1
  <2>2. ASSUME NEW slot \in slots, NEW t \in SlotRuns(s, ticks, byHand, slot)
        PROVE  t \in runs /\ SlotOf(s, t) \in slots
    BY <1>4, <1>5, <2>2
  <2> QED BY <2>1, <2>2
<1> QED BY <1>1, <1>7 DEF KeepsSlots

\* A daily job has a next run within the horizon, on the next local day, also when that
\* day has 23 or 25 hours; but for the hour that is skipped, if that is the last of a day.
THEOREM NextRunsAreFound ==
  ASSUME NEW s \in SlotSchedules, s.kind = "daily", s.hour \in 0 .. 23, s.hour < 23 \/ SummerFrom % 24 # 23,
         NEW last \in Nat, ProbeHorizon >= 48
  PROVE  NextIsFound(s, last)
<1> DEFINE due == {t \in last .. last + ProbeHorizon : IsDue(s, t, last)}
           target == 24 * (DateIn(last) + 1) + s.hour
<1>1. SummerFrom \in Int /\ SummerTo \in Int /\ ProbeHorizon \in Nat
  BY SchedulesAssumption
<1>2. PICK day, hour \in Int : /\ day = DateIn(last) /\ hour = HourIn(last) /\ 0 <= hour /\ hour <= 23
                                /\ LocalHours(last) = 24 * day + hour
                                /\ last <= LocalHours(last) /\ LocalHours(last) <= last + 1
  <2>1. /\ DateIn(last) \in Int /\ HourIn(last) \in 0 .. 23
        /\ LocalHours(last) = 24 * DateIn(last) + HourIn(last)
        /\ last <= LocalHours(last) /\ LocalHours(last) <= last + 1
    <3>1. last \in Int
      OBVIOUS
    <3> QED BY <3>1, LocalTime, Zenon
  <2>2. HourIn(last) \in Int /\ 0 <= HourIn(last) /\ HourIn(last) <= 23
    BY <2>1
  <2> QED BY <2>1, <2>2
<1>3. PICK t \in Int : DateIn(t) = day + 1 /\ HourIn(t) >= s.hour /\ t <= target /\ t > last
  <2>1. PICK g \in Int : g = target /\ g = 24 * (day + 1) + s.hour
    BY <1>2
  <2>2. ASSUME NEW u \in Int, NEW k \in {0, 1}, LocalHours(u) = g + k, s.hour + k <= 23
        PROVE  DateIn(u) = day + 1 /\ HourIn(u) >= s.hour
    <3>1. PICK h \in Int : h = s.hour /\ 0 <= h /\ h + k <= 23 /\ k \in Int /\ 0 <= k
      BY <2>2
    <3>2. PICK e, f \in Int : e = day + 1 /\ f = h + k /\ 0 <= f /\ f <= 23 /\ h <= f
      BY <3>1
    <3>3. LocalHours(u) = 24 * e + f
      BY <2>1, <2>2, <3>1, <3>2
    <3>4. \A a, b \in Int : 0 <= b /\ b <= 23 => (24 * a + b) \div 24 = a /\ (24 * a + b) % 24 = b
      OBVIOUS
    <3>5. (24 * e + f) \div 24 = e /\ (24 * e + f) % 24 = f
      BY <3>2, <3>4
    <3> QED BY <3>1, <3>2, <3>3, <3>5 DEF DateIn, HourIn
  <2>3. \E u \in Int : u <= g /\ (LocalHours(u) = g \/ (s.hour + 1 <= 23 /\ LocalHours(u) = g + 1))
    <3>1. CASE ~(SummerFrom < SummerTo) \/ g < SummerFrom
      <4>1. LocalHours(g) = g
        BY <1>1, <3>1 DEF LocalHours
      <4> QED BY <4>1
    <3>2. CASE SummerFrom < SummerTo /\ g = SummerFrom
      <4>1. LocalHours(g) = g + 1
        BY <1>1, <3>2 DEF LocalHours
      <4>2. g % 24 = s.hour
        BY <2>1
      <4>3. s.hour + 1 <= 23
        BY <3>2, <4>2
      <4> QED BY <4>1, <4>3
    <3>3. CASE SummerFrom < SummerTo /\ g > SummerFrom
      <4>1. CASE g - 1 < SummerTo
        <5>1. LocalHours(g - 1) = g
          BY <1>1, <3>3, <4>1 DEF LocalHours
        <5> QED BY <5>1
      <4>2. CASE ~(g - 1 < SummerTo)
        <5>1. LocalHours(g) = g
          BY <1>1, <3>3, <4>2 DEF LocalHours
        <5> QED BY <5>1
      <4> QED BY <4>1, <4>2
    <3> QED BY <1>1, <3>1, <3>2, <3>3
  <2>4. PICK u \in Int : u <= g /\ (LocalHours(u) = g \/ (s.hour + 1 <= 23 /\ LocalHours(u) = g + 1))
    BY <2>3
  <2>5. DateIn(u) = day + 1 /\ HourIn(u) >= s.hour
    <3>1. CASE LocalHours(u) = g
      <4>1. PICK k \in {0, 1} : k = 0 /\ LocalHours(u) = g + k /\ s.hour + k <= 23
        BY <3>1
      <4> QED BY <2>2, <4>1
    <3>2. CASE s.hour + 1 <= 23 /\ LocalHours(u) = g + 1
      BY <2>2, <3>2
    <3> QED BY <2>4, <3>1, <3>2
  <2>6. ~(u <= last)
    <3>1. u <= last => DateIn(u) <= DateIn(last)
      BY LocalTime
    <3> QED BY <1>2, <2>5, <3>1
  <2> QED BY <2>1, <2>4, <2>5, <2>6
<1>4. \A u \in Int : IsDue(s, u, last) <=> DateIn(u) # day /\ HourIn(u) >= s.hour
  <2>1. last # Never
    BY DEF Never
  <2> QED BY <1>2, <2>1 DEF IsDue
<1>5. t \in due
  <2>1. target <= last + 48
    BY <1>2
  <2>2. t \in last .. last + ProbeHorizon
    <3>1. target \in Int
      BY <1>2
    <3>2. t <= last + 48
      BY <1>3, <2>1, <3>1
    <3> QED BY <1>1, <1>3, <3>2
  <2> QED BY <1>2, <1>3, <1>4, <2>2
<1>6. due \in SUBSET Int /\ IsFiniteSet(due) /\ due # {}
  <2>1. last \in Int /\ last + ProbeHorizon \in Int
    BY <1>1
  <2>2. IsFiniteSet(last .. last + ProbeHorizon)
    BY <2>1, FS_Interval
  <2>3. due \subseteq last .. last + ProbeHorizon
    OBVIOUS
  <2>4. IsFiniteSet(due)
    BY <2>2, <2>3, FS_Subset
  <2> QED BY <1>5, <2>1, <2>4
<1>7. PICK at \in due : at = Min(due) /\ \A k \in due : at <= k
  <2> HIDE DEF due
  <2> QED BY <1>6, EndsOfNumbers
<1>8. NextRunAt(s, last, last) = at
  BY <1>6, <1>7 DEF NextRunAt
<1>9. at \in Int /\ last <= at /\ at <= last + ProbeHorizon /\ IsDue(s, at, last)
  BY <1>1, <1>7
<1>10. at # Never
  BY <1>9 DEF Never
<1>11. HourIn(at) >= s.hour /\ DateIn(at) # day
  BY <1>4, <1>9
<1>12. DateIn(at) = day + 1
  <2>1. at <= t
    BY <1>5, <1>7
  <2>2. DateIn(last) <= DateIn(at)
    BY <1>9, LocalTime
  <2>3. DateIn(at) <= DateIn(t) /\ DateIn(at) \in Int
    BY <1>9, <2>1, LocalTime
  <2>4. DateIn(at) \in Int /\ day <= DateIn(at) /\ DateIn(at) <= day + 1 /\ DateIn(at) # day
    BY <1>2, <1>3, <1>11, <2>2, <2>3
  <2> QED BY <2>4
<1>13. \A u \in last .. at - 1 : ~IsDue(s, u, last)
  <2>1. ASSUME NEW u \in last .. at - 1, IsDue(s, u, last) PROVE FALSE
    <3>1. u \in last .. last + ProbeHorizon /\ u < at
      BY <1>1, <1>9
    <3>2. u \in due
      BY <2>1, <3>1
    <3> QED BY <1>7, <1>9, <3>1, <3>2
  <2> QED BY <2>1
<1> QED BY <1>2, <1>8, <1>10, <1>11, <1>12, <1>13 DEF NextIsFound

(***************************************************************************)
(* The committed payments                                                  *)
(***************************************************************************)
\* A quotient and a remainder below the divisor are the quotient and the remainder.
LEMMA DividesOnce ==
  ASSUME NEW n \in Nat \ {0}, NEW q \in Int, NEW r \in Int, 0 <= r, r < n
  PROVE  (n * q + r) \div n = q /\ (n * q + r) % n = r
  OBVIOUS

LEMMA ProductsKeepOrder ==
  ASSUME NEW n \in Nat \ {0}, NEW x \in Int, NEW y \in Int
  PROVE  /\ n * x \in Int /\ n * y \in Int
         /\ x < y <=> n * x < n * y
         /\ x + 1 <= y => n * x + n <= n * y
         /\ x = y <=> n * x = n * y
  OBVIOUS

\* k steps of n from a reach k places.
LEMMA StepsAreCounted ==
  ASSUME NEW n \in Nat \ {0}, NEW a \in Int, NEW k \in Nat
  PROVE  LET reached == {a + n * i : i \in 0 .. k - 1}
         IN IsFiniteSet(reached) /\ Cardinality(reached) = k
<1> DEFINE reached == {a + n * i : i \in 0 .. k - 1}
           f == [i \in 1 .. k |-> a + n * (i - 1)]
<1>1. \A i, j \in Int : n * i \in Int /\ (n * i = n * j => i = j)
  BY ProductsKeepOrder
<1>2. f \in [1 .. k -> reached]
  <2>1. \A i \in 1 .. k : i - 1 \in 0 .. k - 1
    OBVIOUS
  <2> QED BY <2>1
<1>3. \A i, j \in 1 .. k : f[i] = f[j] => i = j
  <2>1. SUFFICES ASSUME NEW i \in 1 .. k, NEW j \in 1 .. k, a + n * (i - 1) = a + n * (j - 1) PROVE i = j
    OBVIOUS
  <2>2. PICK x \in Int, y \in Int : x = i - 1 /\ y = j - 1
    OBVIOUS
  <2>3. PICK u \in Int, v \in Int : u = n * x /\ v = n * y
    BY <1>1
  <2>4. u = v
    <3>1. a + u = a + v
      BY <2>1, <2>2, <2>3
    <3> QED BY <3>1
  <2>5. x = y
    BY <1>1, <2>3, <2>4
  <2> QED BY <2>2, <2>5
<1>4. \A e \in reached : \E i \in 1 .. k : f[i] = e
  <2>1. SUFFICES ASSUME NEW i \in 0 .. k - 1 PROVE \E j \in 1 .. k : f[j] = a + n * i
    BY ZenonT(40)
  <2>2. i + 1 \in 1 .. k /\ (i + 1) - 1 = i
    OBVIOUS
  <2>3. f[i + 1] = a + n * i
    BY <2>2
  <2> QED BY <2>2, <2>3
<1> HIDE DEF f, reached
<1>5. f \in Bijection(1 .. k, reached)
  BY <1>2, <1>3, <1>4 DEF Bijection, Injection, Surjection, IsInjective
<1>6. ExistsBijection(1 .. k, reached)
  BY <1>5 DEF ExistsBijection
<1>7. IsFiniteSet(reached) /\ Cardinality(reached) = k
  BY <1>6, FS_NatBijection, FS_CountingElements
<1> QED BY <1>7 DEF reached

\* The multiples of n from a to b.
LEMMA MultiplesAreCounted ==
  ASSUME NEW n \in Nat \ {0}, NEW a \in Int, NEW b \in Int, a - 1 <= b
  PROVE  /\ Cardinality({e \in a .. b : (e - a) % n = 0}) = ((b - a) \div n) + 1
         /\ ((b - a) \div n) + 1 \in Nat
<1>1. PICK q \in Int, r \in Int : q = (b - a) \div n /\ b - a = n * q + r /\ 0 <= r /\ r < n
  BY Divides
<1>2. \A i, j \in Int : /\ n * i \in Int
                        /\ i < j <=> n * i < n * j
                        /\ i + 1 <= j => n * i + n <= n * j
  BY ProductsKeepOrder
<1>3. q + 1 \in Nat
  <2>1. SUFFICES ASSUME q + 1 <= -1 PROVE FALSE
    BY <1>1
  <2>2. PICK u \in Int, v \in Int, w \in Int : u = n * q /\ v = n * (q + 1) /\ w = n * (-1)
    BY <1>1, <1>2
  <2>3. u + n <= v /\ v <= w /\ w = 0 - n
    <3>1. q + 1 = -1 \/ q + 1 < -1
      BY <1>1, <2>1
    <3>2. q + 1 \in Int /\ -1 \in Int
      BY <1>1
    <3>3. v <= w
      BY <1>2, <2>2, <3>1, <3>2
    <3>4. u + n <= v
      BY <1>1, <1>2, <2>2, <3>2
    <3> QED BY <2>2, <3>3, <3>4
  <2> QED BY <1>1, <2>2, <2>3
<1>6. PICK k \in Nat : k = q + 1
  BY <1>3
<1> DEFINE reached == {a + n * i : i \in 0 .. k - 1}
<1>4. {e \in a .. b : (e - a) % n = 0} = reached
  <2>1. ASSUME NEW e \in a .. b, (e - a) % n = 0 PROVE e \in reached
    <3>1. PICK i \in Int : i = (e - a) \div n /\ e - a = n * i
      <4>1. PICK c \in Int : c = e - a
        OBVIOUS
      <4>2. /\ c \div n \in Int /\ c = n * (c \div n) + (c % n)
        BY <4>1, Divides
      <4>3. PICK i \in Int : i = c \div n
        BY <4>2
      <4>4. c % n = 0
        BY <2>1, <4>1
      <4>5. n * i \in Int
        BY <1>2, <4>3
      <4>6. c = n * i + 0
        BY <4>2, <4>3, <4>4, Zenon
      <4>7. c = n * i
        BY <4>5, <4>6
      <4> QED BY <4>1, <4>3, <4>7
    <3>2. 0 <= i
      <4>1. SUFFICES ASSUME i < 0 PROVE FALSE
        BY <3>1
      <4>2. n * i < n * 0 /\ n * 0 = 0 /\ n * i \in Int
        BY <1>2, <3>1, <4>1
      <4> QED BY <3>1, <4>2
    <3>3. i <= q
      <4>1. SUFFICES ASSUME q + 1 <= i PROVE FALSE
        BY <1>1, <3>1
      <4>2. n * q + n <= n * i /\ n * q \in Int /\ n * i \in Int
        BY <1>1, <1>2, <3>1, <4>1
      <4> QED BY <1>1, <3>1, <4>2
    <3>4. i \in 0 .. k - 1
      BY <1>1, <1>6, <3>1, <3>2, <3>3
    <3>5. e = a + n * i
      <4>1. n * i \in Int
        BY <1>2, <3>1
      <4> QED BY <3>1, <4>1
    <3> QED BY <3>4, <3>5
  <2>2. ASSUME NEW i \in 0 .. k - 1 PROVE a + n * i \in a .. b /\ ((a + n * i) - a) % n = 0
    <3>1. PICK u \in Int : u = n * i
      BY <1>1, <1>2
    <3>2. 0 <= u
      <4>1. i = 0 \/ 0 < i
        BY <1>1, <1>6
      <4>2. n * 0 = 0
        OBVIOUS
      <4>3. i \in Int /\ 0 \in Int
        BY <1>1
      <4>4. 0 < i => n * 0 < n * i
        BY <1>2, <4>3
      <4> QED BY <3>1, <4>1, <4>2, <4>4
    <3>3. u <= n * q /\ n * q \in Int
      <4>1. i \in Int /\ (i = q \/ i < q)
        BY <1>1, <1>6
      <4> QED BY <1>1, <1>2, <3>1, <4>1
    <3>4. u % n = 0
      <4>1. i \in Int
        BY <1>1
      <4>2. (n * i + 0) % n = 0
        BY <4>1, DividesOnce
      <4>3. n * i + 0 = u
        BY <3>1
      <4> QED BY <4>2, <4>3
    <3>5. (a + u) - a = u /\ a + u \in a .. b
      BY <1>1, <3>2, <3>3
    <3> QED BY <3>1, <3>4, <3>5
  <2> QED BY <2>1, <2>2
<1>5. Cardinality(reached) = k
  BY StepsAreCounted
<1> QED BY <1>1, <1>3, <1>4, <1>5, <1>6

(***************************************************************************)
(* The days of a month                                                     *)
(***************************************************************************)
PatternRows == [value : Int, type : 0 .. 7]
RecurrenceRows ==
  [frequency : Frequencies, interval : Nat \ {0}, patterns : SUBSET PatternRows,
   weekend : {"kept", "before", "after"}, start : Dates, limit : Nat \cup {Endless}, until : Int]

\* A month's days of one weekday are seven apart, the first of them in its first week.
LEMMA WeekdaysAreSevenApart ==
  ASSUME NEW m \in Months, NEW weekday \in 0 .. 6
  PROVE  \E f \in 1 .. 7 : \A to \in Int : to <= MonthLengths[m] =>
           {day \in MatchingDays(m, weekday) : day <= to} = {e \in f .. to : (e - f) % 7 = 0}
<1>1. PICK s \in Int : s = StartOfMonth[m]
  BY StartsFollow
<1>2. PICK w \in Int : w = FirstWeekday
  BY CalendarAssumption
<1>3. PICK L \in Int : L = MonthLengths[m]
  BY MonthFacts
<1>4. \A day \in Int : DayOfWeek(DateOf(m, day)) = (w + (s + day - 1)) % 7
  BY <1>1, <1>2 DEF DayOfWeek, DateOf
<1>5. PICK f \in 1 .. 7 : (w + (s + f - 1)) % 7 = weekday
  <2>1. PICK k \in Int : k = w + s - 1
    BY <1>1, <1>2
  <2>2. (k + (1 + ((weekday - k - 1) % 7))) % 7 = weekday
    BY <2>1
  <2>3. 1 + ((weekday - k - 1) % 7) \in 1 .. 7
    BY <2>1
  <2>4. PICK f \in 1 .. 7 : (k + f) % 7 = weekday
    BY <2>2, <2>3
  <2>5. w + (s + f - 1) = k + f
    BY <1>1, <1>2, <2>1
  <2> QED BY <2>4, <2>5
<1>6. ASSUME NEW to \in Int, to <= L
      PROVE  {day \in MatchingDays(m, weekday) : day <= to} = {e \in f .. to : (e - f) % 7 = 0}
  <2>1. ASSUME NEW e \in Int PROVE (w + (s + e - 1)) % 7 = weekday <=> (e - f) % 7 = 0
    <3>1. \A a, x \in Int : a % 7 = weekday => ((a + x) % 7 = weekday <=> x % 7 = 0)
      OBVIOUS
    <3>2. PICK a \in Int, x \in Int : a = w + (s + f - 1) /\ x = e - f
      BY <1>1, <1>2
    <3>3. (a + x) % 7 = weekday <=> x % 7 = 0
      BY <1>5, <3>1, <3>2
    <3>4. a + x = w + (s + e - 1)
      BY <1>1, <1>2, <3>2
    <3> QED BY <3>2, <3>3, <3>4
  <2>2. \A e \in Int : 1 <= e /\ (e - f) % 7 = 0 => f <= e
    BY <1>5
  <2>3. \A e \in Int : e \in MatchingDays(m, weekday) <=> 1 <= e /\ e <= L /\ (e - f) % 7 = 0
    BY <1>3, <1>4, <2>1 DEF MatchingDays
  <2>4. MatchingDays(m, weekday) \subseteq Int
    BY <1>3 DEF MatchingDays
  <2> QED BY <1>5, <1>6, <2>2, <2>3, <2>4
<1> QED BY <1>3, <1>6

\* A pattern names the days that it matches.
LEMMA PatternDaysMatch ==
  ASSUME NEW m \in Months, NEW p \in PatternRows, NEW day \in 1 .. MonthLengths[m]
  PROVE  day \in PatternDay(m, p) <=> MatchesPattern(DateOf(m, day), p)
<1>1. PICK L \in Int : L = MonthLengths[m] /\ 28 <= L
  BY MonthFacts
<1>2. PICK v \in Int : v = p.value
  BY DEF PatternRows
<1>3. MonthOf(DateOf(m, day)) = m /\ DayOf(DateOf(m, day)) = day
  BY DatesAreOfOneMonth
<1>4. day \in Int /\ 1 <= day /\ day <= L
  BY <1>1
<1>5. p.type \in 0 .. 7
  BY DEF PatternRows
<1>6. CASE p.type = DayPattern
  <2>1. MatchesPattern(DateOf(m, day), p) <=> v = day \/ v = day - L - 1
    BY <1>1, <1>2, <1>3, <1>6 DEF MatchesPattern
  <2>2. day \in PatternDay(m, p) <=> day = IF v < 0 THEN L + v + 1 ELSE v
    BY <1>1, <1>2, <1>4, <1>6 DEF PatternDay
  <2> QED BY <1>1, <1>4, <2>1, <2>2
<1>7. CASE p.type # DayPattern
  <2> DEFINE M == MatchingDays(m, p.type)
             rank == Cardinality({e \in M : e <= day})
  <2>1. p.type \in 0 .. 6
    BY <1>5, <1>7 DEF DayPattern
  <2>2. day \in M <=> DayOfWeek(DateOf(m, day)) = p.type
    BY DEF MatchingDays
  <2>3. day \in PatternDay(m, p) <=>
          /\ day \in M
          /\ rank = IF v > 0 THEN v ELSE Cardinality(M) + v + 1
    BY <1>2, <1>7 DEF PatternDay
  <2>4. MatchesPattern(DateOf(m, day), p) <=>
          /\ DayOfWeek(DateOf(m, day)) = p.type
          /\ v = (day + 6) \div 7 \/ v = 0 - ((L - day + 7) \div 7)
    BY <1>1, <1>2, <1>3, <1>7 DEF MatchesPattern
  <2>5. ASSUME day \in M
        PROVE  /\ rank = (day + 6) \div 7
               /\ Cardinality(M) = rank + ((L - day) \div 7)
    <3>1. PICK f \in 1 .. 7 : \A to \in Int : to <= MonthLengths[m] =>
                                {d \in M : d <= to} = {e \in f .. to : (e - f) % 7 = 0}
      BY <2>1, WeekdaysAreSevenApart
    <3>2. {e \in M : e <= day} = {e \in f .. day : (e - f) % 7 = 0}
      BY <1>1, <1>4, <3>1
    <3>3. {e \in M : e <= L} = {e \in f .. L : (e - f) % 7 = 0}
      BY <1>1, <3>1
    <3>4. {e \in M : e <= L} = M
      BY <1>1 DEF MatchingDays
    <3>5. f <= day /\ (day - f) % 7 = 0
      BY <2>5, <3>2, <1>4
    <3>6. rank = ((day - f) \div 7) + 1
      <4>1. 7 \in Nat \ {0} /\ f \in Int /\ f - 1 <= day
        BY <3>5, <1>4
      <4> QED BY <1>4, <3>2, <4>1, MultiplesAreCounted
    <3>7. Cardinality(M) = ((L - f) \div 7) + 1
      <4>1. 7 \in Nat \ {0} /\ f \in Int /\ f - 1 <= L
        BY <1>1
      <4> QED BY <1>1, <3>3, <3>4, <4>1, MultiplesAreCounted
    <3>8. ((day - f) \div 7) + 1 = (day + 6) \div 7
      BY <1>4, <3>5
    <3>9. ((L - f) \div 7) + 1 = ((day - f) \div 7) + 1 + ((L - day) \div 7)
      BY <1>1, <1>4, <3>5
    <3> QED BY <3>6, <3>7, <3>8, <3>9
  <2>6. ASSUME day \in M
        PROVE  (rank = IF v > 0 THEN v ELSE Cardinality(M) + v + 1) <=>
               (v = (day + 6) \div 7 \/ v = 0 - ((L - day + 7) \div 7))
    <3>1. PICK a \in Int, b \in Int : a = (day + 6) \div 7 /\ b = (L - day) \div 7
      BY <1>1, <1>4
    <3>2. a >= 1 /\ b >= 0 /\ (L - day + 7) \div 7 = b + 1
      BY <1>1, <1>4, <3>1
    <3>3. rank = a /\ Cardinality(M) = a + b
      BY <2>5, <2>6, <3>1
    <3> HIDE DEF rank, M
    <3> QED BY <3>1, <3>2, <3>3
  <2> QED BY <2>2, <2>3, <2>4, <2>6
<1> QED BY <1>6, <1>7

\* The days of a month that a monthly or yearly recurrence names.
LEMMA MonthlyDaysMatch ==
  ASSUME NEW r \in RecurrenceRows, NEW m \in Months, NEW day \in 1 .. MonthLengths[m]
  PROVE  day \in MonthlyDays(r, m) <=>
           IF r.patterns = {} \/ r.frequency = "yearly" THEN day = DayOf(r.start)
           ELSE \E p \in r.patterns : MatchesPattern(DateOf(m, day), p)
<1>1. r.patterns \subseteq PatternRows
  BY DEF RecurrenceRows
<1>2. \A p \in r.patterns : day \in PatternDay(m, p) <=> MatchesPattern(DateOf(m, day), p)
  BY <1>1, PatternDaysMatch
<1> QED BY <1>2 DEF MonthlyDays

LEMMA MonthlyDaysAreDays ==
  ASSUME NEW r \in RecurrenceRows, NEW m \in Months
  PROVE  MonthlyDays(r, m) \subseteq 1 .. MonthLengths[m]
BY DEF MonthlyDays, PatternDay, MatchingDays

(***************************************************************************)
(* The occurrences                                                         *)
(***************************************************************************)
StepOf(r) == r.interval * (IF r.frequency = "weekly" THEN 7 ELSE 1)
PeriodOf(r) == r.interval * (IF r.frequency = "yearly" THEN 12 ELSE 1)
LeavesRoom(r, count) == r.limit = Endless \/ count < r.limit

\* A walk in steps from the start reaches the dates that are whole steps from it.
LEMMA StepsAreMultiples ==
  ASSUME NEW r \in RecurrenceRows, NEW from \in Int, NEW to \in Int, NEW d \in Int, from <= d, d <= to
  PROVE  d \in SteppedOccurrences(r, from, to) <=>
           d >= r.start /\ (d - r.start) % StepOf(r) = 0 /\ LeavesRoom(r, (d - r.start) \div StepOf(r))
<1>1. PICK n \in Nat \ {0} : n = StepOf(r) /\ n = r.interval * (IF r.frequency = "weekly" THEN 7 ELSE 1)
  BY DEF StepOf, RecurrenceRows
<1>2. PICK s \in Int : s = r.start
  <2>1. r.start \in Dates
    BY DEF RecurrenceRows
  <2> QED BY <2>1, MonthOfDate
<1>3. PICK first \in Int, last \in Int :
        /\ first = IF r.limit = Endless /\ from > s THEN (from - s) \div n ELSE 0
        /\ last = (to - s) \div n
  BY <1>1, <1>2, Divides
<1>4. SteppedOccurrences(r, from, to) = {s + i * n : i \in {i \in first .. last : r.limit = Endless \/ i < r.limit}}
  BY <1>1, <1>2, <1>3, Zenon DEF SteppedOccurrences
<1>5. \A i, j \in Int : /\ n * i \in Int /\ i * n = n * i
                        /\ i < j <=> n * i < n * j
                        /\ i + 1 <= j => n * i + n <= n * j
  BY ProductsKeepOrder
<1>6. 0 <= first
  <2>1. CASE r.limit = Endless /\ from > s
    <3>1. PICK c \in Int : c = from - s /\ 0 <= c
      BY <1>2, <2>1
    <3>2. c = n * first + (c % n) /\ c % n < n /\ c % n \in Int
      BY <1>1, <1>3, <2>1, <3>1, Divides
    <3>3. SUFFICES ASSUME first + 1 <= 0 PROVE FALSE
      BY <1>3
    <3>4. n * first + n <= n * 0 /\ n * 0 = 0 /\ n * first \in Int
      BY <1>3, <1>5, <3>3
    <3> QED BY <3>1, <3>2, <3>4
  <2>2. CASE ~(r.limit = Endless /\ from > s)
    BY <1>3, <2>2
  <2> QED BY <2>1, <2>2
<1>7. ASSUME NEW i \in Int, i >= 0, d = s + n * i
      PROVE  (d - s) % n = 0 /\ (d - s) \div n = i /\ d >= s
  <2>1. PICK u \in Int : u = n * i
    BY <1>5
  <2>2. (u + 0) \div n = i /\ (u + 0) % n = 0
    BY <2>1, DividesOnce
  <2>3. n * 0 = 0 /\ (0 < i => n * 0 < n * i) /\ (i = 0 \/ 0 < i)
    BY <1>5, <1>7
  <2>4. u >= 0
    BY <2>1, <2>3
  <2>5. d - s = u + 0 /\ d >= s
    BY <1>2, <1>7, <2>1, <2>4
  <2> QED BY <2>2, <2>5
<1>8. ASSUME d \in SteppedOccurrences(r, from, to)
      PROVE  d >= s /\ (d - s) % n = 0 /\ LeavesRoom(r, (d - s) \div n)
  <2>1. PICK i \in first .. last : (r.limit = Endless \/ i < r.limit) /\ d = s + i * n
    BY <1>4, <1>8
  <2>2. i \in Int /\ i >= 0 /\ d = s + n * i
    BY <1>3, <1>5, <1>6, <2>1
  <2>3. (d - s) % n = 0 /\ (d - s) \div n = i /\ d >= s
    BY <1>7, <2>2
  <2> QED BY <2>1, <2>3 DEF LeavesRoom
<1>9. ASSUME d >= s, (d - s) % n = 0, LeavesRoom(r, (d - s) \div n)
      PROVE  d \in SteppedOccurrences(r, from, to)
  <2>1. PICK i \in Int, c \in Int : c = d - s /\ i = c \div n /\ c = n * i
    <3>1. PICK c \in Int : c = d - s
      BY <1>2
    <3>2. c \div n \in Int /\ c = n * (c \div n) + (c % n)
      BY Divides
    <3>3. PICK i \in Int : i = c \div n
      BY <3>2
    <3>4. c % n = 0
      BY <1>9, <3>1
    <3>5. c = n * i + 0
      BY <3>2, <3>3, <3>4, Zenon
    <3>6. n * i \in Int
      BY <1>5, <3>3
    <3>7. c = n * i
      BY <3>5, <3>6
    <3> QED BY <3>1, <3>3, <3>7
  <2>2. i <= last
    <3>1. SUFFICES ASSUME last + 1 <= i PROVE FALSE
      BY <1>3, <2>1
    <3>2. PICK e \in Int : e = to - s /\ c <= e
      BY <1>2, <2>1
    <3>3. e = n * last + (e % n) /\ e % n < n /\ e % n \in Int
      BY <1>3, <3>2, Divides
    <3>4. n * last + n <= n * i /\ n * last \in Int /\ n * i \in Int
      BY <1>3, <1>5, <2>1, <3>1
    <3> QED BY <2>1, <3>2, <3>3, <3>4
  <2>3. first <= i
    <3>1. SUFFICES ASSUME i + 1 <= first PROVE FALSE
      BY <1>3, <2>1
    <3>2. CASE r.limit = Endless /\ from > s
      <4>1. PICK e \in Int : e = from - s /\ e <= c
        BY <1>2, <2>1
      <4>2. e = n * first + (e % n) /\ 0 <= e % n /\ e % n \in Int
        BY <1>3, <3>2, <4>1, Divides
      <4>3. n * i + n <= n * first /\ n * first \in Int /\ n * i \in Int
        BY <1>3, <1>5, <2>1, <3>1
      <4> QED BY <2>1, <4>1, <4>2, <4>3
    <3>3. CASE ~(r.limit = Endless /\ from > s)
      <4>1. n * i + n <= n * 0 /\ n * 0 = 0 /\ n * i \in Int
        BY <1>3, <1>5, <2>1, <3>1, <3>3
      <4> QED BY <1>2, <1>9, <2>1, <4>1
    <3> QED BY <3>2, <3>3
  <2>4. d = s + i * n
    BY <1>2, <1>5, <2>1
  <2>5. r.limit = Endless \/ i < r.limit
    BY <1>9, <2>1 DEF LeavesRoom
  <2> QED BY <1>3, <1>4, <2>1, <2>2, <2>3, <2>4, <2>5
<1> QED BY <1>1, <1>2, <1>8, <1>9

\* A recurrence in steps matches the dates that are whole steps from its start.
LEMMA StepsMatch ==
  ASSUME NEW r \in RecurrenceRows, r.frequency \in {"daily", "weekly"}, NEW e \in Int
  PROVE  Matches(r, e) <=> e >= r.start /\ (e - r.start) % StepOf(r) = 0
<1>1. CASE r.frequency = "daily"
  <2>1. StepOf(r) = r.interval
    BY <1>1 DEF StepOf, RecurrenceRows
  <2> QED BY <1>1, <2>1, Zenon DEF Matches
<1>2. CASE r.frequency = "weekly"
  <2>1. StepOf(r) = 7 * r.interval
    BY <1>2 DEF StepOf, RecurrenceRows
  <2> QED BY <1>2, <2>1, Zenon DEF Matches
<1> QED BY <1>1, <1>2

\* Of a recurrence in steps, the dates before an occurrence are as many as its steps.
LEMMA StepsAreTallied ==
  ASSUME NEW r \in RecurrenceRows, r.frequency \in {"daily", "weekly"}, NEW d \in Int, Matches(r, d)
  PROVE  /\ Cardinality({e \in r.start .. d - 1 : Matches(r, e)}) = (d - r.start) \div StepOf(r)
<1>1. PICK n \in Nat \ {0} : n = StepOf(r)
  BY DEF StepOf, RecurrenceRows
<1>2. PICK s \in Int : s = r.start
  <2>1. r.start \in Dates
    BY DEF RecurrenceRows
  <2> QED BY <2>1, MonthOfDate
<1>3. ASSUME NEW e \in Int PROVE Matches(r, e) <=> e >= s /\ (e - s) % n = 0
  BY <1>1, <1>2, StepsMatch, Zenon
<1>4. {e \in s .. d - 1 : Matches(r, e)} = {e \in s .. d - 1 : (e - s) % n = 0}
  BY <1>2, <1>3
<1>5. d >= s /\ (d - s) % n = 0
  BY <1>3
<1>6. Cardinality({e \in s .. d - 1 : (e - s) % n = 0}) = ((d - 1 - s) \div n) + 1
  <2>1. PICK b \in Int : b = d - 1 /\ s - 1 <= b
    BY <1>2, <1>5
  <2>2. Cardinality({e \in s .. b : (e - s) % n = 0}) = ((b - s) \div n) + 1
    BY <2>1, MultiplesAreCounted
  <2> QED BY <2>1, <2>2
<1>7. ((d - 1 - s) \div n) + 1 = (d - s) \div n
  <2>1. PICK c \in Int : c = d - s
    BY <1>2
  <2>2. c \div n \in Int /\ c = n * (c \div n) + (c % n)
    BY Divides
  <2>3. PICK i \in Int : i = c \div n
    BY <2>2
  <2>4. c % n = 0
    BY <1>5, <2>1
  <2>5. c = n * i + 0
    BY <2>2, <2>3, <2>4, Zenon
  <2>6. n * i \in Int /\ n * (i - 1) \in Int /\ n * i = n * (i - 1) + n
    OBVIOUS
  <2>7. c - 1 = n * (i - 1) + (n - 1)
    BY <2>5, <2>6
  <2>8. PICK q \in Int, p \in Int : q = i - 1 /\ p = n - 1 /\ 0 <= p /\ p < n
    OBVIOUS
  <2>9. (n * q + p) \div n = q
    BY <2>8, DividesOnce
  <2>10. (c - 1) \div n = i - 1
    BY <2>7, <2>8, <2>9, Zenon
  <2>11. c - 1 = d - 1 - s
    BY <1>2, <2>1
  <2> QED BY <2>1, <2>3, <2>10, <2>11
<1> QED BY <1>1, <1>2, <1>4, <1>6, <1>7

\* The months that a walk over the calendar visits are whole periods from the first.
LEMMA PeriodsAreMultiples ==
  ASSUME NEW r \in RecurrenceRows, NEW to \in Dates, NEW m \in Int
  PROVE  m \in CalendarMonths(r, to) <=>
           /\ MonthOf(r.start) <= m /\ m <= MonthOf(to) /\ (m - MonthOf(r.start)) % PeriodOf(r) = 0
<1>1. PICK n \in Nat \ {0} : n = PeriodOf(r) /\ n = r.interval * (IF r.frequency = "yearly" THEN 12 ELSE 1)
  BY DEF PeriodOf, RecurrenceRows
<1>2. PICK s \in Int, t \in Int : s = MonthOf(r.start) /\ t = MonthOf(to)
  <2>1. r.start \in Dates
    BY DEF RecurrenceRows
  <2> QED BY <2>1, MonthOfDate, MonthFacts
<1>3. PICK last \in Int : last = (t - s) \div n
  BY <1>1, <1>2, Divides
<1>4. CalendarMonths(r, to) = {s + p * n : p \in 0 .. last}
  BY <1>1, <1>2, <1>3, Zenon DEF CalendarMonths
<1>5. \A i, j \in Int : /\ n * i \in Int /\ i * n = n * i
                        /\ i < j <=> n * i < n * j
                        /\ i + 1 <= j => n * i + n <= n * j
  BY ProductsKeepOrder
<1>6. PICK e \in Int : e = t - s /\ e = n * last + (e % n) /\ e % n < n /\ e % n \in Int /\ 0 <= e % n
  <2>1. PICK e \in Int : e = t - s
    BY <1>2
  <2> QED BY <1>3, <2>1, Divides
<1>7. ASSUME m \in CalendarMonths(r, to) PROVE s <= m /\ m <= t /\ (m - s) % n = 0
  <2>1. PICK p \in 0 .. last : m = s + p * n
    BY <1>4, <1>7
  <2>2. PICK u \in Int : u = n * p /\ m = s + u
    BY <1>3, <1>5, <2>1
  <2>3. 0 <= u
    <3>1. p \in Int /\ 0 \in Int /\ (p = 0 \/ 0 < p) /\ n * 0 = 0
      BY <1>3
    <3>2. 0 < p => n * 0 < n * p
      BY <1>5, <3>1
    <3> QED BY <2>2, <3>1, <3>2
  <2>4. u <= n * last /\ n * last \in Int
    <3>1. p \in Int /\ (p = last \/ p < last)
      BY <1>3
    <3> QED BY <1>3, <1>5, <2>2, <3>1
  <2>5. u % n = 0
    <3>1. p \in Int
      BY <1>3
    <3>2. (n * p + 0) % n = 0
      BY <3>1, DividesOnce
    <3>3. n * p + 0 = u
      BY <2>2
    <3> QED BY <3>2, <3>3
  <2>6. m - s = u /\ s <= m /\ m <= t
    <3>1. PICK l \in Int : l = n * last /\ u <= l
      BY <2>4
    <3>2. PICK f \in Int : f = e % n /\ 0 <= f
      BY <1>6
    <3>3. e \in Int /\ e = t - s /\ e = l + f
      BY <1>6, <3>1, <3>2
    <3>4. u <= t - s
      BY <3>1, <3>2, <3>3
    <3> QED BY <1>2, <2>2, <2>3, <3>4
  <2> QED BY <2>5, <2>6
<1>8. ASSUME s <= m, m <= t, (m - s) % n = 0 PROVE m \in CalendarMonths(r, to)
  <2>1. PICK c \in Int : c = m - s
    BY <1>2
  <2>2. c \div n \in Int /\ c = n * (c \div n) + (c % n)
    BY Divides
  <2>3. PICK i \in Int : i = c \div n
    BY <2>2
  <2>4. c % n = 0
    BY <1>8, <2>1
  <2>5. c = n * i + 0
    BY <2>2, <2>3, <2>4, Zenon
  <2>6. PICK u \in Int : u = n * i /\ c = u
    <3>1. n * i \in Int
      BY <1>5
    <3> QED BY <2>5, <3>1
  <2>7. i <= last
    <3>1. SUFFICES ASSUME last + 1 <= i PROVE FALSE
      BY <1>3, <2>3
    <3>2. n * last + n <= n * i /\ n * last \in Int
      BY <1>3, <1>5, <2>3, <3>1
    <3> QED BY <1>2, <1>6, <1>8, <2>1, <2>6, <3>2, SMTT(30)
  <2>8. 0 <= i
    <3>1. SUFFICES ASSUME i < 0 PROVE FALSE
      BY <2>3
    <3>2. n * i < n * 0 /\ n * 0 = 0
      BY <1>5, <2>3, <3>1
    <3> QED BY <1>2, <1>8, <2>1, <2>6, <3>2
  <2>9. m = s + i * n
    BY <1>2, <1>5, <2>1, <2>6
  <2> QED BY <1>3, <1>4, <2>7, <2>8, <2>9
<1> QED BY <1>1, <1>2, <1>7, <1>8

\* The dates of the walk that are not before the start are the matching ones.
LEMMA CandidatesMatch ==
  ASSUME NEW r \in RecurrenceRows, r.frequency \in {"monthly", "yearly"}, NEW to \in Dates
  PROVE  LET candidates == UNION {{DateOf(m, day) : day \in MonthlyDays(r, m)} : m \in CalendarMonths(r, to)}
         IN NotBefore(r, candidates) = {d \in Dates : MonthOf(d) <= MonthOf(to) /\ Matches(r, d)}
<1> DEFINE candidates == UNION {{DateOf(m, day) : day \in MonthlyDays(r, m)} : m \in CalendarMonths(r, to)}
<1>1. r.start \in Dates
  BY DEF RecurrenceRows
<1>2. /\ MonthOf(r.start) \in Months /\ MonthOf(to) \in Months /\ DayOf(r.start) \in Int
      /\ r.start \in Int /\ \A m \in Months : MonthLengths[m] \in Int
  BY <1>1, MonthOfDate, MonthFacts
<1>3. ASSUME NEW m \in CalendarMonths(r, to) PROVE m \in Months
  <2>1. m \in Int
    <3>1. r.interval \in Nat \ {0}
      BY DEF RecurrenceRows
    <3> QED BY <1>2, <3>1, MonthFacts DEF CalendarMonths
  <2>2. MonthOf(r.start) <= m /\ m <= MonthOf(to)
    BY <2>1, PeriodsAreMultiples
  <2> QED BY <1>2, <2>1, <2>2, MonthFacts
<1>4. ASSUME NEW e \in Dates, e >= r.start
      PROVE  /\ Matches(r, e) <=>
                  /\ (MonthOf(e) - MonthOf(r.start)) % PeriodOf(r) = 0
                  /\ DayOf(e) \in MonthlyDays(r, MonthOf(e))
             /\ MonthOf(r.start) <= MonthOf(e)
  <2>1. /\ MonthOf(e) \in Months /\ DayOf(e) \in 1 .. MonthLengths[MonthOf(e)]
        /\ DateOf(MonthOf(e), DayOf(e)) = e /\ e \in Int
    BY MonthOfDate, StartsFollow DEF DateOf
  <2>2. DayOf(e) \in MonthlyDays(r, MonthOf(e)) <=>
           IF r.patterns = {} \/ r.frequency = "yearly" THEN DayOf(e) = DayOf(r.start)
           ELSE \E p \in r.patterns : MatchesPattern(e, p)
    BY <2>1, MonthlyDaysMatch
  <2>3. CASE r.frequency = "monthly"
    <3>1. PeriodOf(r) = r.interval
      BY <2>3 DEF PeriodOf, RecurrenceRows
    <3>2. MonthOf(r.start) <= MonthOf(e)
      BY <1>1, <1>4, MonthsFollowDates
    <3> QED BY <1>4, <2>2, <2>3, <3>1, <3>2 DEF Matches
  <2>4. CASE r.frequency = "yearly"
    <3>1. PeriodOf(r) = 12 * r.interval
      BY <2>4 DEF PeriodOf, RecurrenceRows
    <3>2. MonthOf(r.start) <= MonthOf(e)
      BY <1>1, <1>4, MonthsFollowDates
    <3> QED BY <1>4, <2>2, <2>4, <3>1, <3>2, Zenon DEF Matches
  <2> QED BY <2>3, <2>4
<1>5. ASSUME NEW d \in candidates, d >= r.start PROVE d \in Dates /\ MonthOf(d) <= MonthOf(to) /\ Matches(r, d)
  <2>1. PICK m \in CalendarMonths(r, to) : d \in {DateOf(m, day) : day \in MonthlyDays(r, m)}
    BY <1>5
  <2>5. PICK day \in MonthlyDays(r, m) : d = DateOf(m, day)
    BY <2>1
  <2>2. m \in Months /\ day \in 1 .. MonthLengths[m]
    BY <1>3, <2>5, MonthlyDaysAreDays
  <2>3. d \in Dates /\ MonthOf(d) = m /\ DayOf(d) = day
    BY <2>2, <2>5, DatesAreOfOneMonth
  <2>4. m <= MonthOf(to) /\ (m - MonthOf(r.start)) % PeriodOf(r) = 0
    BY <2>2, MonthFacts, PeriodsAreMultiples
  <2> QED BY <1>4, <1>5, <2>3, <2>4, <2>5
<1>6. ASSUME NEW d \in Dates, MonthOf(d) <= MonthOf(to), Matches(r, d) PROVE d \in candidates /\ d >= r.start
  <2>1. d >= r.start
    BY <1>6 DEF Matches
  <2>2. /\ (MonthOf(d) - MonthOf(r.start)) % PeriodOf(r) = 0 /\ DayOf(d) \in MonthlyDays(r, MonthOf(d))
        /\ MonthOf(r.start) <= MonthOf(d)
    BY <1>4, <1>6, <2>1
  <2>3. MonthOf(d) \in Months /\ DateOf(MonthOf(d), DayOf(d)) = d
    BY <1>6, MonthOfDate, StartsFollow DEF DateOf
  <2>4. MonthOf(d) \in CalendarMonths(r, to)
    BY <1>6, <2>2, <2>3, MonthFacts, PeriodsAreMultiples
  <2> QED BY <2>1, <2>2, <2>3, <2>4
<1> QED BY <1>5, <1>6 DEF NotBefore

\* A weekend moves a payment by two days at most.
LEMMA WeekendsMoveLittle ==
  ASSUME NEW r \in RecurrenceRows, NEW d \in Int
  PROVE  SolveWeekend(r, d) \in d - 2 .. d + 2
<1>1. r.weekend \in {"kept", "before", "after"}
  BY DEF RecurrenceRows
<1>2. CASE r.weekend = "kept" \/ DayOfWeek(d) \notin Weekend
  <2>1. SolveWeekend(r, d) = d
    BY <1>1, <1>2 DEF SolveWeekend
  <2> QED BY <2>1
<1>3. CASE r.weekend = "after" /\ DayOfWeek(d) \in Weekend
  <2>1. SolveWeekend(r, d) = d + (IF DayOfWeek(d) = 6 THEN 2 ELSE 1)
    BY <1>3 DEF SolveWeekend
  <2> QED BY <2>1
<1>4. CASE r.weekend = "before" /\ DayOfWeek(d) \in Weekend
  <2>1. SolveWeekend(r, d) = d - (IF DayOfWeek(d) = 6 THEN 1 ELSE 2)
    BY <1>4 DEF SolveWeekend
  <2> QED BY <2>1
<1> QED BY <1>1, <1>2, <1>3, <1>4

\* A date up to the end of the window is in the walk when it matches and the count of
\* the matching dates before it leaves room for it.
LEMMA WalksMatch ==
  ASSUME NEW r \in RecurrenceRows, r.frequency # "once", NEW from \in Int, NEW to \in Dates,
         NEW d \in Int, from <= d, d <= to
  PROVE  d \in RawOccurrences(r, from, to) <=> Occurs(r, d)
<1> DEFINE tally == Cardinality({e \in r.start .. d - 1 : Matches(r, e)})
<1>1. r.start \in Dates /\ r.start \in Nat /\ to \in Int
  <2>1. r.start \in Dates
    BY DEF RecurrenceRows
  <2>2. EndOfMonth(Len(MonthLengths)) \in Int
    <3>1. Len(MonthLengths) \in Months
      BY MonthFacts
    <3> QED BY <3>1, MonthFacts, StartsFollow DEF EndOfMonth
  <2> QED BY <2>1, <2>2 DEF Dates
<1>2. Occurs(r, d) <=> Matches(r, d) /\ WithinEnd(r, d) /\ LeavesRoom(r, tally)
  BY DEF Occurs, LeavesRoom
<1>3. CASE r.frequency \in {"daily", "weekly"}
  <2>1. d \in RawOccurrences(r, from, to) <=> d \in SteppedOccurrences(r, from, to) /\ WithinEnd(r, d)
    BY <1>3 DEF RawOccurrences
  <2>2. d \in SteppedOccurrences(r, from, to) <=> Matches(r, d) /\ LeavesRoom(r, (d - r.start) \div StepOf(r))
    BY <1>1, <1>3, StepsAreMultiples, StepsMatch, Zenon
  <2>3. Matches(r, d) => tally = (d - r.start) \div StepOf(r)
    BY <1>3, StepsAreTallied
  <2> HIDE DEF tally
  <2> QED BY <1>2, <2>1, <2>2, <2>3, Zenon
<1>4. CASE r.frequency \in {"monthly", "yearly"}
  <2> DEFINE candidates == UNION {{DateOf(m, day) : day \in MonthlyDays(r, m)} : m \in CalendarMonths(r, to)}
             matching == {e \in Dates : MonthOf(e) <= MonthOf(to) /\ Matches(r, e)}
  <2>1. NotBefore(r, candidates) = matching
    BY <1>4, CandidatesMatch
  <2>2. d \in RawOccurrences(r, from, to) <=> d \in Counted(r, candidates) /\ WithinEnd(r, d)
    BY <1>4 DEF RawOccurrences, MonthlyOccurrences
  <2>3. \A e \in Int : e <= to /\ Matches(r, e) => e \in matching
    <3>1. SUFFICES ASSUME NEW e \in Int, e <= to, Matches(r, e) PROVE e \in Dates /\ MonthOf(e) <= MonthOf(to)
      OBVIOUS
    <3>2. e >= r.start
      BY <3>1 DEF Matches
    <3>3. EndOfMonth(Len(MonthLengths)) \in Int
      <4>1. Len(MonthLengths) \in Months
        BY MonthFacts
      <4> QED BY <4>1, MonthFacts, StartsFollow DEF EndOfMonth
    <3>4. e \in Dates
      BY <1>1, <3>1, <3>2, <3>3 DEF Dates
    <3> QED BY <3>1, <3>4, MonthsFollowDates
  <2>4. \A e \in matching : e \in Int /\ e >= r.start /\ Matches(r, e)
    BY MonthOfDate DEF Matches
  <2>5. {e \in matching : e < d} = {e \in r.start .. d - 1 : Matches(r, e)}
    <3> HIDE DEF matching
    <3> QED BY <1>1, <2>3, <2>4
  <2>6. d \in Counted(r, candidates) <=> d \in matching /\ LeavesRoom(r, Cardinality({e \in matching : e < d}))
    <3> HIDE DEF candidates, matching
    <3>1. Counted(r, candidates) = FirstOf(r, matching)
      BY <2>1, Zenon DEF Counted
    <3> QED BY <3>1 DEF FirstOf, LeavesRoom
  <2>7. d \in matching <=> Matches(r, d)
    BY <2>3, <2>4
  <2> HIDE DEF candidates, matching
  <2> QED BY <1>2, <2>2, <2>5, <2>6, <2>7, Zenon
<1>5. r.frequency \in {"daily", "weekly", "monthly", "yearly"}
  BY DEF RecurrenceRows, Frequencies
<1> QED BY <1>3, <1>4, <1>5

LEMMA WalksAreDates ==
  ASSUME NEW r \in RecurrenceRows, r.frequency # "once", NEW from \in Int, NEW to \in Dates
  PROVE  RawOccurrences(r, from, to) \subseteq Int
<1>1. CASE r.frequency \in {"daily", "weekly"}
  <2>1. PICK n \in Int, s \in Int : s = r.start /\ n = r.interval * (IF r.frequency = "weekly" THEN 7 ELSE 1)
    <3>1. r.start \in Dates /\ r.interval \in Int
      BY DEF RecurrenceRows
    <3> QED BY <3>1, MonthOfDate
  <2>2. s \in Int /\ n \in Int /\ \A i \in Int : s + i * n \in Int
    OBVIOUS
  <2>3. to \in Int
    BY MonthOfDate
  <2>4. PICK first \in Int, last \in Int :
          /\ first = IF r.limit = Endless /\ from > s THEN (from - s) \div n ELSE 0
          /\ last = (to - s) \div n
    <3>1. r.interval \in Nat \ {0}
      BY DEF RecurrenceRows
    <3>2. n > 0
      BY <2>1, <3>1
    <3> QED BY <2>1, <2>3, <3>2, Divides
  <2>5. SteppedOccurrences(r, from, to) = {s + i * n : i \in {i \in first .. last : r.limit = Endless \/ i < r.limit}}
    BY <2>1, <2>4, Zenon DEF SteppedOccurrences
  <2>6. SteppedOccurrences(r, from, to) \subseteq Int
    BY <2>2, <2>4, <2>5
  <2> QED BY <1>1, <2>6 DEF RawOccurrences
<1>2. CASE r.frequency \in {"monthly", "yearly"}
  <2> DEFINE candidates == UNION {{DateOf(m, day) : day \in MonthlyDays(r, m)} : m \in CalendarMonths(r, to)}
  <2>1. NotBefore(r, candidates) \subseteq Dates
    BY <1>2, CandidatesMatch
  <2>2. Counted(r, candidates) \subseteq Int
    <3> HIDE DEF candidates
    <3> QED BY <2>1, MonthOfDate DEF Counted, FirstOf
  <2> QED BY <1>2, <2>2 DEF RawOccurrences, MonthlyOccurrences
<1>3. r.frequency \in {"daily", "weekly", "monthly", "yearly"}
  BY DEF RecurrenceRows, Frequencies
<1> QED BY <1>1, <1>2, <1>3

\* Every recurrence is expanded to the payments that fall in the window, whichever window
\* and wherever the walk begins.
THEOREM ExpandsInFull ==
  ASSUME NEW r \in RecurrenceRows, r.frequency = "once" => r.limit = Endless /\ r.until = Endless,
         NEW from \in Int, NEW to \in Int, to + ScanSlack \in Dates, ScanSlack >= 2
  PROVE  ExpandsRight(r, from, to)
<1> DEFINE raw == IF r.frequency = "once" THEN {r.start}
                  ELSE RawOccurrences(r, from - ScanSlack, to + ScanSlack)
           S == {d \in raw : SolveWeekend(r, d) \in from .. to}
           T == {d \in from - 2 .. to + 2 : Occurs(r, d) /\ SolveWeekend(r, d) \in from .. to}
<1>1. ScanSlack \in Nat
  BY CommittedAssumption
<1>2. r.start \in Int
  <2>1. r.start \in Dates
    BY DEF RecurrenceRows
  <2> QED BY <2>1, MonthOfDate
<1>3. raw \subseteq Int
  <2>1. from - ScanSlack \in Int
    BY <1>1
  <2> QED BY <1>2, <2>1, WalksAreDates
<1>4. \A d \in Int : SolveWeekend(r, d) \in from .. to => d \in from - 2 .. to + 2
  <2>1. SUFFICES ASSUME NEW d \in Int, SolveWeekend(r, d) \in from .. to PROVE d \in from - 2 .. to + 2
    OBVIOUS
  <2>2. SolveWeekend(r, d) \in d - 2 .. d + 2
    BY WeekendsMoveLittle
  <2>3. PICK e \in Int : e = SolveWeekend(r, d) /\ e \in d - 2 .. d + 2 /\ e \in from .. to
    BY <2>1, <2>2
  <2> QED BY <2>3
<1>5. ASSUME NEW d \in from - 2 .. to + 2 PROVE d \in raw <=> Occurs(r, d)
  <2>1. CASE r.frequency = "once"
    <3>1. Matches(r, d) <=> d = r.start
      BY <1>2, <2>1 DEF Matches
    <3>2. Occurs(r, d) <=> d = r.start
      BY <2>1, <3>1 DEF Occurs, WithinEnd
    <3> QED BY <2>1, <3>2
  <2>2. CASE r.frequency # "once"
    <3>1. from - ScanSlack \in Int /\ d \in Int /\ from - ScanSlack <= d /\ d <= to + ScanSlack
      BY <1>1
    <3>2. d \in RawOccurrences(r, from - ScanSlack, to + ScanSlack) <=> Occurs(r, d)
      BY <2>2, <3>1, WalksMatch
    <3> QED BY <2>2, <3>2
  <2> QED BY <2>1, <2>2
<1>6. S = T
  <2> HIDE DEF raw
  <2> QED BY <1>3, <1>4, <1>5
<1>7. Expansion(r, from, to) = [d \in S |-> SolveWeekend(r, d)]
  BY DEF Expansion
<1> HIDE DEF S, T
<1>8. Expansion(r, from, to) = [d \in T |-> SolveWeekend(r, d)]
  BY <1>6, <1>7, Zenon
<1> QED BY <1>8, Zenon DEF ExpandsRight, T

(***************************************************************************)
(* The month                                                               *)
(***************************************************************************)
LEMMA ExpansionsAreFinite ==
  ASSUME NEW r \in RecurrenceRows, NEW from \in Int, NEW to \in Int, to + ScanSlack \in Dates
  PROVE  IsFiniteSet(DOMAIN Expansion(r, from, to))
<1> DEFINE raw == IF r.frequency = "once" THEN {r.start}
                  ELSE RawOccurrences(r, from - ScanSlack, to + ScanSlack)
<1>1. PICK a \in Int, b \in Int : a = from - ScanSlack /\ b = to + ScanSlack
  BY CommittedAssumption
<1>2. IsFiniteSet(raw)
  <2>1. CASE r.frequency = "once"
    BY <2>1, FS_Singleton
  <2>2. CASE r.frequency # "once"
    <3>1. RawOccurrences(r, a, b) \subseteq Int
      BY <1>1, <2>2, WalksAreDates
    <3>2. RawOccurrences(r, a, b) \subseteq a .. b
      BY <1>1, <3>1 DEF RawOccurrences
    <3>3. IsFiniteSet(RawOccurrences(r, a, b))
      BY <1>1, <3>2, FS_Interval, FS_Subset
    <3> QED BY <1>1, <2>2, <3>3
  <2> QED BY <2>1, <2>2
<1>3. DOMAIN Expansion(r, from, to) \subseteq raw
  BY DEF Expansion
<1> QED BY <1>2, <1>3, FS_Subset

\* The payments of a month are each made or still to come.
THEOREM SplitsInFull ==
  ASSUME NEW s, Costs(s), s.recurrence \in RecurrenceRows, s.amount \in Int, s.paid \in Int,
         NEW on \in Dates, EndOfMonth(MonthOf(on)) + ScanSlack \in Dates
  PROVE  SplitsRight(s, MonthOf(on), on) /\ Remaining(s, MonthOf(on), on) \in Int
<1>1. PICK month \in Months : month = MonthOf(on)
  BY MonthOfDate
<1>2. StartOfMonth[month] \in Int /\ EndOfMonth(month) \in Int
  BY MonthFacts, StartsFollow DEF EndOfMonth
<1> DEFINE dates == Expansion(s.recurrence, StartOfMonth[month], EndOfMonth(month))
           split == Split(dates, s.paid, s.nextDate, on, EndOfMonth(month))
           before == {d \in DOMAIN dates : dates[d] < on}
           unseen == Cardinality(DOMAIN dates) = 0 /\ s.nextDate \in on .. EndOfMonth(month)
           open == Cardinality(DOMAIN dates) - Greatest(Cardinality(before), Least(s.paid, Cardinality(DOMAIN dates)))
<1>3. IsFiniteSet(DOMAIN dates)
  BY <1>1, <1>2, ExpansionsAreFinite
<1>4. /\ IsFiniteSet(before) /\ Cardinality(before) <= Cardinality(DOMAIN dates)
      /\ Cardinality(before) \in Nat /\ Cardinality(DOMAIN dates) \in Nat
      /\ Cardinality(DOMAIN dates) = 0 <=> DOMAIN dates = {}
  <2>1. before \subseteq DOMAIN dates
    OBVIOUS
  <2> HIDE DEF dates, before
  <2> QED BY <1>3, <2>1, FS_Subset, FS_CardinalityType, FS_EmptySet
<1>5. Remaining(s, month, on) = (0 - s.amount) * split.remaining
  <2> HIDE DEF split
  <2>1. MonthOf(on) = month
    BY <1>1
  <2> QED BY <2>1, Zenon DEF Remaining, split, dates
<1>6. PICK due \in Nat, prior \in Nat, paid \in Int :
        /\ due = Cardinality(DOMAIN dates) /\ prior = Cardinality(before) /\ paid = s.paid /\ prior <= due
  BY <1>4
<1>7. split.remaining = IF DOMAIN dates = {} /\ s.nextDate \in on .. EndOfMonth(month) THEN 1
                        ELSE (due - prior) - Retired(paid, prior, due - prior)
  <2> HIDE DEF dates
  <2> QED BY <1>6 DEF Split
<1>8. Retired(paid, prior, due - prior) = (IF due - prior <= (IF 0 >= paid - prior THEN 0 ELSE paid - prior)
                                           THEN due - prior ELSE IF 0 >= paid - prior THEN 0 ELSE paid - prior)
  BY DEF Retired, Least, Greatest
<1>9. (due - prior) - Retired(paid, prior, due - prior) = due - Greatest(prior, Least(paid, due))
  BY <1>6, <1>8 DEF Least, Greatest
<1>10. split.remaining = (IF unseen THEN 1 ELSE open) /\ split.remaining \in Int
  <2>1. open = due - Greatest(prior, Least(paid, due)) /\ open \in Int
    <3> HIDE DEF dates, before
    <3>1. open = due - Greatest(prior, Least(paid, due))
      BY <1>6
    <3>2. due - Greatest(prior, Least(paid, due)) \in Int
      BY <1>6 DEF Least, Greatest
    <3> QED BY <3>1, <3>2
  <2> HIDE DEF dates, before, open, split
  <2> QED BY <1>4, <1>7, <1>9, <2>1
<1>11. SplitsRight(s, month, on)
  <2>1. Remaining(s, month, on) = (0 - s.amount) * (IF unseen THEN 1 ELSE open)
    <3> HIDE DEF split, unseen, open
    <3> QED BY <1>5, <1>10
  <2> QED BY <2>1, Zenon DEF SplitsRight
<1>12. Remaining(s, month, on) \in Int
  <2> HIDE DEF split
  <2> QED BY <1>5, <1>10
<1> QED BY <1>1, <1>11, <1>12

\* Sums of nothing.
LEMMA SumsOfZeros ==
  ASSUME NEW S, IsFiniteSet(S), NEW f, \A x \in S : f[x] = 0
  PROVE  SumOver(f, S) = 0
<1>1. \A x \in S : f[x] \in Int /\ f[x] = 0 * f[x]
  OBVIOUS
<1>2. SumOver(f, S) = 0 * SumOver(f, S)
  BY <1>1, SumsOfMultiples
<1>3. SumOver(f, S) \in Int
  BY SumsAdd
<1> QED BY <1>2, <1>3

\* Sums in which one term at most is not zero.
LEMMA SumsOfOne ==
  ASSUME NEW S, IsFiniteSet(S), NEW f, NEW y \in S, f[y] \in Int, \A x \in S : x # y => f[x] = 0
  PROVE  SumOver(f, S) = f[y]
<1>1. \A x \in S : f[x] \in Int
  OBVIOUS
<1>2. SumOver(f, S) = f[y] + SumOver(f, S \ {y})
  BY <1>1, SumsAdd
<1>3. IsFiniteSet(S \ {y}) /\ \A x \in S \ {y} : f[x] = 0
  BY FS_Subset
<1>4. SumOver(f, S \ {y}) = 0
  BY <1>3, SumsOfZeros
<1> QED BY <1>2, <1>4

\* What the categories owe adds up to the total: each schedule is in one of them.
THEOREM CategoriesAddUp ==
  ASSUME NEW schedules, IsFiniteSet(DOMAIN schedules), NEW month, NEW on,
         \A i \in DOMAIN schedules : Remaining(schedules[i], month, on) \in Int
  PROVE  AddsUp(schedules, month, on)
<1> DEFINE D == DOMAIN schedules
           C == {schedules[i].category : i \in D}
           all == [i \in D |-> Remaining(schedules[i], month, on)]
           in(c) == [i \in D |-> IF schedules[i].category = c THEN Remaining(schedules[i], month, on) ELSE 0]
           by(T) == [c \in C |-> SumOver(in(c), T)]
           F == {T \in SUBSET D : SumOver(all, T) = SumOver(by(T), C)}
<1>1. IsFiniteSet(D) /\ IsFiniteSet(C)
  <2>1. [i \in D |-> schedules[i].category] \in Surjection(D, C)
    BY DEF Surjection
  <2> HIDE DEF D, C
  <2>2. IsFiniteSet(C)
    <3>1. IsFiniteSet(D)
      BY DEF D
    <3> QED BY <2>1, <3>1, FS_Surjection
  <2> QED BY <2>2 DEF D
<1>2. \A i \in D : all[i] \in Int
  OBVIOUS
<1>3. \A c \in C : \A i \in D : in(c)[i] \in Int
  OBVIOUS
<1>4. /\ SumOver(all, {}) = 0
      /\ \A T \in SUBSET D : \A x \in T : SumOver(all, T) = all[x] + SumOver(all, T \ {x})
  <2> HIDE DEF all, D
  <2> QED BY <1>1, <1>2, SumsAdd
<1>5. ASSUME NEW c \in C
      PROVE  /\ SumOver(in(c), {}) = 0
             /\ \A T \in SUBSET D : SumOver(in(c), T) \in Int
             /\ \A T \in SUBSET D : \A x \in T : SumOver(in(c), T) = in(c)[x] + SumOver(in(c), T \ {x})
  <2>1. PICK f : f = in(c)
    OBVIOUS
  <2>2. \A i \in D : f[i] \in Int
    BY <1>3, <2>1
  <2> HIDE DEF in, D, C
  <2>3. /\ SumOver(f, {}) = 0
        /\ \A T \in SUBSET D : SumOver(f, T) \in Int
        /\ \A T \in SUBSET D : \A x \in T : SumOver(f, T) = f[x] + SumOver(f, T \ {x})
    BY <1>1, <2>2, SumsAdd
  <2> QED BY <2>1, <2>3, Zenon
<1>6. ASSUME NEW T \in SUBSET D, \A x \in T : T \ {x} \in F PROVE T \in F
  <2>1. CASE T = {}
    <3>1. \A c \in C : by(T)[c] = 0
      BY <1>5, <2>1, Zenon
    <3>2. SumOver(by(T), C) = 0
      <4>1. PICK f : f = by(T)
        OBVIOUS
      <4> HIDE DEF C, by
      <4>2. SumOver(f, C) = 0
        BY <1>1, <3>1, <4>1, SumsOfZeros
      <4> QED BY <4>1, <4>2, Zenon
    <3> HIDE DEF by, all, C
    <3> QED BY <1>4, <2>1, <3>2
  <2>2. CASE T # {}
    <3>1. PICK x \in T : TRUE
      BY <2>2
    <3>2. PICK rest \in SUBSET D : rest = T \ {x}
      OBVIOUS
    <3>3. SumOver(all, rest) = SumOver(by(rest), C)
      BY <1>6, <3>1, <3>2
    <3> DEFINE one == [c \in C |-> in(c)[x]]
    <3>4. \A c \in C : /\ one[c] \in Int /\ by(rest)[c] \in Int /\ by(T)[c] \in Int
                       /\ by(T)[c] = one[c] + by(rest)[c]
      <4>1. SUFFICES ASSUME NEW c \in C
                     PROVE  /\ in(c)[x] \in Int /\ SumOver(in(c), rest) \in Int /\ SumOver(in(c), T) \in Int
                            /\ SumOver(in(c), T) = in(c)[x] + SumOver(in(c), rest)
        BY Zenon
      <4>2. in(c)[x] \in Int
        BY <1>3, <3>1, Zenon
      <4> HIDE DEF in
      <4> QED BY <1>5, <3>1, <3>2, <4>2, Zenon
    <3>5. SumOver(one, C) = all[x]
      <4>1. schedules[x].category \in C /\ x \in D
        OBVIOUS
      <4>2. one[schedules[x].category] = all[x]
        BY <4>1
      <4>3. \A c \in C : c # schedules[x].category => one[c] = 0
        BY <4>1
      <4>4. all[x] \in Int
        BY <1>2, <4>1
      <4>5. PICK y \in C : y = schedules[x].category
        BY <4>1
      <4>6. one[y] = all[x] /\ \A c \in C : c # y => one[c] = 0
        BY <4>2, <4>3, <4>5
      <4> HIDE DEF one, all, C
      <4> QED BY <1>1, <4>4, <4>5, <4>6, SumsOfOne
    <3>6. SumOver(by(T), C) = SumOver(one, C) + SumOver(by(rest), C)
      <4>1. PICK f, g, h : f = one /\ g = by(rest) /\ h = by(T)
        OBVIOUS
      <4> HIDE DEF one, by, C
      <4>2. \A c \in C : f[c] \in Int /\ g[c] \in Int /\ h[c] \in Int /\ h[c] = f[c] + g[c]
        BY <3>4, <4>1, Zenon
      <4>3. SumOver(h, C) = SumOver(f, C) + SumOver(g, C)
        BY <1>1, <4>2, SumsOfSums
      <4> QED BY <4>1, <4>3, Zenon
    <3>7. SumOver(all, T) = all[x] + SumOver(all, rest)
      <4> HIDE DEF all
      <4> QED BY <1>4, <3>1, <3>2, Zenon
    <3>8. SumOver(all, T) = SumOver(by(T), C)
      <4> HIDE DEF all, by, one, C
      <4> QED BY <3>3, <3>5, <3>6, <3>7, Zenon
    <3> HIDE DEF all, by, C
    <3> QED BY <3>8
  <2> QED BY <2>1, <2>2
<1> HIDE DEF F
<1>7. D \in F
  <2> HIDE DEF D
  <2>1. D \in SUBSET D
    OBVIOUS
  <2> QED BY <1>1, <1>6, <2>1, FiniteInduction
<1>8. SumOver(all, D) = SumOver(by(D), C)
  <2> HIDE DEF all, by, C
  <2> QED BY <1>7 DEF F
<1> QED BY <1>8, Zenon DEF AddsUp, Total, InCategory

(***************************************************************************)
(* The inputs of the runs                                                  *)
(***************************************************************************)
\* What a run picks for these calculations is of the kind the theorems are about.
LEMMA PickedInputs ==
  ASSUME PickInput
  PROVE  /\ input'.kind = "requests" =>
              input'.times \in Seq(Nat) /\ Len(input'.times) = 6 /\ InOrder(input'.times)
         /\ input'.kind = "history" =>
              input'.history \in Seq(MonthEnds) /\ Rising(input'.history)
         /\ input'.kind = "site" =>
              /\ input'.site \in [Urls -> AnswersOf(Urls)] /\ input'.url \in Urls /\ input'.mode \in Modes
         /\ input'.open = FALSE
<1>1. CASE PickRequests
  <2>1. PICK times \in [1 .. 6 -> 0 .. 6] :
          /\ \A i \in 1 .. 5 : times[i] <= times[i + 1]
          /\ \E swept : input' = [kind |-> "requests", open |-> FALSE, times |-> times, swept |-> swept]
    BY <1>1 DEF PickRequests
  <2>2. times \in Seq(Nat) /\ Len(times) = 6
    <3>1. times \in [1 .. 6 -> Nat]
      BY <2>1
    <3>2. 6 \in Nat
      OBVIOUS
    <3>3. \A f \in [1 .. 6 -> Nat] : f \in Seq(Nat) /\ Len(f) = 6
      BY <3>2, SequenceOfLength, ZenonT(40)
    <3> QED BY <3>1, <3>3
  <2>3. input'.times = times /\ input'.kind = "requests" /\ input'.open = FALSE
    BY <2>1
  <2>4. InOrder(times)
    BY <2>1, <2>2 DEF InOrder
  <2> QED BY <2>2, <2>3, <2>4
<1>2. CASE PickHistory
  <2>1. PICK h \in Histories :
          \E state : input' = [kind |-> "history", open |-> FALSE, today |-> state,
                               history |-> [i \in DOMAIN h |-> [month |-> h[i].month, share |-> h[i].end.share,
                                                                 measured |-> h[i].end.measured]]]
    BY <1>2 DEF PickHistory
  <2> DEFINE entries == [i \in DOMAIN h |-> [month |-> h[i].month, share |-> h[i].end.share,
                                              measured |-> h[i].end.measured]]
  <2>2. input'.history = entries /\ input'.kind = "history" /\ input'.open = FALSE
    BY <2>1
  <2>3. PICK n \in 1 .. 3 : h \in [1 .. n -> [month : 1 .. 5, end : [share : {1, 5, 9}, measured : BOOLEAN]]]
    BY <2>1 DEF Histories
  <2>4. \A i, j \in 1 .. n : i < j => h[i].month < h[j].month
    BY <2>1, <2>3 DEF Histories
  <2>5. ASSUME NEW i \in 1 .. n PROVE entries[i] \in MonthEnds /\ entries[i].month = h[i].month
    <3>1. h[i] \in [month : 1 .. 5, end : [share : {1, 5, 9}, measured : BOOLEAN]]
      BY <2>3
    <3>2. h[i].month \in Int /\ h[i].end \in [share : {1, 5, 9}, measured : BOOLEAN]
      BY <3>1
    <3>3. h[i].end.share \in Int /\ h[i].end.measured \in BOOLEAN
      BY <3>2
    <3>4. entries[i] = [month |-> h[i].month, share |-> h[i].end.share, measured |-> h[i].end.measured]
      BY <2>3
    <3> HIDE DEF entries
    <3> QED BY <3>2, <3>3, <3>4 DEF MonthEnds
  <2>6. DOMAIN entries = 1 .. n
    BY <2>3
  <2>7. entries = [i \in 1 .. n |-> entries[i]]
    BY <2>3
  <2> HIDE DEF entries
  <2>8. entries \in [1 .. n -> MonthEnds]
    BY <2>5, <2>7
  <2>9. entries \in Seq(MonthEnds) /\ Len(entries) = n
    BY <2>8
  <2>10. Rising(entries)
    BY <2>4, <2>5, <2>9 DEF Rising
  <2> QED BY <2>2, <2>9, <2>10
<1>3. CASE PickSite
  BY <1>3 DEF PickSite, Answers, AnswersOf, Modes, Urls
<1>4. CASE PickRecurrence
  BY <1>4 DEF PickRecurrence
<1>5. CASE PickMonth
  BY <1>5 DEF PickMonth
<1>6. CASE PickSchedule
  BY <1>6 DEF PickSchedule, PickMonthly, PickDaily
<1>7. CASE PickForecast
  BY <1>7 DEF PickForecast
<1>8. CASE PickPool
  BY <1>8 DEF PickPool
<1>9. CASE PickTrend
  BY <1>9 DEF PickTrend
<1>10. CASE PickLoan
  BY <1>10 DEF PickLoan
<1> QED BY <1>1, <1>2, <1>3, <1>4, <1>5, <1>6, <1>7, <1>8, <1>9, <1>10 DEF PickInput

\* A request is the nth of its window exactly when n - 1 came before it since the
\* window opened, swept or not, and a peek agrees with the request after it.
THEOREM WindowsAreCounted == Inputs => []WindowCountsItsOwn
<1>1. InitInput => WindowCountsItsOwn
  BY DEF InitInput, WindowCountsItsOwn, Chosen
<1>2. WindowCountsItsOwn /\ [PickInput]_input => WindowCountsItsOwn'
  <2>1. SUFFICES ASSUME PickInput, input'.kind = "requests"
                 PROVE  /\ CountsItsWindow(input'.times, input'.swept)
                        /\ \A now \in input'.times[Len(input'.times)] .. 10 :
                             PeekAgrees(input'.times, input'.swept, now)
    BY DEF WindowCountsItsOwn, Chosen
  <2>2. input'.times \in Seq(Nat) /\ InOrder(input'.times)
    BY <2>1, PickedInputs
  <2>3. CountsItsWindow(input'.times, input'.swept)
    BY <2>2, CountsEveryWindow
  <2>4. ASSUME NEW now \in input'.times[Len(input'.times)] .. 10
        PROVE  PeekAgrees(input'.times, input'.swept, now)
    <3>1. input'.times[Len(input'.times)] \in Nat
      <4>1. Len(input'.times) = 6
        BY <2>1, PickedInputs
      <4>2. input'.times[Len(input'.times)] \in Nat
        BY <2>2, <4>1, ElementIsIn
      <4> QED BY <4>2
    <3>2. now \in Nat
      BY <3>1
    <3> QED BY <2>2, <3>2, PeeksAgree
  <2> QED BY <2>3, <2>4
<1> QED BY <1>1, <1>2, PTL DEF Inputs

\* A redirect is followed only to where the caller could have gone by name, a bounded
\* number of times, and never takes credentials to another origin.
THEOREM RedirectsStayGuarded == Inputs => []RedirectsAreGuarded
<1>1. InitInput => RedirectsAreGuarded
  BY DEF InitInput, RedirectsAreGuarded, Chosen
<1>2. RedirectsAreGuarded /\ [PickInput]_input => RedirectsAreGuarded'
  <2>1. SUFFICES ASSUME PickInput, input'.kind = "site"
                 PROVE  FollowsSafely(input'.site, input'.mode, input'.url)
    BY DEF RedirectsAreGuarded, Chosen
  <2> QED BY <2>1, PickedInputs, FollowingIsSafe
<1> QED BY <1>1, <1>2, PTL DEF Inputs

\* A class is said to be outside its band for the months that were seen outside it on
\* that side without a break.
THEOREM OutsideIsEarned == Inputs => []MonthsOutsideAreEarned
<1>1. InitInput => MonthsOutsideAreEarned
  BY DEF InitInput, MonthsOutsideAreEarned, Chosen
<1>2. MonthsOutsideAreEarned /\ [PickInput]_input => MonthsOutsideAreEarned'
  <2>1. SUFFICES ASSUME PickInput, input'.kind = "history"
                 PROVE  CountIsEarned(input'.today, input'.history)
    BY DEF MonthsOutsideAreEarned, Chosen
  <2> QED BY <2>1, PickedInputs, MonthsAreEarned
<1> QED BY <1>1, <1>2, PTL DEF Inputs

\* An input is of the kind of the action that picked it.
LEMMA PickedByKind ==
  ASSUME PickInput
  PROVE  /\ input'.kind = "forecast" => PickForecast
         /\ input'.kind = "pool" => PickPool
         /\ input'.kind = "trend" => PickTrend
         /\ input'.kind = "loan" => PickLoan
         /\ input'.kind = "schedule" => PickSchedule
         /\ input'.kind = "recurrence" => PickRecurrence
         /\ input'.kind = "month" => PickMonth
<1>1. CASE PickRequests
  BY <1>1 DEF PickRequests
<1>2. CASE PickHistory
  BY <1>2 DEF PickHistory
<1>3. CASE PickSite
  BY <1>3 DEF PickSite
<1>4. CASE PickRecurrence
  <2>1. input'.kind = "recurrence"
    BY <1>4 DEF PickRecurrence
  <2> QED BY <1>4, <2>1
<1>5. CASE PickMonth
  <2>1. input'.kind = "month"
    BY <1>5 DEF PickMonth
  <2> QED BY <1>5, <2>1
<1>6. CASE PickSchedule
  <2>1. input'.kind = "schedule"
    BY <1>6 DEF PickSchedule, PickMonthly, PickDaily
  <2> QED BY <1>6, <2>1
<1>7. CASE PickForecast
  <2>1. input'.kind = "forecast"
    BY <1>7 DEF PickForecast
  <2> QED BY <1>7, <2>1
<1>8. CASE PickPool
  <2>1. input'.kind = "pool"
    BY <1>8 DEF PickPool
  <2> QED BY <1>8, <2>1
<1>9. CASE PickTrend
  <2>1. input'.kind = "trend"
    BY <1>9 DEF PickTrend
  <2> QED BY <1>9, <2>1
<1>10. CASE PickLoan
  <2>1. input'.kind = "loan"
    BY <1>10 DEF PickLoan
  <2> QED BY <1>10, <2>1
<1> QED BY <1>1, <1>2, <1>3, <1>4, <1>5, <1>6, <1>7, <1>8, <1>9, <1>10 DEF PickInput

\* A bill lands on its own months, and what is spent anyway leaves the account once.
THEOREM ForecastIsSpentOnce == Inputs => []ForecastSpendsOnce
<1>1. InitInput => ForecastSpendsOnce
  BY DEF InitInput, ForecastSpendsOnce, Chosen
<1>2. ForecastSpendsOnce /\ [PickInput]_input => ForecastSpendsOnce'
  <2>1. SUFFICES ASSUME PickInput, input'.kind = "forecast"
                 PROVE  /\ \A c \in input'.categories : BillsRecur(c)
                        /\ SpendsOnce(input'.categories, input'.typical)
    BY DEF ForecastSpendsOnce, Chosen
  <2>2. PickForecast
    BY <2>1, PickedByKind
  <2>3. PICK bill \in Categories({"quarterly", "annual", "irregular"}), baseline \in {NoBaseline, 0, 8},
             typical \in {0, 7, 8, 20, 50} :
          input' = [kind |-> "forecast", open |-> FALSE, typical |-> typical,
                    categories |-> {bill, [bill EXCEPT !.frequency = "monthly", !.nature = "fixed",
                                                       !.baseline = baseline]}]
    BY <2>2, ZenonT(40) DEF PickForecast
  <2> DEFINE rest == [bill EXCEPT !.frequency = "monthly", !.nature = "fixed", !.baseline = baseline]
  <2>4. Series \subseteq [1 - Detection .. 0 -> Int]
    BY DEF Series
  <2>5. bill \in CategoryRows
    BY <2>4 DEF Categories, CategoryRows, NoBaseline
  <2>6. rest \in CategoryRows
    <3>1. bill \in [nature : {"fixed", "income"}, frequency : {"monthly", "quarterly", "annual", "irregular"},
                    hidden : BOOLEAN, baseline : Int, series : [1 - Detection .. 0 -> Int]]
      BY <2>5 DEF CategoryRows
    <3>2. baseline \in Int
      BY DEF NoBaseline
    <3> QED BY <3>1, <3>2 DEF CategoryRows
  <2>7. input'.categories = {bill, rest} /\ input'.typical \in Int
    BY <2>3
  <2> HIDE DEF rest
  <2>8. IsFiniteSet({bill, rest}) /\ {bill, rest} \in SUBSET CategoryRows
    <3>1. IsFiniteSet({bill}) /\ {bill, rest} = {bill} \cup {rest}
      BY FS_Singleton
    <3> QED BY <2>5, <2>6, <3>1, FS_AddElement
  <2>9. \A c \in {bill, rest} : BillsRecur(c)
    BY <2>5, <2>6, BillsLandOnce
  <2>10. SpendsOnce({bill, rest}, input'.typical)
    BY <2>7, <2>8, SpentOnce
  <2> QED BY <2>7, <2>9, <2>10
<1> QED BY <1>1, <1>2, PTL DEF Inputs

\* Goals that share an envelope get all of it and no more, the more urgent at least as
\* much; a goal on a steady trend is reached in the month that was said, and saving what
\* is required reaches it on time. The run's goals are due in 1, 3 and 12 months.
THEOREM GoalsKept == ASSUME Common % 12 = 0 PROVE Inputs => []GoalsAreKept
<1>1. InitInput => GoalsAreKept
  BY DEF InitInput, GoalsAreKept, Chosen
<1>2. GoalsAreKept /\ [PickInput]_input => GoalsAreKept'
  <2>1. SUFFICES ASSUME PickInput
                 PROVE  /\ input'.kind = "pool" => PoolIsSplit(input'.pool, input'.goals)
                        /\ input'.kind = "trend" =>
                             /\ EtaHolds(input'.target, input'.rate, input'.from, input'.months)
                             /\ \A months \in {0, 1, 3, 12} : RequiredSuffices(input'.target, input'.from, months)
    BY DEF GoalsAreKept, Chosen
  <2>2. ASSUME input'.kind = "pool" PROVE PoolIsSplit(input'.pool, input'.goals)
    <3>1. PickPool
      BY <2>1, <2>2, PickedByKind
    <3>2. PICK goals \in UNION {[1 .. k -> GoalRows] : k \in 1 .. 3}, pool \in {-7, -1, 0, 1, 5, 10} :
            input' = [kind |-> "pool", open |-> FALSE, pool |-> pool, goals |-> goals]
      BY <3>1 DEF PickPool
    <3>3. PICK n \in 1 .. 3 : goals \in [1 .. n -> GoalRows]
      BY <3>2
    <3>4. ASSUME NEW g \in GoalRows PROVE g \in SavingsRows
      <4>1. g \in [target : Nat \ {0}, months : Int]
        BY DEF GoalRows
      <4>2. MonthsRemaining(g.months) \in {1, 3, 12}
        BY DEF GoalRows, MonthsRemaining, Greatest
      <4>3. Common % 1 = 0 /\ Common % 3 = 0 /\ Common % 12 = 0
        BY GoalsAssumption
      <4> QED BY <4>1, <4>2, <4>3 DEF SavingsRows
    <3>5. goals \in [1 .. n -> SavingsRows] /\ n \in Nat /\ n # 0
      BY <3>3, <3>4
    <3>6. goals \in Seq(SavingsRows) /\ Len(goals) = n
      BY <3>5, SequenceOfLength, Zenon
    <3>7. goals # <<>>
      BY <3>5, <3>6
    <3>8. pool \in Int /\ input'.pool = pool /\ input'.goals = goals
      BY <3>2
    <3> QED BY <3>6, <3>7, <3>8, PoolsAreSplit
  <2>3. ASSUME input'.kind = "trend"
        PROVE  /\ EtaHolds(input'.target, input'.rate, input'.from, input'.months)
               /\ \A months \in {0, 1, 3, 12} : RequiredSuffices(input'.target, input'.from, months)
    <3>1. PickTrend
      BY <2>1, <2>3, PickedByKind
    <3>2. /\ input'.target \in Int /\ input'.rate \in Int /\ input'.from \in Int
          /\ input'.months \in SUBSET (0 .. 6) /\ input'.months # {}
      BY <3>1 DEF PickTrend
    <3>3. IsFiniteSet(input'.months) /\ input'.months \in SUBSET Int
      <4>1. IsFiniteSet(0 .. 6)
        <5>1. 0 \in Int /\ 6 \in Int
          OBVIOUS
        <5> QED BY <5>1, FS_Interval, Zenon
      <4> QED BY <3>2, <4>1, FS_Subset
    <3>4. EtaHolds(input'.target, input'.rate, input'.from, input'.months)
      BY <3>2, <3>3, GoalsAreReached
    <3>5. ASSUME NEW months \in {0, 1, 3, 12} PROVE RequiredSuffices(input'.target, input'.from, months)
      BY <3>2, SavingReaches
    <3> QED BY <3>4, <3>5
  <2> QED BY <2>2, <2>3
<1> QED BY <1>1, <1>2, PTL DEF Inputs

\* The payoff date and the balance beside it agree, in a calendar that holds the run's
\* dates and terms.
THEOREM PayoffDatesAgree == ASSUME Len(MonthLengths) >= 7 PROVE Inputs => []PayoffAgreesWithBalance
<1>1. InitInput => PayoffAgreesWithBalance
  BY DEF InitInput, PayoffAgreesWithBalance, Chosen
<1>2. PayoffAgreesWithBalance /\ [PickInput]_input => PayoffAgreesWithBalance'
  <2>1. SUFFICES ASSUME PickInput, input'.kind = "loan", AnchoredEveryMonth(input'.loan),
                        input'.date >= input'.loan.anchor
                 PROVE  PayoffAgrees(input'.loan, input'.date)
    BY DEF PayoffAgreesWithBalance, Chosen
  <2>2. PickLoan
    BY <2>1, PickedByKind
  <2>3. PICK principal \in {0, 1, 48, 100}, day \in {1, 15, 28}, payment \in {0, 2, 4, 26, 50, 105}, term \in 0 .. 4,
             d \in On(1, 1) .. On(7, 1) :
          input' = [kind |-> "loan", open |-> FALSE, date |-> d,
                    loan |-> [principal |-> principal, anchor |-> On(1, day), payment |-> payment, term |-> term]]
    BY <2>2 DEF PickLoan
  <2>4. 1 \in Months /\ 7 \in Months
    BY MonthFacts
  <2>5. On(1, day) \in Dates /\ MonthOf(On(1, day)) = 1
    <3>1. day \in 1 .. MonthLengths[1]
      BY <2>4, MonthFacts
    <3> QED BY <2>4, <3>1, DatesAreOfOneMonth DEF On
  <2>6. d \in Dates
    <3>1. 1 \in 1 .. MonthLengths[1] /\ 1 \in 1 .. MonthLengths[7]
      BY <2>4, MonthFacts
    <3>2. On(1, 1) \in Dates /\ On(7, 1) \in Dates
      BY <2>4, <3>1, DatesAreOfOneMonth DEF On
    <3>3. EndOfMonth(Len(MonthLengths)) \in Int
      <4>1. Len(MonthLengths) \in Months
        BY MonthFacts
      <4> QED BY <4>1, MonthFacts, StartsFollow DEF EndOfMonth
    <3> QED BY <3>2, <3>3 DEF Dates
  <2>7. input'.loan \in LoanRows /\ input'.date = d /\ input'.loan.anchor = On(1, day) /\ input'.loan.term = term
    BY <2>3, <2>5 DEF LoanRows
  <2>8. MonthOf(input'.loan.anchor) + input'.loan.term \in Months
    <3>1. 1 + term \in 1 .. Len(MonthLengths)
      BY MonthFacts
    <3> QED BY <2>5, <2>7, <3>1, MonthFacts
  <2> QED BY <2>1, <2>6, <2>7, <2>8, PayoffsAgree
<1> QED BY <1>1, <1>2, PTL DEF Inputs

\* The hours of the run's first months are instants of the calendar.
LEMMA HoursAreInstants ==
  ASSUME Len(MonthLengths) >= 4
  PROVE  \E a, b, c, d, e, f, z \in Int :
           /\ On(1, 27) = a /\ On(2, 20) = b /\ On(2, 28) = c /\ On(2, 29) = d /\ On(3, 7) = e /\ On(3, 30) = f
           /\ On(4, 2) = z /\ a = 26 /\ a < b /\ b < c /\ c < d /\ c < e /\ d < f /\ e < f /\ f <= z
           /\ 0 .. 24 * z \subseteq Instants
<1>1. 1 \in Months /\ 2 \in Months /\ 3 \in Months /\ 4 \in Months
  BY MonthFacts
<1>2. PICK a, b, c \in Int : /\ a = MonthLengths[1] /\ b = MonthLengths[2] /\ c = MonthLengths[3]
                             /\ 28 <= a /\ a <= 31 /\ 28 <= b /\ b <= 31 /\ 28 <= c /\ c <= 31
  BY <1>1, MonthFacts
<1>3. /\ StartOfMonth[1] = 0 /\ StartOfMonth[2] = a /\ StartOfMonth[3] = a + b
      /\ StartOfMonth[4] = a + b + c
  <2>1. \A m \in Months : m + 1 \in Months => StartOfMonth[m + 1] = StartOfMonth[m] + MonthLengths[m]
    BY StartsFollow
  <2>2. StartOfMonth[1 + 1] = StartOfMonth[1] + MonthLengths[1] /\ StartOfMonth[1] = 0
    BY <1>1, <2>1, StartsFollow
  <2>3. StartOfMonth[2 + 1] = StartOfMonth[2] + MonthLengths[2]
    BY <1>1, <2>1
  <2>4. StartOfMonth[3 + 1] = StartOfMonth[3] + MonthLengths[3]
    BY <1>1, <2>1
  <2> QED BY <1>2, <2>2, <2>3, <2>4
<1>4. /\ On(1, 27) = 26 /\ On(2, 20) = a + 19 /\ On(2, 28) = a + 27 /\ On(2, 29) = a + 28
      /\ On(3, 7) = a + b + 6 /\ On(3, 30) = a + b + 29 /\ On(4, 2) = a + b + c + 1
  BY <1>2, <1>3 DEF On, DateOf
<1>5. PICK z \in Int : z = a + b + c + 1
  BY <1>2
<1>6. z \in Dates
  <2>1. 2 \in 1 .. MonthLengths[4]
    BY <1>1, MonthFacts
  <2>2. DateOf(4, 2) \in Dates
    BY <1>1, <2>1, DatesAreOfOneMonth
  <2>3. DateOf(4, 2) = z
    BY <1>2, <1>3, <1>5 DEF DateOf
  <2> QED BY <2>2, <2>3, Zenon
<1>7. ASSUME NEW t \in 0 .. 24 * z PROVE t \in Instants
  <2>1. PICK u \in Int : u = 24 * z
    BY <1>5
  <2>2. t \in Int /\ 0 <= t /\ t <= u
    BY <1>5, <2>1
  <2>3. DateIn(t) \in Int /\ DateIn(u) \in Int /\ DateIn(t) <= DateIn(u)
    BY <2>1, <2>2, LocalTime
  <2>4. 0 <= DateIn(t)
    <3>1. /\ LocalHours(t) \in Int /\ HourIn(t) \in 0 .. 23
          /\ LocalHours(t) = 24 * DateIn(t) + HourIn(t) /\ t <= LocalHours(t)
      BY <2>2, LocalTime
    <3>2. PICK y \in Int, n \in Int, h \in Int : y = LocalHours(t) /\ n = DateIn(t) /\ h = HourIn(t)
      BY <2>3, <3>1
    <3>3. y = 24 * n + h /\ t <= y
      BY <3>1, <3>2, Zenon
    <3>4. 0 <= h /\ h <= 23
      <4>1. HourIn(t) \in 0 .. 23
        BY <2>2, LocalTime
      <4>2. h \in 0 .. 23
        BY <3>2, <4>1, Zenon
      <4> QED BY <4>2
    <3>5. 0 <= n
      BY <2>2, <3>2, <3>3, <3>4
    <3> QED BY <3>2, <3>5
  <2>5. DateIn(u) = z
    <3>1. /\ LocalHours(u) \in Int /\ HourIn(u) \in 0 .. 23
          /\ LocalHours(u) = 24 * DateIn(u) + HourIn(u) /\ u <= LocalHours(u) /\ LocalHours(u) <= u + 1
      BY <2>1, LocalTime
    <3>2. PICK y \in Int, n \in Int, h \in Int : y = LocalHours(u) /\ n = DateIn(u) /\ h = HourIn(u)
      BY <2>3, <3>1
    <3>3. y = 24 * n + h /\ u <= y /\ y <= u + 1
      BY <3>1, <3>2, Zenon
    <3>4. 0 <= h /\ h <= 23
      <4>1. HourIn(u) \in 0 .. 23
        BY <2>1, LocalTime
      <4>2. h \in 0 .. 23
        BY <3>2, <4>1, Zenon
      <4> QED BY <4>2
    <3>5. n = z
      BY <1>5, <2>1, <3>2, <3>3, <3>4, SMTT(30)
    <3> QED BY <3>2, <3>5
  <2>6. EndOfMonth(Len(MonthLengths)) \in Int
    <3>1. Len(MonthLengths) \in Months
      BY MonthFacts
    <3> QED BY <3>1, MonthFacts, StartsFollow DEF EndOfMonth
  <2>7. DateIn(t) \in Dates
    BY <1>6, <2>3, <2>4, <2>5, <2>6 DEF Dates
  <2> QED BY <2>2, <2>7 DEF Instants
<1>8. 0 .. 24 * z \subseteq Instants
  BY <1>7
<1>9. 26 \in Int /\ a + 19 \in Int /\ a + 27 \in Int /\ a + 28 \in Int /\ a + b + 6 \in Int /\ a + b + 29 \in Int
  BY <1>2, SMTT(30)
<1>10. On(4, 2) = z
  BY <1>4, <1>5, Zenon
<1>11. 28 <= a /\ 28 <= b /\ 28 <= c
  BY <1>2
<1>12. 26 < a + 19 /\ a + 19 < a + 27 /\ a + 27 < a + 28
  BY <1>11
<1>13. a + 27 < a + b + 6 /\ a + 28 < a + b + 29 /\ a + b + 6 < a + b + 29
  BY <1>11
<1>14. a + b + 29 <= z
  BY <1>5, <1>11
<1>15. PICK k, l, m, n, p, q \in Int : /\ k = 26 /\ l = a + 19 /\ m = a + 27 /\ n = a + 28
                                       /\ p = a + b + 6 /\ q = a + b + 29
  BY <1>9
<1>16. On(1, 27) = k /\ On(2, 20) = l /\ On(2, 28) = m /\ On(2, 29) = n /\ On(3, 7) = p /\ On(3, 30) = q
  BY <1>4, <1>15, Zenon
<1>17. k = 26 /\ k < l /\ l < m /\ m < n /\ m < p /\ n < q /\ p < q /\ q <= z
  BY <1>12, <1>13, <1>14, <1>15, Zenon
<1> QED BY <1>8, <1>10, <1>16, <1>17, Zenon

\* Every slot in which the ticker is up at the due hour or after it has its one run, and a
\* daily job's next run is found, where the clock does not skip the hour 23.
THEOREM SlotRunsKept ==
  ASSUME Len(MonthLengths) >= 4, SummerFrom % 24 # 23, ProbeHorizon >= 48
  PROVE  Inputs => []SlotsRunOnce
<1>1. InitInput => SlotsRunOnce
  BY DEF InitInput, SlotsRunOnce, Chosen
<1>2. SlotsRunOnce /\ [PickInput]_input => SlotsRunOnce'
  <2>1. SUFFICES ASSUME PickInput, input'.kind = "schedule"
                 PROVE  /\ KeepsSlots(input'.s, input'.ticks, input'.byHand, input'.last)
                        /\ input'.s.kind = "daily" => NextIsFound(input'.s, input'.byHand)
    BY DEF SlotsRunOnce, Chosen
  <2>2. PickSchedule
    BY <2>1, PickedByKind
  <2>3. PICK a, b, c, d, e, f, z \in Int :
          /\ On(1, 27) = a /\ On(2, 20) = b /\ On(2, 28) = c /\ On(2, 29) = d /\ On(3, 7) = e /\ On(3, 30) = f
          /\ On(4, 2) = z /\ a = 26 /\ a < b /\ b < c /\ c < d /\ c < e /\ d < f /\ e < f /\ f <= z
          /\ 0 .. 24 * z \subseteq Instants
    BY HoursAreInstants, Zenon
  <2>4. ASSUME NEW ticks, NEW from \in Int, NEW to \in Int, NEW last \in Int, NEW byHand \in Int, NEW s \in SlotSchedules,
               ticks \subseteq from .. to, last < from, 0 <= last, to <= 24 * z, 0 <= byHand, byHand <= 24 * z,
               last <= 24 * z
        PROVE  KeepsSlots(s, ticks, byHand, last)
    <3>1. IsFiniteSet(ticks)
      BY <2>4, FS_Interval, FS_Subset
    <3>2. PICK top \in Int : top = 24 * z
      BY <2>3
    <3>3. 0 .. top \subseteq Instants
      BY <2>3, <3>2, Zenon
    <3>4. ticks \in SUBSET Instants /\ \A t \in ticks : t > last
      BY <2>4, <3>2, <3>3
    <3>5. last \in Instants /\ byHand \in Instants
      BY <2>4, <3>2, <3>3
    <3> QED BY <2>4, <3>1, <3>4, <3>5, SlotsAreKept
  <2>5. CASE PickMonthly
    <3>1. PICK day \in {1, 28, 29, 31}, hour \in {0, 3, 23}, off \in {{}, 24 * On(2, 28) .. 24 * On(3, 2) + 2},
               byHand \in {24 * On(1, 27) - 1, 24 * On(2, 20), 24 * On(2, 29) + 1, 24 * On(3, 30)} :
            input' = [kind |-> "schedule", open |-> FALSE, ticks |-> MonthlyTicks \ off, byHand |-> byHand,
                      last |-> 24 * On(1, 27) - 1, s |-> [kind |-> "monthly", day |-> day, hour |-> hour]]
      BY <2>5 DEF PickMonthly
    <3>2. /\ input'.s = [kind |-> "monthly", day |-> day, hour |-> hour] /\ input'.ticks = MonthlyTicks \ off
          /\ input'.byHand = byHand /\ input'.last = 24 * On(1, 27) - 1
      BY <3>1
    <3>3. input'.s \in SlotSchedules /\ input'.s.kind # "daily"
      BY <3>2 DEF SlotSchedules
    <3>4. MonthlyTicks = 24 * a .. 24 * z /\ input'.last = 24 * a - 1
      BY <2>3, <3>2, Zenon DEF MonthlyTicks
    <3>5. input'.ticks \subseteq 24 * a .. 24 * z
      BY <3>2, <3>4, Zenon
    <3>6. byHand = 24 * a - 1 \/ byHand = 24 * b \/ byHand = 24 * d + 1 \/ byHand = 24 * f
      BY <2>3, Zenon
    <3>7. byHand \in Int /\ 0 <= byHand /\ byHand <= 24 * z
      BY <2>3, <3>6, SMTT(30)
    <3>8. /\ 24 * a \in Int /\ 24 * z \in Int /\ 24 * a - 1 \in Int /\ 24 * a - 1 < 24 * a
          /\ 0 <= 24 * a - 1 /\ 24 * a - 1 <= 24 * z /\ 24 * z <= 24 * z
      BY <2>3
    <3>9. KeepsSlots(input'.s, input'.ticks, byHand, 24 * a - 1)
      BY <2>4, <3>3, <3>5, <3>7, <3>8
    <3> QED BY <3>2, <3>3, <3>4, <3>9
  <2>6. CASE PickDaily
    <3>1. PICK hour \in {0, 1, 2, 3, 23}, off \in {{}, 24 * On(3, 1) .. 24 * On(3, 3) + 5}, byHand \in DailyTicks :
            input' = [kind |-> "schedule", open |-> FALSE, ticks |-> DailyTicks \ off, byHand |-> byHand,
                      last |-> 24 * On(2, 28) - 1, s |-> [kind |-> "daily", hour |-> hour]]
      BY <2>6 DEF PickDaily
    <3>2. /\ input'.s = [kind |-> "daily", hour |-> hour] /\ input'.ticks = DailyTicks \ off
          /\ input'.byHand = byHand /\ input'.last = 24 * On(2, 28) - 1
      BY <3>1
    <3>3. input'.s \in SlotSchedules /\ input'.s.kind = "daily" /\ input'.s.hour = hour /\ hour \in 0 .. 23
      BY <3>2 DEF SlotSchedules
    <3>4. DailyTicks = 24 * c .. 24 * e /\ input'.last = 24 * c - 1
      BY <2>3, <3>2, Zenon DEF DailyTicks
    <3>5. input'.ticks \subseteq 24 * c .. 24 * e /\ byHand \in 24 * c .. 24 * e
      BY <3>1, <3>2, <3>4, Zenon
    <3>6. byHand \in Int /\ 0 <= byHand /\ byHand <= 24 * z
      BY <2>3, <3>5
    <3>7. /\ 24 * c \in Int /\ 24 * e \in Int /\ 24 * c - 1 \in Int /\ 24 * c - 1 < 24 * c
          /\ 0 <= 24 * c - 1 /\ 24 * c - 1 <= 24 * z /\ 24 * e <= 24 * z
      BY <2>3
    <3>8. KeepsSlots(input'.s, input'.ticks, byHand, 24 * c - 1)
      BY <2>4, <3>3, <3>5, <3>6, <3>7
    <3>9. NextIsFound(input'.s, byHand)
      <4>1. byHand \in Nat
        BY <3>6
      <4>2. input'.s.hour \in 0 .. 23
        BY <3>3
      <4> QED BY <3>3, <4>1, <4>2, NextRunsAreFound
    <3> QED BY <3>2, <3>4, <3>8, <3>9
  <2> QED BY <2>2, <2>5, <2>6 DEF PickSchedule
<1> QED BY <1>1, <1>2, PTL DEF Inputs

\* The run's recurrences are recurrences, and its days are in its calendar.
LEMMA RunRecurrences ==
  ASSUME Len(MonthLengths) >= 15
  PROVE  Recurrences \subseteq RecurrenceRows
<1>1. 1 \in Months /\ 2 \in Months /\ 3 \in Months
  BY MonthFacts
<1>2. PICK a \in Int, b \in Int : a = MonthLengths[1] /\ b = MonthLengths[2] /\ 28 <= a /\ a <= 31 /\ 28 <= b /\ b <= 31
  BY <1>1, MonthFacts
<1>3. StartOfMonth[1] = 0 /\ StartOfMonth[2] = a /\ StartOfMonth[3] = a + b
  <2>1. \A m \in Months : m + 1 \in Months => StartOfMonth[m + 1] = StartOfMonth[m] + MonthLengths[m]
    BY StartsFollow
  <2>2. StartOfMonth[1 + 1] = StartOfMonth[1] + MonthLengths[1] /\ StartOfMonth[1] = 0
    BY <1>1, <2>1, StartsFollow
  <2>3. StartOfMonth[2 + 1] = StartOfMonth[2] + MonthLengths[2]
    BY <1>1, <2>1
  <2> QED BY <1>2, <2>2, <2>3
<1>4. /\ On(1, 1) = 0 /\ On(1, 29) = 28 /\ On(1, 30) = 29 /\ On(1, 31) = 30
      /\ On(2, 27) = a + 26 /\ On(2, 29) = a + 28
  BY <1>2, <1>3 DEF On, DateOf
<1>5. PICK c \in Int : c = a + b /\ c \in Dates
  <2>1. 1 \in 1 .. MonthLengths[3]
    BY <1>1, MonthFacts
  <2>2. DateOf(3, 1) \in Dates
    BY <1>1, <2>1, DatesAreOfOneMonth
  <2>3. DateOf(3, 1) = a + b
    BY <1>2, <1>3 DEF DateOf
  <2>4. a + b \in Int
    BY <1>2
  <2> QED BY <2>2, <2>3, <2>4, Zenon
<1>6. \A d \in 0 .. c : d \in Dates
  <2>1. EndOfMonth(Len(MonthLengths)) \in Int
    <3>1. Len(MonthLengths) \in Months
      BY MonthFacts
    <3> QED BY <3>1, MonthFacts, StartsFollow DEF EndOfMonth
  <2> QED BY <1>5, <2>1 DEF Dates
<1>7. 0 \in 0 .. c /\ 28 \in 0 .. c /\ 29 \in 0 .. c /\ 30 \in 0 .. c /\ a + 28 \in 0 .. c
  BY <1>2, <1>5, SMTT(30)
<1>8. {On(1, 1), On(1, 29), On(1, 30), On(1, 31), On(2, 29)} \subseteq Dates
  <2>1. On(1, 1) \in Dates
    BY <1>4, <1>6, <1>7, Zenon
  <2>2. On(1, 29) \in Dates
    BY <1>4, <1>6, <1>7, Zenon
  <2>3. On(1, 30) \in Dates
    BY <1>4, <1>6, <1>7, Zenon
  <2>4. On(1, 31) \in Dates
    BY <1>4, <1>6, <1>7, Zenon
  <2>5. On(2, 29) \in Dates
    BY <1>4, <1>6, <1>7, Zenon
  <2> QED BY <2>1, <2>2, <2>3, <2>4, <2>5
<1>9. On(2, 27) \in Int
  BY <1>2, <1>4
<1>10. PatternSets \subseteq SUBSET PatternRows
  <2>1. /\ [value |-> -1, type |-> DayPattern] \in PatternRows /\ [value |-> 31, type |-> DayPattern] \in PatternRows
        /\ [value |-> 5, type |-> 5] \in PatternRows /\ [value |-> 1, type |-> 0] \in PatternRows
        /\ [value |-> 15, type |-> DayPattern] \in PatternRows /\ [value |-> -1, type |-> 6] \in PatternRows
    BY DEF PatternRows, DayPattern
  <2> HIDE DEF PatternRows
  <2> QED BY <2>1 DEF PatternSets
<1>11. ASSUME NEW r \in Recurrences PROVE r \in RecurrenceRows
  <2> DEFINE starts == {On(1, 1), On(1, 29), On(1, 30), On(1, 31), On(2, 29)}
             untils == {Endless, On(2, 27)}
  <2>1. starts \subseteq Dates
    BY <1>8
  <2>2. untils \subseteq Int
    BY <1>9 DEF Endless
  <2>3. {1, 2} \subseteq Nat \ {0} /\ {Endless, 2} \subseteq Nat \cup {Endless}
    OBVIOUS
  <2>4. r \in [frequency : Frequencies, interval : {1, 2}, patterns : PatternSets, weekend : {"kept", "before", "after"},
               start : starts, limit : {Endless, 2}, until : untils]
    BY <1>11 DEF Recurrences
  <2> HIDE DEF starts, untils
  <2> QED BY <1>10, <2>1, <2>2, <2>3, <2>4 DEF RecurrenceRows
<1> QED BY <1>11

\* A window that ends with a month, and the slack after it, is in the calendar.
LEMMA WindowsAreInside ==
  ASSUME ScanSlack <= 28, NEW m \in Months, m + 1 \in Months
  PROVE  /\ StartOfMonth[m] \in Int /\ EndOfMonth(m) \in Int
         /\ EndOfMonth(m) + ScanSlack \in Dates
<1>1. PICK s \in Int, L \in Int, e \in Int, k \in Int :
        /\ s = StartOfMonth[m] /\ L = MonthLengths[m] /\ e = StartOfMonth[m + 1] /\ k = MonthLengths[m + 1]
        /\ e = s + L /\ 28 <= L /\ 28 <= k /\ 0 <= s
  BY MonthFacts, StartsFollow, StartsRise
<1>2. EndOfMonth(m) = e - 1 /\ EndOfMonth(m) \in Int
  BY <1>1 DEF EndOfMonth
<1>3. PICK slack \in Nat : slack = ScanSlack /\ slack <= 28
  BY CommittedAssumption
<1>4. e + k - 1 \in Dates
  <2>1. k \in 1 .. MonthLengths[m + 1]
    BY <1>1
  <2>2. DateOf(m + 1, k) \in Dates
    BY <2>1, DatesAreOfOneMonth
  <2>3. DateOf(m + 1, k) = e + k - 1
    BY <1>1 DEF DateOf
  <2> QED BY <2>2, <2>3, Zenon
<1>5. e - 1 + slack \in Dates
  <2>1. EndOfMonth(Len(MonthLengths)) \in Int
    <3>1. Len(MonthLengths) \in Months
      BY MonthFacts
    <3> QED BY <3>1, MonthFacts, StartsFollow DEF EndOfMonth
  <2>2. PICK last \in Int : Dates = 0 .. last
    BY <2>1 DEF Dates
  <2>3. e + k - 1 <= last
    BY <1>4, <2>2
  <2>4. 0 <= e - 1 + slack /\ e - 1 + slack <= last /\ e - 1 + slack \in Int
    <3>1. 28 <= e /\ 28 <= k /\ slack <= 28 /\ 0 <= slack
      BY <1>1, <1>3
    <3>2. e - 1 + slack <= e + k - 1 /\ 0 <= e - 1 + slack
      BY <3>1
    <3> QED BY <2>3, <3>2
  <2> QED BY <2>2, <2>4
<1> QED BY <1>1, <1>2, <1>3, <1>5

\* A scheduled payment is expanded to exactly the dates its recurrence names, and what a
\* month still owes counts each of them once, in a calendar that holds the run's months.
THEOREM PaymentsOwedOnce ==
  ASSUME Len(MonthLengths) >= 15, ScanSlack \in 2 .. 28
  PROVE  Inputs => []PaymentsAreOwedOnce
<1>1. InitInput => PaymentsAreOwedOnce
  BY DEF InitInput, PaymentsAreOwedOnce, Chosen
<1>2. PaymentsAreOwedOnce /\ [PickInput]_input => PaymentsAreOwedOnce'
  <2>1. SUFFICES ASSUME PickInput
                 PROVE  /\ input'.kind = "recurrence" =>
                             ExpandsRight(input'.r, StartOfMonth[input'.month], EndOfMonth(input'.month))
                        /\ input'.kind = "month" =>
                             /\ \A i \in DOMAIN input'.schedules :
                                  LET s == input'.schedules[i]
                                  IN Costs(s) => SplitsRight(s, MonthOf(input'.today), input'.today)
                             /\ AddsUp(input'.schedules, MonthOf(input'.today), input'.today)
    BY DEF PaymentsAreOwedOnce, Chosen
  <2>2. ASSUME input'.kind = "recurrence"
        PROVE  ExpandsRight(input'.r, StartOfMonth[input'.month], EndOfMonth(input'.month))
    <3>1. PickRecurrence
      BY <2>1, <2>2, PickedByKind
    <3>2. PICK r \in Recurrences, m \in {2, 3, 14} :
            Sensible(r) /\ input' = [kind |-> "recurrence", r |-> r, month |-> m, open |-> FALSE]
      BY <3>1 DEF PickRecurrence
    <3>3. r \in RecurrenceRows
      BY RunRecurrences
    <3>4. r.frequency = "once" => r.limit = Endless /\ r.until = Endless
      BY <3>2 DEF Sensible
    <3>5. m \in Months /\ m + 1 \in Months
      BY MonthFacts
    <3>6. StartOfMonth[m] \in Int /\ EndOfMonth(m) \in Int /\ EndOfMonth(m) + ScanSlack \in Dates
      BY <3>5, WindowsAreInside
    <3>7. ScanSlack >= 2
      OBVIOUS
    <3>8. ExpandsRight(r, StartOfMonth[m], EndOfMonth(m))
      BY <3>3, <3>4, <3>6, <3>7, ExpandsInFull
    <3>9. input'.r = r /\ input'.month = m
      BY <3>2
    <3> QED BY <3>8, <3>9, Zenon
  <2>3. ASSUME input'.kind = "month"
        PROVE  /\ \A i \in DOMAIN input'.schedules :
                    LET s == input'.schedules[i]
                    IN Costs(s) => SplitsRight(s, MonthOf(input'.today), input'.today)
               /\ AddsUp(input'.schedules, MonthOf(input'.today), input'.today)
    <3>1. PickMonth
      BY <2>1, <2>3, PickedByKind
    <3>2. PICK paid \in 0 .. 3, day \in {1, 12, 14, 29}, next \in {On(2, 13), On(3, 1)}, c \in {"none", "rent"},
               r \in {r \in Recurrences : Sensible(r) /\ r.weekend # "kept" /\ r.frequency \in {"weekly", "monthly"}
                                           /\ r.limit = Endless /\ r.until = Endless} :
            input' = [kind |-> "month", open |-> FALSE, today |-> On(2, day),
                      schedules |-> <<[completed |-> FALSE, amount |-> -7, recurrence |-> r, paid |-> paid,
                                       nextDate |-> next, category |-> c],
                                      [completed |-> FALSE, amount |-> -5, paid |-> 0, nextDate |-> next, category |-> "rent",
                                       recurrence |-> [r EXCEPT !.start = On(1, 1), !.interval = 1]],
                                      [completed |-> TRUE, amount |-> -3, recurrence |-> r, paid |-> 0,
                                       nextDate |-> next, category |-> c]>>]
      BY <3>1 DEF PickMonth
    <3>3. PICK s, t, u :
            /\ s = [completed |-> FALSE, amount |-> -7, recurrence |-> r, paid |-> paid, nextDate |-> next, category |-> c]
            /\ t = [completed |-> FALSE, amount |-> -5, paid |-> 0, nextDate |-> next, category |-> "rent",
                    recurrence |-> [r EXCEPT !.start = On(1, 1), !.interval = 1]]
            /\ u = [completed |-> TRUE, amount |-> -3, recurrence |-> r, paid |-> 0, nextDate |-> next, category |-> c]
      OBVIOUS
    <3>4. input'.today = On(2, day) /\ input'.schedules = <<s, t, u>>
      BY <3>2, <3>3, Zenon
    <3>5. /\ s.recurrence = r /\ s.amount \in Int /\ s.paid \in Int
          /\ t.recurrence = [r EXCEPT !.start = On(1, 1), !.interval = 1] /\ t.amount \in Int /\ t.paid \in Int
          /\ ~Costs(u)
      BY <3>3 DEF Costs
    <3>6. r \in RecurrenceRows
      BY RunRecurrences
    <3>7. t.recurrence \in RecurrenceRows
      <4>1. On(1, 1) \in Dates
        <5>1. 1 \in Months /\ 1 \in 1 .. MonthLengths[1]
          BY MonthFacts
        <5> QED BY <5>1, DatesAreOfOneMonth DEF On
      <4>2. 1 \in Nat \ {0}
        OBVIOUS
      <4>3. PICK first \in Dates : first = On(1, 1)
        BY <4>1
      <4>4. [r EXCEPT !.start = first, !.interval = 1] \in RecurrenceRows
        BY <3>6, <4>2, <4>3 DEF RecurrenceRows
      <4> QED BY <3>5, <4>3, <4>4, Zenon
    <3>8. PICK on \in Dates : on = On(2, day) /\ MonthOf(on) + 1 \in Months /\ MonthOf(on) \in Months
      <4>1. 2 \in Months /\ 3 \in Months /\ 4 \in Months
        BY MonthFacts
      <4>2. PICK a \in Int, b \in Int : a = StartOfMonth[2] /\ b = MonthLengths[2] /\ 28 <= b /\ 0 <= a
        BY <4>1, MonthFacts, StartsFollow, StartsRise
      <4>3. StartOfMonth[2 + 1] = a + b
        BY <4>1, <4>2, StartsFollow
      <4>4. PICK third \in Dates : third = a + b /\ MonthOf(third) = 3
        <5>1. 1 \in 1 .. MonthLengths[3]
          BY <4>1, MonthFacts
        <5>2. DateOf(3, 1) \in Dates /\ MonthOf(DateOf(3, 1)) = 3
          BY <4>1, <5>1, DatesAreOfOneMonth
        <5>3. DateOf(3, 1) = a + b
          BY <4>2, <4>3 DEF DateOf
        <5> QED BY <5>2, <5>3, Zenon
      <4>5. PICK picked \in Int : picked = On(2, day) /\ picked = a + day - 1 /\ 0 <= picked /\ picked <= a + b
        BY <4>2, SMTT(30) DEF On, DateOf
      <4>6. EndOfMonth(Len(MonthLengths)) \in Int
        <5>1. Len(MonthLengths) \in Months
          BY MonthFacts
        <5> QED BY <5>1, MonthFacts, StartsFollow DEF EndOfMonth
      <4>7. picked \in Dates /\ picked <= third
        BY <4>2, <4>4, <4>5, <4>6 DEF Dates
      <4>8. MonthOf(picked) <= 3 /\ MonthOf(picked) \in Months
        BY <4>4, <4>7, MonthsFollowDates, MonthOfDate
      <4>9. MonthOf(picked) + 1 \in Months
        BY <4>8, MonthFacts
      <4> QED BY <4>5, <4>7, <4>8, <4>9
    <3>9. EndOfMonth(MonthOf(on)) + ScanSlack \in Dates
      BY <3>8, WindowsAreInside
    <3>10. Costs(s) => SplitsRight(s, MonthOf(on), on) /\ Remaining(s, MonthOf(on), on) \in Int
      BY <3>5, <3>6, <3>9, SplitsInFull
    <3>11. Costs(t) => SplitsRight(t, MonthOf(on), on) /\ Remaining(t, MonthOf(on), on) \in Int
      BY <3>5, <3>7, <3>9, SplitsInFull
    <3>12. \A row : ~Costs(row) => Remaining(row, MonthOf(on), on) = 0
      BY DEF Remaining
    <3>13. PICK schedules : schedules = <<s, t, u>>
      OBVIOUS
    <3>14. DOMAIN schedules = 1 .. 3 /\ \A i \in 1 .. 3 : schedules[i] \in {s, t, u}
      BY <3>13
    <3>15. \A i \in DOMAIN schedules :
             /\ Costs(schedules[i]) => SplitsRight(schedules[i], MonthOf(on), on)
             /\ Remaining(schedules[i], MonthOf(on), on) \in Int
      BY <3>5, <3>10, <3>11, <3>12, <3>14
    <3>16. IsFiniteSet(DOMAIN schedules)
      <4>1. 1 \in Int /\ 3 \in Int
        OBVIOUS
      <4> QED BY <3>14, <4>1, FS_Interval
    <3>17. AddsUp(schedules, MonthOf(on), on)
      BY <3>15, <3>16, CategoriesAddUp
    <3>18. input'.today = on /\ input'.schedules = schedules
      BY <3>4, <3>8, <3>13, Zenon
    <3> QED BY <3>15, <3>17, <3>18, Zenon
  <2> QED BY <2>1, <2>2, <2>3
<1> QED BY <1>1, <1>2, PTL DEF Inputs
=============================================================================
