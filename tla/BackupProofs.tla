---------------------------- MODULE BackupProofs ----------------------------
(***************************************************************************)
(* Proofs about Backup, for every retention, every number of restores,     *)
(* starts of the server and databases and any number of failing renames: a *)
(* restore loses no file and ends in one of three ways, a name in the      *)
(* directory is a whole snapshot, and of those the newest are kept.        *)
(*                                                                         *)
(* What a restore set out to replace is at its path or aside. It survives  *)
(* the moves because the restore knows what lies aside, even of the one    *)
(* move whose answer it cannot trust, and because what a server creates at *)
(* a path the restore has emptied has a number no restore has seen.        *)
(***************************************************************************)
EXTENDS Backup, FiniteSetTheorems, TLAPS

Catching == {"caught", "undoing", "undo"}
Moving == {"moving", "installing"}
Working == Moving \cup Catching

\* What was planned and SQLite has not taken since.
Kept(i) == <<i, restore.was[i]>> \in replaced
\* What no restore has set out to replace.
Fresh(d) == \A k \in Files : <<k, d>> \notin replaced

\* Numbers of databases are given out once.
Numbered ==
  /\ \A i \in Files : live[i] <= databases
  /\ \A n \in 1 .. MaxRestores, i \in Files : aside[n][i] <= databases
  /\ staging <= databases /\ restore.copy <= databases
  /\ replaced \subseteq Files \X (1 .. databases)

\* The names of restores to come are unused.
Unused ==
  /\ \A n \in 1 .. MaxRestores, i \in Files : n > restores => aside[n][i] = NoFile
  /\ restore.at # "idle" => restores \in 1 .. MaxRestores

\* Nothing has been moved until the first move, and nothing has failed.
Early ==
  /\ restore.at \in {"verified", "planned"} =>
       restore.moved = {} /\ \A i \in Files : aside[restores][i] = NoFile
  /\ restore.at \in {"verified", "planned"} \cup Moving =>
       restore.doing = 0 /\ restore.failures = {}
  /\ restore.at = "caught" => restore.failures = {}
  /\ restore.at = "moving" =>
       \A i \in restore.plan \ restore.moved : aside[restores][i] = NoFile

\* The plan is what was there; the restore moves that, and then the copy.
Sources ==
  restore.at \in {"planned"} \cup Working =>
    /\ restore.plan \subseteq Files /\ \A i \in restore.plan : restore.was[i] # NoFile
    /\ restore.moved \subseteq restore.plan \cup {Install}
    /\ restore.doing \in restore.plan \cup {0, Install}

\* The database is moved first, the copy last, and all goes back in reverse.
InOrder ==
  /\ restore.at \in Working /\ Main \in restore.plan /\ restore.moved # {} => Main \in restore.moved
  /\ restore.at = "caught" /\ Main \in restore.plan /\ restore.doing \notin {0, Main} =>
       Main \in restore.moved
  /\ restore.at = "installing" => restore.plan \subseteq restore.moved
  /\ restore.at = "caught" /\ restore.doing = Install => restore.plan \subseteq restore.moved
  /\ restore.at \in Working /\ Install \in restore.moved => restore.plan \subseteq restore.moved
  /\ restore.at = "undo" => restore.moved # {}

\* What came to a path that the restore has emptied came after the plan: no
\* restore has set out to replace it.
Newcomers ==
  /\ restore.at \in Working => Fresh(staging)
  /\ restore.at \in {"planned"} \cup Working /\ (Main \in restore.moved \/ Main \notin restore.plan)
       => Fresh(live[Main])
  /\ restore.at \in Working => \A i \in restore.moved \cap Files : <<i, live[i]>> \notin replaced

\* Where the files are that the restore must keep: the unmoved at their paths,
\* the moved aside, and of the one move whose answer cannot be trusted, what
\* lies aside tells whether it was made, until a server takes the path.
Unmoved ==
  restore.at \in {"planned", "caught"} \cup Moving =>
    \A i \in restore.plan \ restore.moved :
      i # restore.doing /\ Kept(i) => live[i] = restore.was[i]
LiesAside ==
  restore.at \in Working =>
    \A i \in restore.moved \cap Files : Kept(i) => aside[restores][i] = restore.was[i]
Doubtful ==
  restore.at = "caught" /\ restore.doing \in Files /\ Kept(restore.doing) =>
    \/ live[restore.doing] = restore.was[restore.doing] /\ aside[restores][restore.doing] = NoFile
    \/ /\ aside[restores][restore.doing] = restore.was[restore.doing]
       /\ live[restore.doing] = NoFile \/ restore.opened
IsBack(i) == \/ live[i] = restore.was[i]
             \/ restore.opened /\ i = restore.doing /\ aside[restores][i] = restore.was[i]
PutBack ==
  restore.at \in {"undoing", "undo"} =>
    \A i \in restore.plan \ (restore.moved \cup restore.failures) : Kept(i) => IsBack(i)

\* The copy is staged until it is installed, and again once that is undone.
Staged == staging = restore.copy /\ live[Main] # restore.copy
Installed == staging = NoFile /\ live[Main] = restore.copy
CopyIsPlaced ==
  /\ restore.at \in Working \cup {"done", "stuck"} => restore.copy # NoFile
  /\ restore.at \in Working => aside[restores][Main] # restore.copy
  /\ restore.at \in {"verified", "planned"} => restore.copy = NoFile /\ staging = NoFile
  /\ restore.at \in Moving => Staged /\ Install \notin restore.moved
  /\ restore.at = "caught" =>
       /\ Install \notin restore.moved
       /\ Staged \/ (restore.doing = Install /\ Installed)
  /\ restore.at \in {"undoing", "undo"} =>
       /\ Install \in restore.moved => Installed
       /\ Install \notin restore.moved \cup restore.failures => Staged
       /\ Staged \/ Installed
  /\ restore.at = "undo" /\ Undoing = Main => Staged

\* Only a server makes sidecars.
SidecarsGone ==
  restore.at \in {"planned"} \cup Working /\ ~restore.opened =>
    \A i \in Sidecars : i \in restore.moved \/ i \notin restore.plan => live[i] = NoFile

Whole ==
  /\ Numbered /\ Unused /\ Early /\ Sources /\ InOrder /\ Newcomers
  /\ Unmoved /\ LiesAside /\ Doubtful /\ PutBack /\ CopyIsPlaced /\ SidecarsGone
  /\ NothingIsLost /\ EndsDone /\ EndsFailed /\ EndsStuck /\ CopyStandsAlone
IInv == TypeOK /\ Whole

(***************************************************************************)
(* Types                                                                   *)
(***************************************************************************)
\* The least and the greatest of a few numbers are among them.
LEMMA LeastOf ==
  ASSUME NEW S \in SUBSET (1 .. 4), S # {}
  PROVE  Min(S) \in S /\ \A y \in S : Min(S) <= y
<1>1. \E x \in S : \A y \in S : x <= y
  <2>1. CASE 1 \in S
    BY <2>1
  <2>2. CASE 1 \notin S /\ 2 \in S
    BY <2>2
  <2>3. CASE 1 \notin S /\ 2 \notin S /\ 3 \in S
    BY <2>3
  <2>4. CASE 1 \notin S /\ 2 \notin S /\ 3 \notin S
    <3>1. S \subseteq {4}
      <4> SUFFICES ASSUME NEW x \in S PROVE x = 4
        OBVIOUS
      <4> QED BY <2>4
    <3>2. S = {4}
      BY <3>1
    <3> QED BY <3>2
  <2> QED BY <2>1, <2>2, <2>3, <2>4
<1> QED BY <1>1 DEF Min

LEMMA GreatestOf ==
  ASSUME NEW S \in SUBSET (1 .. 4), S # {}
  PROVE  Max(S) \in S /\ \A y \in S : y <= Max(S)
<1>1. \E x \in S : \A y \in S : x >= y
  <2>1. CASE 4 \in S
    BY <2>1
  <2>2. CASE 4 \notin S /\ 3 \in S
    BY <2>2
  <2>3. CASE 4 \notin S /\ 3 \notin S /\ 2 \in S
    BY <2>3
  <2>4. CASE 4 \notin S /\ 3 \notin S /\ 2 \notin S
    <3>1. S \subseteq {1}
      <4> SUFFICES ASSUME NEW x \in S PROVE x = 1
        OBVIOUS
      <4> QED BY <2>4
    <3>2. S = {1}
      BY <3>1
    <3> QED BY <3>2
  <2> QED BY <2>1, <2>2, <2>3, <2>4
<1> QED BY <1>1 DEF Max

\* The fields of the restore in progress.
LEMMA Fields ==
  ASSUME TypeOK
  PROVE  /\ restore \in RestoreRecords /\ restore.at \in RestoreStates /\ restore.opened \in BOOLEAN
         /\ restore.moved \in SUBSET (1 .. Install) /\ restore.plan \in SUBSET Files
         /\ restore.doing \in 0 .. Install /\ restore.failures \in SUBSET (1 .. Install)
         /\ restore.was \in [Files -> 0 .. MaxDatabases] /\ restore.copy \in 0 .. MaxDatabases
BY DEF TypeOK, RestoreRecords

\* What MoveAside moves next, and what Undo moves back.
LEMMA PendingMove ==
  ASSUME TypeOK, Pending # {}
  PROVE  /\ Min(Pending) \in restore.plan \ restore.moved
         /\ Main \in restore.plan \ restore.moved => Min(Pending) = Main
<1>1. Pending \in SUBSET (1 .. 4)
  BY Fields DEF Pending, Files
<1>2. Min(Pending) \in Pending /\ \A y \in Pending : Min(Pending) <= y
  BY <1>1, LeastOf
<1>3. Min(Pending) \in 1 .. 4
  BY <1>1, <1>2
<1> QED BY <1>2, <1>3 DEF Pending, Main

LEMMA MoveUndone ==
  ASSUME TypeOK, restore.moved # {}
  PROVE  /\ Undoing \in restore.moved /\ (Install \in restore.moved => Undoing = Install)
         /\ Undoing = Main => restore.moved = {Main}
<1>1. restore.moved \in SUBSET (1 .. 4)
  BY Fields DEF Install
<1>2. Undoing \in restore.moved /\ \A y \in restore.moved : y <= Undoing
  BY <1>1, GreatestOf DEF Undoing
<1> QED BY <1>1, <1>2 DEF Install, Main

\* One field of a record of the right type may be set to any other value of
\* the right type.
LEMMA SetJob ==
  ASSUME NEW r \in JobRecords
  PROVE  /\ \A x \in JobStates : [r EXCEPT !.at = x] \in JobRecords
         /\ \A x \in JobStates, d \in SUBSET Days :
              [r EXCEPT !.at = x, !.doomed = d] \in JobRecords
         /\ \A d \in SUBSET Days : [r EXCEPT !.doomed = d] \in JobRecords
BY DEF JobRecords

LEMMA SetRestore ==
  ASSUME NEW r \in RestoreRecords, NEW x \in RestoreStates
  PROVE  /\ [r EXCEPT !.at = x] \in RestoreRecords
         /\ \A c \in 0 .. MaxDatabases : [r EXCEPT !.at = x, !.copy = c] \in RestoreRecords
         /\ \A p \in SUBSET Files, a \in [Files -> 0 .. MaxDatabases] :
              [r EXCEPT !.at = x, !.plan = p, !.was = a] \in RestoreRecords
         /\ \A m \in SUBSET (1 .. Install) : 
              /\ [r EXCEPT !.moved = m] \in RestoreRecords
              /\ [r EXCEPT !.at = x, !.moved = m] \in RestoreRecords
         /\ \A d \in 0 .. Install : [r EXCEPT !.at = x, !.doing = d] \in RestoreRecords
         /\ \A b \in BOOLEAN : [r EXCEPT !.opened = b] \in RestoreRecords
         /\ \A m \in SUBSET (1 .. Install), d \in 0 .. Install :
              [r EXCEPT !.at = x, !.doing = d, !.moved = m] \in RestoreRecords
         /\ \A m, f \in SUBSET (1 .. Install) :
              /\ [r EXCEPT !.moved = m, !.failures = f] \in RestoreRecords
              /\ [r EXCEPT !.at = x, !.moved = m, !.failures = f] \in RestoreRecords
BY DEF RestoreRecords

LEMMA Idle == IdleJob \in JobRecords
BY BackupAssumption DEF IdleJob, JobRecords, JobStates

LEMMA JobTypes ==
  ASSUME TypeOK, NEW j \in Jobs,
         \/ BeginBackup(j) \/ Vacuum(j) \/ VacuumEnds(j) \/ Encrypt(j) \/ EncryptEnds(j)
         \/ Publish(j) \/ FailBackup(j) \/ ListSnapshots(j) \/ Unlink(j) \/ EndBackup(j)
  PROVE  TypeOK'
<1>1. job[j] \in JobRecords /\ job[j].name \in 0 .. MaxClock /\ job[j].doomed \subseteq Days
  BY DEF TypeOK, JobRecords
<1>2. \A x \in JobStates : [job[j] EXCEPT !.at = x] \in JobRecords
  BY <1>1, SetJob
<1>3. ASSUME NEW x \in ScratchStates
      PROVE  [scratch EXCEPT ![job[j].name] = x] \in [Days -> ScratchStates]
  BY DEF TypeOK
<1>4. CASE BeginBackup(j)
  <2>1. [at |-> "vacuuming", name |-> now, doomed |-> {}] \in JobRecords
    BY BackupAssumption DEF JobRecords, JobStates, TypeOK, Days
  <2> QED BY <1>4, <2>1 DEF BeginBackup, TypeOK, volume, server, ScratchStates
<1>5. CASE Vacuum(j) \/ Encrypt(j)
  BY <1>3, <1>5 DEF Vacuum, Encrypt, SetScratch, ScratchStates, TypeOK, volume, server
<1>6. CASE VacuumEnds(j) \/ EncryptEnds(j)
  <2>1. /\ {"encrypting", "publishing"} \subseteq JobStates /\ {"plain", "sealed"} \subseteq ScratchStates
        /\ scratch' \in [Days -> ScratchStates]
        /\ \E x \in {"encrypting", "publishing"} : job' = [job EXCEPT ![j].at = x]
        /\ UNCHANGED <<now, server, volume, databases, snapshots, restores, restore, faults, replaced>>
    BY <1>3, <1>6 DEF VacuumEnds, EncryptEnds, AtJob, SetScratch, ScratchStates, JobStates
  <2>2. job' \in [Jobs -> JobRecords]
    BY <1>2, <2>1 DEF TypeOK
  <2> QED BY <2>1, <2>2 DEF TypeOK, volume, server
<1>7. CASE Publish(j)
  BY <1>2, <1>3, <1>7 DEF Publish, AtJob, SetScratch, ScratchStates, JobStates, TypeOK, volume,
     server
<1>8. CASE FailBackup(j)
  BY <1>3, <1>8, Idle DEF FailBackup, SetScratch, ScratchStates, TypeOK, volume, server
<1>9. CASE ListSnapshots(j)
  <2>1. Doomed(Present(snapshots), job[j].name) \subseteq Days
    BY DEF Doomed, Present
  <2>2. [job[j] EXCEPT !.at = "unlinking", !.doomed = Doomed(Present(snapshots), job[j].name)]
          \in JobRecords
    BY <1>1, <2>1, SetJob DEF JobStates
  <2> QED BY <1>9, <2>2 DEF ListSnapshots, TypeOK, volume, server
<1>10. CASE Unlink(j)
  <2>1. [job[j] EXCEPT !.doomed = job[j].doomed \ {Min(job[j].doomed)}] \in JobRecords
    BY <1>1, SetJob
  <2> QED BY <1>10, <2>1, Idle DEF Unlink, Present, TypeOK, volume, server
<1>11. CASE EndBackup(j)
  BY <1>11, Idle DEF EndBackup, TypeOK, volume, server
<1> QED BY <1>4, <1>5, <1>6, <1>7, <1>8, <1>9, <1>10, <1>11

\* Both ways of a move keep the types of what lies where.
LEMMA MoveTypes ==
  ASSUME TypeOK, NEW i \in 1 .. Install, i # Install => i \in Files /\ restores \in 1 .. MaxRestores,
         Forth(i) \/ Back(i)
  PROVE  /\ live' \in [Files -> 0 .. MaxDatabases]
         /\ aside' \in [1 .. MaxRestores -> [Files -> 0 .. MaxDatabases]]
         /\ staging' \in 0 .. MaxDatabases
<1>1. NoFile \in 0 .. MaxDatabases /\ Main \in Files
  BY BackupAssumption DEF NoFile, Main, Files
<1>2. CASE i = Install
  BY <1>1, <1>2 DEF Forth, Back, TypeOK
<1>3. CASE i # Install
  <2>1. i \in Files /\ live[i] \in 0 .. MaxDatabases
        /\ aside[restores] \in [Files -> 0 .. MaxDatabases]
        /\ aside[restores][i] \in 0 .. MaxDatabases
    BY <1>3 DEF TypeOK
  <2>2. CASE Forth(i)
    <3>1. [aside[restores] EXCEPT ![i] = live[i]] \in [Files -> 0 .. MaxDatabases]
      BY <2>1
    <3> QED BY <1>1, <1>3, <2>1, <2>2, <3>1 DEF Forth, Preserved, TypeOK
  <2>3. CASE Back(i)
    <3>1. [aside[restores] EXCEPT ![i] = NoFile] \in [Files -> 0 .. MaxDatabases]
      BY <1>1, <2>1
    <3> QED BY <1>1, <1>3, <2>1, <2>3, <3>1 DEF Back, TypeOK
  <2> QED BY <2>2, <2>3
<1> QED BY <1>2, <1>3

LEMMA FaultTypes ==
  ASSUME TypeOK, Fault
  PROVE  faults' \in 0 .. MaxFaults
BY BackupAssumption DEF TypeOK, Fault

LEMMA MoveForthTypes ==
  ASSUME TypeOK, NEW i \in 1 .. Install, i # Install => i \in Files /\ restores \in 1 .. MaxRestores,
         MoveForth(i)
  PROVE  /\ live' \in [Files -> 0 .. MaxDatabases]
         /\ aside' \in [1 .. MaxRestores -> [Files -> 0 .. MaxDatabases]]
         /\ staging' \in 0 .. MaxDatabases
         /\ restore' \in RestoreRecords
         /\ faults' \in 0 .. MaxFaults
<1>1. restore \in RestoreRecords /\ {"done", "caught"} \subseteq RestoreStates /\ i \in 0 .. Install
  BY DEF TypeOK, RestoreStates, Install
<1>2. restore.moved \cup {i} \in SUBSET (1 .. Install)
  BY Fields
<1>3. CASE /\ Forth(i) /\ UNCHANGED faults
           /\ restore' = IF i = Install THEN [restore EXCEPT !.at = "done"]
                         ELSE [restore EXCEPT !.moved = @ \cup {i}]
  <2>1. restore' \in RestoreRecords
    BY <1>1, <1>2, <1>3, SetRestore
  <2> QED BY <1>3, <2>1, MoveTypes DEF TypeOK
<1>4. CASE /\ Fault /\ (Forth(i) \/ UNCHANGED volume)
           /\ restore' = [restore EXCEPT !.at = "caught", !.doing = i]
  <2>1. restore' \in RestoreRecords
    BY <1>1, <1>4, SetRestore
  <2> QED BY <1>4, <2>1, MoveTypes, FaultTypes DEF TypeOK, volume
<1>5. CASE UNCHANGED <<volume, faults>> /\ restore' = [restore EXCEPT !.at = "caught", !.doing = i]
  <2>1. restore' \in RestoreRecords
    BY <1>1, <1>5, SetRestore
  <2> QED BY <1>5, <2>1 DEF TypeOK, volume
<1> QED BY <1>3, <1>4, <1>5 DEF MoveForth

\* A restore that began has a number, and one that undoes has what to undo.
Counted ==
  /\ restore.at # "idle" => restores \in 1 .. MaxRestores
  /\ restore.at = "undo" => restore.moved # {}

LEMMA RestoreTypes ==
  ASSUME TypeOK, Counted,
         \/ \E t \in Days : BeginRestore(t)
         \/ PlanRestore \/ Decrypt \/ MoveAside \/ CheckTarget \/ InstallCopy \/ Catch
         \/ CheckUndo \/ Undo \/ GiveUp \/ KillRestore
  PROVE  TypeOK'
<1>0. restore \in RestoreRecords /\ NoFile \in 0 .. MaxDatabases /\ 0 \in 0 .. Install
  BY BackupAssumption DEF TypeOK, NoFile, Install
<1>1. ASSUME NEW t \in Days, BeginRestore(t) PROVE TypeOK'
  <2>1. ASSUME NEW at \in RestoreStates
        PROVE  [NoRestore EXCEPT !.from = t, !.at = at] \in RestoreRecords
    <3>1. /\ t \in 0 .. MaxClock /\ NoFile \in 0 .. MaxDatabases /\ {} \in SUBSET (1 .. Install)
          /\ [i \in Files |-> NoFile] \in [Files -> 0 .. MaxDatabases] /\ 0 \in 0 .. Install
      BY BackupAssumption DEF Days, NoFile, Install
    <3> QED BY <3>1 DEF NoRestore, RestoreRecords
  <2>2. restore' \in RestoreRecords
    BY <1>1, <2>1 DEF BeginRestore, RestoreStates
  <2>3. restores' \in 0 .. MaxRestores
    <3>1. restores < MaxRestores /\ restores' = restores + 1
      BY <1>1 DEF BeginRestore
    <3>2. restores \in Nat
      BY BackupAssumption DEF TypeOK
    <3> QED BY <3>1, <3>2, BackupAssumption
  <2> QED BY <1>0, <1>1, <2>2, <2>3 DEF BeginRestore, TypeOK, backups, server
<1>2. CASE PlanRestore
  <2>1. restore' \in RestoreRecords
    BY <1>0, <1>2, SetRestore DEF PlanRestore, TypeOK, RestoreStates
  <2>2. replaced' \subseteq Files \X (1 .. MaxDatabases)
    BY <1>2 DEF PlanRestore, TypeOK, NoFile
  <2> QED BY <1>2, <2>1, <2>2 DEF PlanRestore, TypeOK, backups, volume, server
<1>3. CASE Decrypt
  <2>1. databases + 1 \in 1 .. MaxDatabases \/ databases = MaxDatabases
    BY BackupAssumption DEF TypeOK
  <2>2. restore' \in RestoreRecords
    <3>1. \/ databases < MaxDatabases /\ restore' = [restore EXCEPT !.at = "moving", !.copy = databases + 1]
          \/ restore' = [restore EXCEPT !.at = "failed"]
      BY <1>3 DEF Decrypt
    <3>2. databases < MaxDatabases => databases + 1 \in 0 .. MaxDatabases
      BY <2>1, BackupAssumption
    <3>3. {"moving", "failed"} \subseteq RestoreStates
      BY DEF RestoreStates
    <3>4. [restore EXCEPT !.at = "failed"] \in RestoreRecords
      BY <1>0, <3>3, SetRestore
    <3>5. databases < MaxDatabases =>
            [restore EXCEPT !.at = "moving", !.copy = databases + 1] \in RestoreRecords
      BY <1>0, <3>2, <3>3, SetRestore
    <3> QED BY <3>1, <3>4, <3>5
  <2> QED BY <1>3, <2>1, <2>2, BackupAssumption DEF Decrypt, TypeOK, backups, server
<1>4. CASE MoveAside
  <2>1. Min(Pending) \in 1 .. Install /\ Min(Pending) \in Files /\ restores \in 1 .. MaxRestores
    BY <1>4, PendingMove, Fields DEF MoveAside, Counted, Files, Install
  <2> QED BY <1>4, <2>1, MoveForthTypes DEF MoveAside, TypeOK, backups, server
<1>5. CASE CheckTarget
  <2>1. restore' \in RestoreRecords
    BY <1>0, <1>5, SetRestore DEF CheckTarget, RestoreStates
  <2> QED BY <1>5, <2>1 DEF CheckTarget, TypeOK, backups, volume, server
<1>6. CASE InstallCopy
  <2>1. Install \in 1 .. Install
    BY DEF Install
  <2> QED BY <1>6, <2>1, MoveForthTypes DEF InstallCopy, TypeOK, backups, server
<1>7. CASE Catch
  <2>1. restore.doing # 0 => restore.moved \cup {restore.doing} \in SUBSET (1 .. Install)
    BY Fields DEF Install
  <2>2. /\ restore.moved \in SUBSET (1 .. Install) /\ "undoing" \in RestoreStates
        /\ \E m \in {restore.moved, restore.moved \cup {restore.doing}} :
             /\ m = restore.moved \/ restore.doing # 0
             /\ restore' = [restore EXCEPT !.at = "undoing", !.moved = m]
    BY <1>7, Fields DEF Catch, RestoreStates
  <2>3. PICK m \in {restore.moved, restore.moved \cup {restore.doing}} :
          /\ m = restore.moved \/ restore.doing # 0
          /\ restore' = [restore EXCEPT !.at = "undoing", !.moved = m]
    BY <2>2
  <2>4. m \in SUBSET (1 .. Install)
    BY <2>1, <2>2, <2>3
  <2>5. restore' \in RestoreRecords
    BY <1>0, <2>2, <2>3, <2>4, SetRestore
  <2> QED BY <1>7, <2>5 DEF Catch, TypeOK, backups, volume, server
<1>8. CASE CheckUndo
  <2>1. /\ restore.moved \ {Undoing} \in SUBSET (1 .. Install)
        /\ restore.failures \cup {Undoing} \in SUBSET (1 .. Install)
    BY <1>8, MoveUndone, Fields DEF CheckUndo
  <2>2. restore' \in RestoreRecords
    BY <1>0, <1>8, <2>1, SetRestore DEF CheckUndo, RestoreStates
  <2> QED BY <1>8, <2>2 DEF CheckUndo, TypeOK, backups, volume, server
<1>9. CASE Undo
  <2>1. /\ restore.moved \ {Undoing} \in SUBSET (1 .. Install)
        /\ restore.failures \cup {Undoing} \in SUBSET (1 .. Install)
        /\ Undoing \in 1 .. Install
    BY <1>9, MoveUndone, Fields DEF Undo, Counted
  <2>2. restore' \in RestoreRecords
    <3>1. \/ restore' = [restore EXCEPT !.at = "undoing", !.moved = restore.moved \ {Undoing}]
          \/ restore' = [restore EXCEPT !.at = "undoing", !.moved = restore.moved \ {Undoing},
                                        !.failures = restore.failures \cup {Undoing}]
      BY <1>9 DEF Undo
    <3>2. "undoing" \in RestoreStates
      BY DEF RestoreStates
    <3>3. [restore EXCEPT !.at = "undoing", !.moved = restore.moved \ {Undoing}] \in RestoreRecords
      BY <1>0, <2>1, <3>2, SetRestore
    <3>4. [restore EXCEPT !.at = "undoing", !.moved = restore.moved \ {Undoing},
                          !.failures = restore.failures \cup {Undoing}] \in RestoreRecords
      BY <1>0, <2>1, <3>2, SetRestore
    <3> QED BY <3>1, <3>3, <3>4
  <2>3. Undoing # Install => Undoing \in Files /\ restores \in 1 .. MaxRestores
    BY <1>9, <2>1 DEF Undo, Counted, Install, Files
  <2>4. CASE Back(Undoing)
    BY <1>9, <2>1, <2>2, <2>3, <2>4, MoveTypes, FaultTypes DEF Undo, TypeOK, backups, server
  <2>5. CASE UNCHANGED volume
    BY <1>9, <2>2, <2>5, FaultTypes DEF Undo, TypeOK, backups, volume, server
  <2> QED BY <1>9, <2>4, <2>5 DEF Undo
<1>10. CASE GiveUp
  <2>1. restore' \in RestoreRecords
    BY <1>0, <1>10, SetRestore DEF GiveUp, RestoreStates
  <2> QED BY <1>0, <1>10, <2>1 DEF GiveUp, TypeOK, backups, server
<1>11. CASE KillRestore
  <2>1. ASSUME NEW c \in 0 .. MaxDatabases, NEW f \in SUBSET (1 .. Install), NEW b \in BOOLEAN
        PROVE  [NoRestore EXCEPT !.at = "killed", !.copy = c, !.failures = f, !.opened = b]
                 \in RestoreRecords
    <3>1. /\ 0 \in 0 .. MaxClock /\ NoFile \in 0 .. MaxDatabases /\ "killed" \in RestoreStates
          /\ [i \in Files |-> NoFile] \in [Files -> 0 .. MaxDatabases] /\ 0 \in 0 .. Install
      BY BackupAssumption DEF NoFile, Install, RestoreStates
    <3> QED BY <3>1 DEF NoRestore, RestoreRecords
  <2>2. restore' \in RestoreRecords
    BY <1>11, <2>1, Fields DEF KillRestore
  <2> QED BY <1>11, <2>2 DEF KillRestore, TypeOK, backups, volume, server
<1> QED BY <1>1, <1>2, <1>3, <1>4, <1>5, <1>6, <1>7, <1>8, <1>9, <1>10, <1>11

LEMMA OtherTypes ==
  ASSUME TypeOK, StartServer \/ StopServer \/ KillServer \/ NextDay
  PROVE  TypeOK'
<1>1. CASE StartServer
  <2>1. databases < MaxDatabases =>
          databases + 1 \in 1 .. MaxDatabases /\ databases + 1 \in 0 .. MaxDatabases
    BY BackupAssumption DEF TypeOK
  <2>2. starts' \in 0 .. MaxStarts
    BY <1>1, BackupAssumption DEF StartServer, TypeOK
  <2>3. restore' \in RestoreRecords
    <3>1. (restore.opened \/ restore.at \notin Ended) \in BOOLEAN
      OBVIOUS
    <3> QED BY <1>1, <3>1, Fields, SetRestore DEF StartServer
  <2>4. /\ live' \in [Files -> 0 .. MaxDatabases] /\ databases' \in 1 .. MaxDatabases
        /\ serves' \in 0 .. MaxDatabases /\ replaced' \subseteq Files \X (1 .. MaxDatabases)
    <3>1. live \in [Files -> 0 .. MaxDatabases] /\ Main \in Files
      BY DEF TypeOK, Main, Files
    <3>2. CASE live[Main] = NoFile
      BY <1>1, <2>1, <3>1, <3>2 DEF StartServer, TypeOK
    <3>3. CASE live[Main] # NoFile
      BY <1>1, <3>1, <3>3 DEF StartServer, TypeOK
    <3> QED BY <3>2, <3>3
  <2> QED BY <1>1, <2>2, <2>3, <2>4 DEF StartServer, TypeOK, backups
<1>2. CASE StopServer
  <2>1. /\ live \in [Files -> 0 .. MaxDatabases] /\ Main \in Files /\ NoFile \in 0 .. MaxDatabases
    BY BackupAssumption DEF TypeOK, Main, Files, NoFile
  <2>2. live' \in [Files -> 0 .. MaxDatabases] /\ replaced' \subseteq Files \X (1 .. MaxDatabases)
    BY <1>2, <2>1 DEF StopServer, TypeOK
  <2> QED BY <1>2, <2>1, <2>2, Idle DEF StopServer, JobsGone, TypeOK
<1>3. CASE KillServer
  <2>1. NoFile \in 0 .. MaxDatabases
    BY BackupAssumption DEF NoFile
  <2> QED BY <1>3, <2>1, Idle DEF KillServer, JobsGone, TypeOK, volume
<1>4. CASE NextDay
  BY <1>4, BackupAssumption DEF NextDay, backups, volume, server, Days, TypeOK
<1> QED BY <1>1, <1>2, <1>3, <1>4

(***************************************************************************)
(* A restore, step by step                                                 *)
(***************************************************************************)
\* What the proofs below use of the types.
LEMMA Plain ==
  ASSUME IInv
  PROVE  /\ live \in [Files -> Nat] /\ staging \in Nat /\ databases \in Nat \ {0}
         /\ restores \in Nat /\ MaxRestores \in Nat
         /\ aside \in [1 .. MaxRestores -> [Files -> Nat]]
         /\ restore.plan \subseteq Files /\ restore.was \in [Files -> Nat] /\ restore.copy \in Nat
         /\ restore.opened \in BOOLEAN /\ replaced \subseteq Files \X (Nat \ {0})
         /\ Main \in Files /\ Install \notin Files /\ 0 \notin Files /\ Install # 0
         /\ Sidecars \subseteq Files /\ Main \notin Sidecars
         /\ \A i \in Files : i = Main \/ i \in Sidecars
         /\ Whole
<1>1. TypeOK /\ Whole
  BY DEF IInv
<1>2. /\ Main \in Files /\ Install \notin Files /\ 0 \notin Files /\ Install # 0
      /\ MaxRestores \in Nat /\ MaxDatabases \in Nat
  BY BackupAssumption DEF Files, Main, Install
<1>3. /\ 0 .. MaxDatabases \subseteq Nat /\ 1 .. MaxDatabases \subseteq Nat \ {0}
      /\ 0 .. MaxRestores \subseteq Nat
  BY <1>2
<1>4. /\ restore.plan \subseteq Files /\ restore.was \in [Files -> Nat] /\ restore.copy \in Nat
      /\ restore.opened \in BOOLEAN
  BY <1>1, <1>3, Fields
<1>5. live \in [Files -> Nat] /\ staging \in Nat /\ databases \in Nat \ {0} /\ restores \in Nat
  BY <1>1, <1>3 DEF TypeOK
<1>6. aside \in [1 .. MaxRestores -> [Files -> Nat]] /\ replaced \subseteq Files \X (Nat \ {0})
  BY <1>1, <1>3 DEF TypeOK
<1> QED BY <1>1, <1>2, <1>4, <1>5, <1>6 DEF Sidecars

\* What a file's move to its .pre-restore- name does, and what moving it back.
LEMMA ForthMoves ==
  ASSUME TypeOK, NEW i \in Files, restores \in 1 .. MaxRestores, Forth(i)
  PROVE  /\ live'[i] = NoFile /\ \A k \in Files : k # i => live'[k] = live[k]
         /\ aside'[restores][i] = live[i]
         /\ \A n \in 1 .. MaxRestores, k \in Files :
              n # restores \/ k # i => aside'[n][k] = aside[n][k]
         /\ UNCHANGED staging
<1>1. i # Install
  BY DEF Files, Install
<1>2. /\ live' = [live EXCEPT ![i] = NoFile] /\ UNCHANGED staging
      /\ aside' = [aside EXCEPT ![restores][i] = live[i]]
  BY <1>1 DEF Forth, Preserved
<1>3. live \in [Files -> 0 .. MaxDatabases] /\ aside \in [1 .. MaxRestores -> [Files -> 0 .. MaxDatabases]]
  BY DEF TypeOK
<1> QED BY <1>2, <1>3

LEMMA BackMoves ==
  ASSUME TypeOK, NEW i \in Files, restores \in 1 .. MaxRestores, Back(i)
  PROVE  /\ live'[i] = aside[restores][i] /\ \A k \in Files : k # i => live'[k] = live[k]
         /\ aside'[restores][i] = NoFile
         /\ \A n \in 1 .. MaxRestores, k \in Files :
              n # restores \/ k # i => aside'[n][k] = aside[n][k]
         /\ UNCHANGED staging
<1>1. i # Install
  BY DEF Files, Install
<1>2. /\ live' = [live EXCEPT ![i] = aside[restores][i]] /\ UNCHANGED staging
      /\ aside' = [aside EXCEPT ![restores][i] = NoFile]
  BY <1>1 DEF Back
<1>3. live \in [Files -> 0 .. MaxDatabases] /\ aside \in [1 .. MaxRestores -> [Files -> 0 .. MaxDatabases]]
  BY DEF TypeOK
<1> QED BY <1>2, <1>3

LEMMA CopyMoves ==
  ASSUME TypeOK
  PROVE  /\ Forth(Install) => /\ \A k \in Files : live'[k] = IF k = Main THEN staging ELSE live[k]
                              /\ staging' = NoFile /\ UNCHANGED aside
         /\ Back(Install) => /\ \A k \in Files : live'[k] = IF k = Main THEN NoFile ELSE live[k]
                             /\ staging' = live[Main] /\ UNCHANGED aside
BY DEF Forth, Back, TypeOK, Files, Main


\* What the job does, the death of a server and the passing of a day are
\* nothing to a restore.
LEMMA RestoreUntouched ==
  ASSUME IInv,
         UNCHANGED <<live, databases, restores, aside, staging, restore, replaced>>
  PROVE  Whole'
<1>1. UNCHANGED <<live, databases, restores, aside, staging, restore, replaced>>
  OBVIOUS
<1>2. Undoing' = Undoing
  BY <1>1 DEF Undoing
<1>3. /\ Numbered /\ Unused /\ Early /\ Sources /\ InOrder /\ Newcomers /\ Unmoved /\ LiesAside
      /\ Doubtful /\ PutBack /\ CopyIsPlaced /\ SidecarsGone /\ NothingIsLost
      /\ EndsDone /\ EndsFailed /\ EndsStuck /\ CopyStandsAlone
  BY Plain DEF Whole
<1>4. Numbered'
  BY <1>1, <1>2, <1>3, Plain
     DEF Numbered, NoFile, Sidecars
<1>5. Unused'
  BY <1>1, <1>2, <1>3, Plain
     DEF Unused, NoFile, Sidecars
<1>6. Early'
  BY <1>1, <1>2, <1>3, Plain
     DEF Early, Moving, NoFile, Sidecars
<1>7. Sources'
  BY <1>1, <1>2, <1>3, Plain
     DEF Sources, Working, Moving, Catching, NoFile, Sidecars
<1>8. InOrder'
  BY <1>1, <1>2, <1>3, Plain
     DEF InOrder, Working, Moving, Catching, NoFile, Sidecars
<1>9. Newcomers'
  BY <1>1, <1>2, <1>3, Plain
     DEF Newcomers, Working, Moving, Catching, Fresh, NoFile, Sidecars
<1>10. Unmoved'
  BY <1>1, <1>2, <1>3, Plain
     DEF Unmoved, Moving, Kept, NoFile, Sidecars
<1>11. LiesAside'
  BY <1>1, <1>2, <1>3, Plain
     DEF LiesAside, Working, Moving, Catching, Kept, NoFile, Sidecars
<1>12. Doubtful'
  BY <1>1, <1>2, <1>3, Plain
     DEF Doubtful, Kept, NoFile, Sidecars
<1>13. PutBack'
  BY <1>1, <1>2, <1>3, Plain
     DEF PutBack, Kept, IsBack, NoFile, Sidecars
<1>14. CopyIsPlaced'
  BY <1>1, <1>2, <1>3, Plain
     DEF CopyIsPlaced, Working, Moving, Catching, Staged, Installed, NoFile, Sidecars
<1>15. SidecarsGone'
  BY <1>1, <1>2, <1>3, Plain
     DEF SidecarsGone, Working, Moving, Catching, NoFile, Sidecars
<1>16. NothingIsLost'
  BY <1>1, <1>2, <1>3, Plain
     DEF NothingIsLost, NoFile, Sidecars
<1>17. EndsDone'
  BY <1>1, <1>2, <1>3, Plain
     DEF EndsDone, Kept, NoFile, Sidecars
<1>18. EndsFailed'
  BY <1>1, <1>2, <1>3, Plain
     DEF EndsFailed, Kept, NoFile, Sidecars
<1>19. EndsStuck'
  BY <1>1, <1>2, <1>3, Plain
     DEF EndsStuck, NoFile, Sidecars
<1>20. CopyStandsAlone'
  BY <1>1, <1>2, <1>3, Plain
     DEF CopyStandsAlone, NoFile, Sidecars
<1> QED BY <1>4, <1>5, <1>6, <1>7, <1>8, <1>9, <1>10, <1>11, <1>12, <1>13, <1>14, <1>15, <1>16,
     <1>17, <1>18, <1>19, <1>20
   DEF Whole

\* A restore begins: nothing has been moved yet.
LEMMA BeginKeeps ==
  ASSUME IInv, NEW t \in Days, BeginRestore(t)
  PROVE  Whole'
<1>1. /\ restore'.at \in {"refused", "verified"} /\ restore'.moved = {} /\ restore'.doing = 0
      /\ restore'.failures = {} /\ restore'.plan = {} /\ restore'.copy = NoFile
  BY DEF BeginRestore, NoRestore
<1>2. /\ UNCHANGED <<live, aside, databases, replaced>> /\ staging' = NoFile
      /\ restores < MaxRestores /\ restores' = restores + 1
  BY DEF BeginRestore, backups
<1>3. Numbered /\ Unused /\ Early /\ Sources /\ InOrder /\ Newcomers
      /\ Unmoved /\ LiesAside /\ Doubtful /\ PutBack /\ CopyIsPlaced /\ SidecarsGone
      /\ NothingIsLost /\ EndsDone /\ EndsFailed /\ EndsStuck /\ CopyStandsAlone
  BY Plain DEF Whole
<1>4. Numbered'
  BY <1>1, <1>2, <1>3, Plain
     DEF Numbered, NoFile, Sidecars
<1>5. Unused'
  BY <1>1, <1>2, <1>3, Plain
     DEF Unused, NoFile, Sidecars
<1>6. Early'
  BY <1>1, <1>2, <1>3, Plain
     DEF Early, Moving, Unused, NoFile, Sidecars
<1>7. Sources'
  BY <1>1, <1>2, <1>3, Plain
     DEF Sources, Working, Moving, Catching, NoFile, Sidecars
<1>8. InOrder'
  BY <1>1, <1>2, <1>3, Plain
     DEF InOrder, Working, Moving, Catching, NoFile, Sidecars
<1>9. Newcomers'
  BY <1>1, <1>2, <1>3, Plain
     DEF Newcomers, Working, Moving, Catching, Fresh, NoFile, Sidecars
<1>10. Unmoved'
  BY <1>1, <1>2, <1>3, Plain
     DEF Unmoved, Moving, Kept, NoFile, Sidecars
<1>11. LiesAside'
  BY <1>1, <1>2, <1>3, Plain
     DEF LiesAside, Working, Moving, Catching, Kept, NoFile, Sidecars
<1>12. Doubtful'
  BY <1>1, <1>2, <1>3, Plain
     DEF Doubtful, Kept, NoFile, Sidecars
<1>13. PutBack'
  BY <1>1, <1>2, <1>3, Plain
     DEF PutBack, Kept, IsBack, NoFile, Sidecars
<1>14. CopyIsPlaced'
  BY <1>1, <1>2, <1>3, Plain
     DEF CopyIsPlaced, Working, Moving, Catching, Staged, Installed, NoFile, Sidecars
<1>15. SidecarsGone'
  BY <1>1, <1>2, <1>3, Plain
     DEF SidecarsGone, Working, Moving, Catching, NoFile, Sidecars
<1>16. NothingIsLost'
  BY <1>1, <1>2, <1>3, Plain
     DEF NothingIsLost, NoFile, Sidecars
<1>17. EndsDone'
  BY <1>1, <1>2, <1>3, Plain
     DEF EndsDone, Kept, NoFile, Sidecars
<1>18. EndsFailed'
  BY <1>1, <1>2, <1>3, Plain
     DEF EndsFailed, Kept, NoFile, Sidecars
<1>19. EndsStuck'
  BY <1>1, <1>2, <1>3, Plain
     DEF EndsStuck, NoFile, Sidecars
<1>20. CopyStandsAlone'
  BY <1>1, <1>2, <1>3, Plain
     DEF CopyStandsAlone, NoFile, Sidecars
<1> QED BY <1>4, <1>5, <1>6, <1>7, <1>8, <1>9, <1>10, <1>11, <1>12, <1>13, <1>14, <1>15, <1>16,
     <1>17, <1>18, <1>19, <1>20
   DEF Whole

\* What is planned is what lies there, and no less.
LEMMA PlanKeeps ==
  ASSUME IInv, PlanRestore
  PROVE  Whole'
<1>1. /\ restore.at = "verified" /\ restore'.at = "planned"
      /\ restore'.plan = {i \in Files : live[i] # NoFile} /\ restore'.was = live
        /\ restore'.moved = restore.moved
        /\ restore'.doing = restore.doing
        /\ restore'.failures = restore.failures
        /\ restore'.copy = restore.copy
        /\ restore'.opened = restore.opened
  BY DEF PlanRestore, IInv, TypeOK, RestoreRecords
<1>2. /\ UNCHANGED <<live, aside, staging, restores, databases>>
      /\ replaced' = replaced \cup {<<i, live[i]>> : i \in {i \in Files : live[i] # NoFile}}
  BY DEF PlanRestore, volume, backups
<1>3. Numbered /\ Unused /\ Early /\ Sources /\ InOrder /\ Newcomers
      /\ Unmoved /\ LiesAside /\ Doubtful /\ PutBack /\ CopyIsPlaced /\ SidecarsGone
      /\ NothingIsLost /\ EndsDone /\ EndsFailed /\ EndsStuck /\ CopyStandsAlone
  BY Plain DEF Whole
<1>4. Numbered'
  BY <1>1, <1>2, <1>3, Plain
     DEF Numbered, NoFile, Sidecars
<1>5. Unused'
  BY <1>1, <1>2, <1>3, Plain
     DEF Unused, NoFile, Sidecars
<1>6. Early'
  BY <1>1, <1>2, <1>3, Plain
     DEF Early, Moving, NoFile, Sidecars
<1>7. Sources'
  BY <1>1, <1>2, <1>3, Plain
     DEF Sources, Working, Moving, Catching, Early, NoFile, Sidecars
<1>8. InOrder'
  BY <1>1, <1>2, <1>3, Plain
     DEF InOrder, Working, Moving, Catching, Early, NoFile, Sidecars
<1>9. Newcomers'
  BY <1>1, <1>2, <1>3, Plain
     DEF Newcomers, Working, Moving, Catching, Fresh, Early, Numbered, NoFile, Sidecars
<1>10. Unmoved'
  BY <1>1, <1>2, <1>3, Plain
     DEF Unmoved, Moving, Kept, Early, NoFile, Sidecars
<1>11. LiesAside'
  BY <1>1, <1>2, <1>3, Plain
     DEF LiesAside, Working, Moving, Catching, Kept, NoFile, Sidecars
<1>12. Doubtful'
  BY <1>1, <1>2, <1>3, Plain
     DEF Doubtful, Kept, NoFile, Sidecars
<1>13. PutBack'
  BY <1>1, <1>2, <1>3, Plain
     DEF PutBack, Kept, IsBack, NoFile, Sidecars
<1>14. CopyIsPlaced'
  BY <1>1, <1>2, <1>3, Plain
     DEF CopyIsPlaced, Working, Moving, Catching, Staged, Installed, NoFile, Sidecars
<1>15. SidecarsGone'
  BY <1>1, <1>2, <1>3, Plain
     DEF SidecarsGone, Working, Moving, Catching, Early, NoFile, Sidecars
<1>16. NothingIsLost'
  <2>1. ASSUME NEW r \in replaced
        PROVE  live'[r[1]] = r[2] \/ \E n \in 1 .. MaxRestores : aside'[n][r[1]] = r[2]
    BY <1>2, <1>3 DEF NothingIsLost
  <2>2. ASSUME NEW r \in replaced', r \notin replaced
        PROVE  live'[r[1]] = r[2]
    <3>1. PICK k \in Files : r = <<k, live[k]>>
      BY <1>2, <2>2
    <3> QED BY <1>2, <3>1
  <2> QED BY <2>1, <2>2 DEF NothingIsLost
<1>17. EndsDone'
  BY <1>1, <1>2, <1>3, Plain
     DEF EndsDone, Kept, NoFile, Sidecars
<1>18. EndsFailed'
  BY <1>1, <1>2, <1>3, Plain
     DEF EndsFailed, Kept, NoFile, Sidecars
<1>19. EndsStuck'
  BY <1>1, <1>2, <1>3, Plain
     DEF EndsStuck, NoFile, Sidecars
<1>20. CopyStandsAlone'
  BY <1>1, <1>2, <1>3, Plain
     DEF CopyStandsAlone, CopyIsPlaced, Working, Moving, Catching, Staged, Installed, NoFile,
         Sidecars
<1> QED BY <1>4, <1>5, <1>6, <1>7, <1>8, <1>9, <1>10, <1>11, <1>12, <1>13, <1>14, <1>15, <1>16,
     <1>17, <1>18, <1>19, <1>20
   DEF Whole

\* The copy is a database there has never been.
LEMMA DecryptKeeps ==
  ASSUME IInv, Decrypt, databases' = databases + 1, staging' = databases',
         restore' = [restore EXCEPT !.at = "moving", !.copy = databases']
  PROVE  Whole'
<1>1. /\ restore.at = "planned" /\ restore'.at = "moving" /\ restore'.copy = databases + 1
        /\ restore'.plan = restore.plan
        /\ restore'.moved = restore.moved
        /\ restore'.doing = restore.doing
        /\ restore'.failures = restore.failures
        /\ restore'.was = restore.was
        /\ restore'.opened = restore.opened
  BY DEF Decrypt, IInv, TypeOK, RestoreRecords
<1>2. /\ UNCHANGED <<live, aside, restores, replaced>>
      /\ staging' = databases + 1 /\ databases' = databases + 1
  BY DEF Decrypt
<1>3. Numbered /\ Unused /\ Early /\ Sources /\ InOrder /\ Newcomers
      /\ Unmoved /\ LiesAside /\ Doubtful /\ PutBack /\ CopyIsPlaced /\ SidecarsGone
      /\ NothingIsLost /\ EndsDone /\ EndsFailed /\ EndsStuck /\ CopyStandsAlone
  BY Plain DEF Whole
<1>4. Numbered'
  BY <1>1, <1>2, <1>3, Plain
     DEF Numbered, NoFile, Sidecars
<1>5. Unused'
  BY <1>1, <1>2, <1>3, Plain
     DEF Unused, NoFile, Sidecars
<1>6. Early'
  BY <1>1, <1>2, <1>3, Plain
     DEF Early, Moving, NoFile, Sidecars
<1>7. Sources'
  BY <1>1, <1>2, <1>3, Plain
     DEF Sources, Working, Moving, Catching, NoFile, Sidecars
<1>8. InOrder'
  BY <1>1, <1>2, <1>3, Plain
     DEF InOrder, Working, Moving, Catching, Early, NoFile, Sidecars
<1>9. Newcomers'
  BY <1>1, <1>2, <1>3, Plain
     DEF Newcomers, Working, Moving, Catching, Fresh, Early, Numbered, NoFile, Sidecars
<1>10. Unmoved'
  BY <1>1, <1>2, <1>3, Plain
     DEF Unmoved, Moving, Kept, Early, NoFile, Sidecars
<1>11. LiesAside'
  BY <1>1, <1>2, <1>3, Plain
     DEF LiesAside, Working, Moving, Catching, Kept, Early, NoFile, Sidecars
<1>12. Doubtful'
  BY <1>1, <1>2, <1>3, Plain
     DEF Doubtful, Kept, NoFile, Sidecars
<1>13. PutBack'
  BY <1>1, <1>2, <1>3, Plain
     DEF PutBack, Kept, IsBack, NoFile, Sidecars
<1>14. CopyIsPlaced'
  BY <1>1, <1>2, <1>3, Plain
     DEF CopyIsPlaced, Working, Moving, Catching, Staged, Installed, Early, Numbered, Unused,
         Sources, NoFile, Sidecars
<1>15. SidecarsGone'
  BY <1>1, <1>2, <1>3, Plain
     DEF SidecarsGone, Working, Moving, Catching, Early, NoFile, Sidecars
<1>16. NothingIsLost'
  BY <1>1, <1>2, <1>3, Plain
     DEF NothingIsLost, NoFile, Sidecars
<1>17. EndsDone'
  BY <1>1, <1>2, <1>3, Plain
     DEF EndsDone, Kept, NoFile, Sidecars
<1>18. EndsFailed'
  BY <1>1, <1>2, <1>3, Plain
     DEF EndsFailed, Kept, NoFile, Sidecars
<1>19. EndsStuck'
  BY <1>1, <1>2, <1>3, Plain
     DEF EndsStuck, NoFile, Sidecars
<1>20. CopyStandsAlone'
  BY <1>1, <1>2, <1>3, Plain
     DEF CopyStandsAlone, CopyIsPlaced, Working, Moving, Catching, Staged, Installed, Numbered,
         NoFile, Sidecars
<1> QED BY <1>4, <1>5, <1>6, <1>7, <1>8, <1>9, <1>10, <1>11, <1>12, <1>13, <1>14, <1>15, <1>16,
     <1>17, <1>18, <1>19, <1>20
   DEF Whole

\* It cannot be decrypted, or there is no room: nothing has been changed.
LEMMA DecryptFails ==
  ASSUME IInv, Decrypt, UNCHANGED <<databases, staging>>,
         restore' = [restore EXCEPT !.at = "failed"]
  PROVE  Whole'
<1>1. /\ restore.at = "planned" /\ restore'.at = "failed"
        /\ restore'.plan = restore.plan
        /\ restore'.moved = restore.moved
        /\ restore'.doing = restore.doing
        /\ restore'.failures = restore.failures
        /\ restore'.was = restore.was
        /\ restore'.copy = restore.copy
        /\ restore'.opened = restore.opened
  BY DEF Decrypt, IInv, TypeOK, RestoreRecords
<1>2. UNCHANGED <<live, aside, restores, replaced, databases, staging>>
  BY DEF Decrypt
<1>3. Numbered /\ Unused /\ Early /\ Sources /\ InOrder /\ Newcomers
      /\ Unmoved /\ LiesAside /\ Doubtful /\ PutBack /\ CopyIsPlaced /\ SidecarsGone
      /\ NothingIsLost /\ EndsDone /\ EndsFailed /\ EndsStuck /\ CopyStandsAlone
  BY Plain DEF Whole
<1>4. Numbered'
  BY <1>1, <1>2, <1>3, Plain
     DEF Numbered, NoFile, Sidecars
<1>5. Unused'
  BY <1>1, <1>2, <1>3, Plain
     DEF Unused, NoFile, Sidecars
<1>6. Early'
  BY <1>1, <1>2, <1>3, Plain
     DEF Early, Moving, NoFile, Sidecars
<1>7. Sources'
  BY <1>1, <1>2, <1>3, Plain
     DEF Sources, Working, Moving, Catching, NoFile, Sidecars
<1>8. InOrder'
  BY <1>1, <1>2, <1>3, Plain
     DEF InOrder, Working, Moving, Catching, NoFile, Sidecars
<1>9. Newcomers'
  BY <1>1, <1>2, <1>3, Plain
     DEF Newcomers, Working, Moving, Catching, Fresh, NoFile, Sidecars
<1>10. Unmoved'
  BY <1>1, <1>2, <1>3, Plain
     DEF Unmoved, Moving, Kept, NoFile, Sidecars
<1>11. LiesAside'
  BY <1>1, <1>2, <1>3, Plain
     DEF LiesAside, Working, Moving, Catching, Kept, NoFile, Sidecars
<1>12. Doubtful'
  BY <1>1, <1>2, <1>3, Plain
     DEF Doubtful, Kept, NoFile, Sidecars
<1>13. PutBack'
  BY <1>1, <1>2, <1>3, Plain
     DEF PutBack, Kept, IsBack, NoFile, Sidecars
<1>14. CopyIsPlaced'
  BY <1>1, <1>2, <1>3, Plain
     DEF CopyIsPlaced, Working, Moving, Catching, Staged, Installed, NoFile, Sidecars
<1>15. SidecarsGone'
  BY <1>1, <1>2, <1>3, Plain
     DEF SidecarsGone, Working, Moving, Catching, NoFile, Sidecars
<1>16. NothingIsLost'
  BY <1>1, <1>2, <1>3, Plain
     DEF NothingIsLost, NoFile, Sidecars
<1>17. EndsDone'
  BY <1>1, <1>2, <1>3, Plain
     DEF EndsDone, Kept, NoFile, Sidecars
<1>18. EndsFailed'
  BY <1>1, <1>2, <1>3, Plain
     DEF EndsFailed, Kept, CopyIsPlaced, Working, Moving, Catching, Staged, Installed, Unmoved,
         Early, Sources, NoFile, Sidecars
<1>19. EndsStuck'
  BY <1>1, <1>2, <1>3, Plain
     DEF EndsStuck, NoFile, Sidecars
<1>20. CopyStandsAlone'
  BY <1>1, <1>2, <1>3, Plain
     DEF CopyStandsAlone, CopyIsPlaced, Working, Moving, Catching, Staged, Installed, NoFile,
         Sidecars
<1> QED BY <1>4, <1>5, <1>6, <1>7, <1>8, <1>9, <1>10, <1>11, <1>12, <1>13, <1>14, <1>15, <1>16,
     <1>17, <1>18, <1>19, <1>20
   DEF Whole

\* A file is moved aside.
LEMMA AsideKeeps ==
  ASSUME IInv, MoveAside, NEW i, i = Min(Pending), Forth(i),
         restore' = [restore EXCEPT !.moved = @ \cup {i}]
  PROVE  Whole'
<1>1. /\ restore.at = "moving" /\ i \in Files /\ i \in restore.plan /\ i \notin restore.moved
      /\ Main \in restore.plan \ restore.moved => i = Main
      /\ restores \in 1 .. MaxRestores
  BY PendingMove, Plain DEF MoveAside, IInv, Whole, Unused, Files
<1>2. /\ restore'.at = "moving" /\ restore'.moved = restore.moved \cup {i}
        /\ restore'.plan = restore.plan
        /\ restore'.doing = restore.doing
        /\ restore'.failures = restore.failures
        /\ restore'.was = restore.was
        /\ restore'.copy = restore.copy
        /\ restore'.opened = restore.opened
  BY <1>1, Plain DEF IInv, TypeOK, RestoreRecords
<1>3. /\ live'[i] = NoFile /\ \A k \in Files : k # i => live'[k] = live[k]
      /\ aside'[restores][i] = live[i]
      /\ \A n \in 1 .. MaxRestores, k \in Files :
           n # restores \/ k # i => aside'[n][k] = aside[n][k]
      /\ UNCHANGED <<staging, databases, restores, replaced>>
  BY <1>1, ForthMoves DEF MoveAside, backups, IInv
<1>4. Numbered /\ Unused /\ Early /\ Sources /\ InOrder /\ Newcomers
      /\ Unmoved /\ LiesAside /\ Doubtful /\ PutBack /\ CopyIsPlaced /\ SidecarsGone
      /\ NothingIsLost /\ EndsDone /\ EndsFailed /\ EndsStuck /\ CopyStandsAlone
  BY Plain DEF Whole
<1>5. Numbered'
  <2>1. ASSUME NEW k \in Files PROVE live'[k] <= databases'
    <3>1. live[k] <= databases /\ live[i] <= databases /\ aside[restores][i] <= databases /\ 0 <= databases
      BY <1>1, <1>4, Plain DEF Numbered
    <3> QED BY <1>1, <1>3, <3>1 DEF NoFile
  <2>2. ASSUME NEW n \in 1 .. MaxRestores, NEW k \in Files PROVE aside'[n][k] <= databases'
    <3>1. aside[n][k] <= databases /\ live[i] <= databases /\ 0 <= databases
      BY <1>1, <1>4, Plain DEF Numbered
    <3> QED BY <1>1, <1>3, <3>1 DEF NoFile
  <2>3. (staging <= databases /\ restore.copy <= databases)'
    BY <1>1, <1>2, <1>3, <1>4, Plain DEF Numbered
  <2>4. (replaced \subseteq Files \X (1 .. databases))'
    BY <1>1, <1>2, <1>3, <1>4, Plain DEF Numbered
  <2> QED BY <2>1, <2>2, <2>3, <2>4 DEF Numbered
<1>6. Unused'
  <2>1. ASSUME NEW n \in 1 .. MaxRestores, NEW k \in Files, n > restores'
        PROVE  aside'[n][k] = NoFile
    <3>1. n # restores /\ aside[n][k] = NoFile
      BY <1>1, <1>3, <1>4, <2>1, Plain DEF Unused
    <3> QED BY <1>3, <3>1
  <2>2. (restore.at # "idle" => restores \in 1 .. MaxRestores)'
    BY <1>1, <1>2, <1>3, <1>4, Plain
  <2> QED BY <2>1, <2>2 DEF Unused
<1>7. Early'
  BY <1>1, <1>2, <1>3, <1>4, Plain
     DEF Early, Moving, NoFile, Sidecars
<1>8. Sources'
  BY <1>1, <1>2, <1>3, <1>4, Plain
     DEF Sources, Working, Moving, Catching, NoFile, Sidecars
<1>9. InOrder'
  BY <1>1, <1>2, <1>3, <1>4, Plain
     DEF InOrder, Working, Moving, Catching, Sources, CopyIsPlaced, Staged, Installed, NoFile,
         Sidecars
<1>10. Newcomers'
  BY <1>1, <1>2, <1>3, <1>4, Plain
     DEF Newcomers, Working, Moving, Catching, Fresh, Numbered, NoFile, Sidecars
<1>11. Unmoved'
  BY <1>1, <1>2, <1>3, <1>4, Plain, SMTT(30)
     DEF Unmoved, Moving, Kept, Early, NoFile, Sidecars
<1>12. LiesAside'
  BY <1>1, <1>2, <1>3, <1>4, Plain, SMTT(30)
     DEF LiesAside, Working, Moving, Catching, Kept, Unmoved, Early, Sources, NoFile, Sidecars
<1>13. Doubtful'
  BY <1>1, <1>2, <1>3, <1>4, Plain
     DEF Doubtful, Kept, NoFile, Sidecars
<1>14. PutBack'
  BY <1>1, <1>2, <1>3, <1>4, Plain
     DEF PutBack, Kept, IsBack, NoFile, Sidecars
<1>15. CopyIsPlaced'
  BY <1>1, <1>2, <1>3, <1>4, Plain
     DEF CopyIsPlaced, Working, Moving, Catching, Staged, Installed, NoFile, Sidecars
<1>16. SidecarsGone'
  BY <1>1, <1>2, <1>3, <1>4, Plain
     DEF SidecarsGone, Working, Moving, Catching, NoFile, Sidecars
<1>17. NothingIsLost'
  <2>1. ASSUME NEW r \in replaced', live[r[1]] = r[2]
        PROVE  live'[r[1]] = r[2] \/ \E n \in 1 .. MaxRestores : aside'[n][r[1]] = r[2]
    BY <1>1, <1>2, <1>3, <1>4, <2>1, Plain
  <2>2. ASSUME NEW r \in replaced', NEW n \in 1 .. MaxRestores, aside[n][r[1]] = r[2]
        PROVE  live'[r[1]] = r[2] \/ \E m \in 1 .. MaxRestores : aside'[m][r[1]] = r[2]
    <3>1. r[1] \in Files /\ r[2] # 0
      BY <1>1, <1>2, <1>3, <1>4, Plain
    <3>2. CASE n = restores /\ r[1] = i
      BY <1>1, <1>2, <1>3, <1>4, <2>2, <3>1, <3>2, Plain DEF Early, Moving, NoFile
    <3>3. CASE ~(n = restores /\ r[1] = i)
      BY <1>1, <1>2, <1>3, <1>4, <2>2, <3>1, <3>3
    <3> QED BY <3>2, <3>3
  <2>3. replaced' \subseteq replaced
    BY <1>1, <1>2, <1>3, <1>4
  <2> QED BY <1>4, <2>1, <2>2, <2>3 DEF NothingIsLost
<1>18. EndsDone'
  BY <1>1, <1>2, <1>3, <1>4, Plain
     DEF EndsDone, Kept, NoFile, Sidecars
<1>19. EndsFailed'
  BY <1>1, <1>2, <1>3, <1>4, Plain
     DEF EndsFailed, Kept, NoFile, Sidecars
<1>20. EndsStuck'
  BY <1>1, <1>2, <1>3, <1>4, Plain
     DEF EndsStuck, NoFile, Sidecars
<1>21. CopyStandsAlone'
  BY <1>1, <1>2, <1>3, <1>4, Plain
     DEF CopyStandsAlone, CopyIsPlaced, Working, Moving, Catching, Staged, Installed, NoFile,
         Sidecars
<1> QED BY <1>5, <1>6, <1>7, <1>8, <1>9, <1>10, <1>11, <1>12, <1>13, <1>14, <1>15, <1>16, <1>17,
     <1>18, <1>19, <1>20, <1>21
   DEF Whole

\* A move aside takes effect and reports a failure.
LEMMA AsideFails ==
  ASSUME IInv, MoveAside, NEW i, i = Min(Pending), Forth(i),
         restore' = [restore EXCEPT !.at = "caught", !.doing = i]
  PROVE  Whole'
<1>1. /\ restore.at = "moving" /\ i \in Files /\ i \in restore.plan /\ i \notin restore.moved
      /\ Main \in restore.plan \ restore.moved => i = Main
      /\ restores \in 1 .. MaxRestores
  BY PendingMove, Plain DEF MoveAside, IInv, Whole, Unused, Files
<1>2. /\ restore'.at = "caught" /\ restore'.doing = i
        /\ restore'.plan = restore.plan
        /\ restore'.moved = restore.moved
        /\ restore'.failures = restore.failures
        /\ restore'.was = restore.was
        /\ restore'.copy = restore.copy
        /\ restore'.opened = restore.opened
  BY <1>1, Plain DEF IInv, TypeOK, RestoreRecords
<1>3. /\ live'[i] = NoFile /\ \A k \in Files : k # i => live'[k] = live[k]
      /\ aside'[restores][i] = live[i]
      /\ \A n \in 1 .. MaxRestores, k \in Files :
           n # restores \/ k # i => aside'[n][k] = aside[n][k]
      /\ UNCHANGED <<staging, databases, restores, replaced>>
  BY <1>1, ForthMoves DEF MoveAside, backups, IInv
<1>4. Numbered /\ Unused /\ Early /\ Sources /\ InOrder /\ Newcomers
      /\ Unmoved /\ LiesAside /\ Doubtful /\ PutBack /\ CopyIsPlaced /\ SidecarsGone
      /\ NothingIsLost /\ EndsDone /\ EndsFailed /\ EndsStuck /\ CopyStandsAlone
  BY Plain DEF Whole
<1>5. Numbered'
  <2>1. ASSUME NEW k \in Files PROVE live'[k] <= databases'
    <3>1. live[k] <= databases /\ live[i] <= databases /\ aside[restores][i] <= databases /\ 0 <= databases
      BY <1>1, <1>4, Plain DEF Numbered
    <3> QED BY <1>1, <1>3, <3>1 DEF NoFile
  <2>2. ASSUME NEW n \in 1 .. MaxRestores, NEW k \in Files PROVE aside'[n][k] <= databases'
    <3>1. aside[n][k] <= databases /\ live[i] <= databases /\ 0 <= databases
      BY <1>1, <1>4, Plain DEF Numbered
    <3> QED BY <1>1, <1>3, <3>1 DEF NoFile
  <2>3. (staging <= databases /\ restore.copy <= databases)'
    BY <1>1, <1>2, <1>3, <1>4, Plain DEF Numbered
  <2>4. (replaced \subseteq Files \X (1 .. databases))'
    BY <1>1, <1>2, <1>3, <1>4, Plain DEF Numbered
  <2> QED BY <2>1, <2>2, <2>3, <2>4 DEF Numbered
<1>6. Unused'
  <2>1. ASSUME NEW n \in 1 .. MaxRestores, NEW k \in Files, n > restores'
        PROVE  aside'[n][k] = NoFile
    <3>1. n # restores /\ aside[n][k] = NoFile
      BY <1>1, <1>3, <1>4, <2>1, Plain DEF Unused
    <3> QED BY <1>3, <3>1
  <2>2. (restore.at # "idle" => restores \in 1 .. MaxRestores)'
    BY <1>1, <1>2, <1>3, <1>4, Plain
  <2> QED BY <2>1, <2>2 DEF Unused
<1>7. Early'
  BY <1>1, <1>2, <1>3, <1>4, Plain
     DEF Early, Moving, NoFile, Sidecars
<1>8. Sources'
  BY <1>1, <1>2, <1>3, <1>4, Plain
     DEF Sources, Working, Moving, Catching, NoFile, Sidecars
<1>9. InOrder'
  BY <1>1, <1>2, <1>3, <1>4, Plain
     DEF InOrder, Working, Moving, Catching, Sources, CopyIsPlaced, Staged, Installed, NoFile,
         Sidecars
<1>10. Newcomers'
  BY <1>1, <1>2, <1>3, <1>4, Plain, SMTT(30)
     DEF Newcomers, Working, Moving, Catching, Fresh, Numbered, NoFile, Sidecars
<1>11. Unmoved'
  BY <1>1, <1>2, <1>3, <1>4, Plain, SMTT(30)
     DEF Unmoved, Moving, Kept, Early, NoFile, Sidecars
<1>12. LiesAside'
  <2>1. ASSUME NEW k \in restore.moved \cap Files, Kept(k) PROVE aside'[restores][k] = restore.was[k]
    <3>1. aside[restores][k] = restore.was[k] /\ k # i
      BY <1>1, <1>4, <2>1 DEF LiesAside, Working, Moving
    <3> QED BY <1>1, <1>3, <2>1, <3>1
  <2> QED BY <1>2, <1>3, <2>1 DEF LiesAside, Kept
<1>13. Doubtful'
  <2>1. Kept(i) => live[i] = restore.was[i]
    <3>1. i # restore.doing /\ i \in restore.plan \ restore.moved
      BY <1>1, <1>2, <1>3, <1>4, Plain DEF Early, Moving
    <3> QED BY <1>1, <1>2, <1>3, <1>4, <3>1 DEF Unmoved, Moving
  <2> QED BY <1>1, <1>2, <1>3, <1>4, <2>1 DEF Doubtful, Kept
<1>14. PutBack'
  BY <1>1, <1>2, <1>3, <1>4, Plain
     DEF PutBack, Kept, IsBack, NoFile, Sidecars
<1>15. CopyIsPlaced'
  BY <1>1, <1>2, <1>3, <1>4, Plain
     DEF CopyIsPlaced, Working, Moving, Catching, Staged, Installed, NoFile, Sidecars
<1>16. SidecarsGone'
  BY <1>1, <1>2, <1>3, <1>4, Plain
     DEF SidecarsGone, Working, Moving, Catching, NoFile, Sidecars
<1>17. NothingIsLost'
  <2>1. ASSUME NEW r \in replaced', live[r[1]] = r[2]
        PROVE  live'[r[1]] = r[2] \/ \E n \in 1 .. MaxRestores : aside'[n][r[1]] = r[2]
    BY <1>1, <1>2, <1>3, <1>4, <2>1, Plain
  <2>2. ASSUME NEW r \in replaced', NEW n \in 1 .. MaxRestores, aside[n][r[1]] = r[2]
        PROVE  live'[r[1]] = r[2] \/ \E m \in 1 .. MaxRestores : aside'[m][r[1]] = r[2]
    <3>1. r[1] \in Files /\ r[2] # 0
      BY <1>1, <1>2, <1>3, <1>4, Plain
    <3>2. CASE n = restores /\ r[1] = i
      BY <1>1, <1>2, <1>3, <1>4, <2>2, <3>1, <3>2, Plain DEF Early, Moving, NoFile
    <3>3. CASE ~(n = restores /\ r[1] = i)
      BY <1>1, <1>2, <1>3, <1>4, <2>2, <3>1, <3>3
    <3> QED BY <3>2, <3>3
  <2>3. replaced' \subseteq replaced
    BY <1>1, <1>2, <1>3, <1>4
  <2> QED BY <1>4, <2>1, <2>2, <2>3 DEF NothingIsLost
<1>18. EndsDone'
  BY <1>1, <1>2, <1>3, <1>4, Plain
     DEF EndsDone, Kept, NoFile, Sidecars
<1>19. EndsFailed'
  BY <1>1, <1>2, <1>3, <1>4, Plain
     DEF EndsFailed, Kept, NoFile, Sidecars
<1>20. EndsStuck'
  BY <1>1, <1>2, <1>3, <1>4, Plain
     DEF EndsStuck, NoFile, Sidecars
<1>21. CopyStandsAlone'
  BY <1>1, <1>2, <1>3, <1>4, Plain
     DEF CopyStandsAlone, CopyIsPlaced, Working, Moving, Catching, Staged, Installed, NoFile,
         Sidecars
<1> QED BY <1>5, <1>6, <1>7, <1>8, <1>9, <1>10, <1>11, <1>12, <1>13, <1>14, <1>15, <1>16, <1>17,
     <1>18, <1>19, <1>20, <1>21
   DEF Whole

\* A move aside takes no effect, or its file is gone.
LEMMA AsideSkips ==
  ASSUME IInv, MoveAside, NEW i, i = Min(Pending), UNCHANGED volume,
         restore' = [restore EXCEPT !.at = "caught", !.doing = i]
  PROVE  Whole'
<1>1. /\ restore.at = "moving" /\ i \in Files /\ i \in restore.plan /\ i \notin restore.moved
      /\ Main \in restore.plan \ restore.moved => i = Main
      /\ restores \in 1 .. MaxRestores
  BY PendingMove, Plain DEF MoveAside, IInv, Whole, Unused, Files
<1>2. /\ restore'.at = "caught" /\ restore'.doing = i
        /\ restore'.plan = restore.plan
        /\ restore'.moved = restore.moved
        /\ restore'.failures = restore.failures
        /\ restore'.was = restore.was
        /\ restore'.copy = restore.copy
        /\ restore'.opened = restore.opened
  BY <1>1, Plain DEF IInv, TypeOK, RestoreRecords
<1>3. UNCHANGED <<live, aside, staging, databases, restores, replaced>>
  BY DEF MoveAside, backups, volume
<1>4. Numbered /\ Unused /\ Early /\ Sources /\ InOrder /\ Newcomers
      /\ Unmoved /\ LiesAside /\ Doubtful /\ PutBack /\ CopyIsPlaced /\ SidecarsGone
      /\ NothingIsLost /\ EndsDone /\ EndsFailed /\ EndsStuck /\ CopyStandsAlone
  BY Plain DEF Whole
<1>5. Numbered'
  BY <1>1, <1>2, <1>3, <1>4, Plain
     DEF Numbered, NoFile, Sidecars
<1>6. Unused'
  BY <1>1, <1>2, <1>3, <1>4, Plain
     DEF Unused, NoFile, Sidecars
<1>7. Early'
  BY <1>1, <1>2, <1>3, <1>4, Plain
     DEF Early, Moving, NoFile, Sidecars
<1>8. Sources'
  BY <1>1, <1>2, <1>3, <1>4, Plain
     DEF Sources, Working, Moving, Catching, NoFile, Sidecars
<1>9. InOrder'
  BY <1>1, <1>2, <1>3, <1>4, Plain
     DEF InOrder, Working, Moving, Catching, Sources, CopyIsPlaced, Staged, Installed, NoFile,
         Sidecars
<1>10. Newcomers'
  BY <1>1, <1>2, <1>3, <1>4, Plain
     DEF Newcomers, Working, Moving, Catching, Fresh, NoFile, Sidecars
<1>11. Unmoved'
  <2>1. restore.doing = 0 /\ 0 \notin restore.plan
    BY <1>1, <1>2, <1>3, <1>4, Plain DEF Early, Moving
  <2> QED BY <1>1, <1>2, <1>3, <1>4, <2>1 DEF Unmoved, Moving, Kept
<1>12. LiesAside'
  BY <1>1, <1>2, <1>3, <1>4, Plain
     DEF LiesAside, Working, Moving, Catching, Kept, NoFile, Sidecars
<1>13. Doubtful'
  <2>1. restore.doing = 0 /\ i # 0 /\ i \in restore.plan \ restore.moved
    BY <1>1, <1>2, <1>3, <1>4, Plain DEF Early, Moving
  <2>2. Kept(i) => live[i] = restore.was[i]
    BY <1>1, <1>2, <1>3, <1>4, <2>1 DEF Unmoved, Moving
  <2>3. aside[restores][i] = NoFile
    BY <1>1, <1>2, <1>3, <1>4, <2>1 DEF Early
  <2> QED BY <1>1, <1>2, <1>3, <1>4, <2>2, <2>3 DEF Doubtful, Kept
<1>14. PutBack'
  BY <1>1, <1>2, <1>3, <1>4, Plain
     DEF PutBack, Kept, IsBack, NoFile, Sidecars
<1>15. CopyIsPlaced'
  BY <1>1, <1>2, <1>3, <1>4, Plain
     DEF CopyIsPlaced, Working, Moving, Catching, Staged, Installed, NoFile, Sidecars
<1>16. SidecarsGone'
  BY <1>1, <1>2, <1>3, <1>4, Plain
     DEF SidecarsGone, Working, Moving, Catching, NoFile, Sidecars
<1>17. NothingIsLost'
  BY <1>1, <1>2, <1>3, <1>4, Plain
     DEF NothingIsLost, NoFile, Sidecars
<1>18. EndsDone'
  BY <1>1, <1>2, <1>3, <1>4, Plain
     DEF EndsDone, Kept, NoFile, Sidecars
<1>19. EndsFailed'
  BY <1>1, <1>2, <1>3, <1>4, Plain
     DEF EndsFailed, Kept, NoFile, Sidecars
<1>20. EndsStuck'
  BY <1>1, <1>2, <1>3, <1>4, Plain
     DEF EndsStuck, NoFile, Sidecars
<1>21. CopyStandsAlone'
  BY <1>1, <1>2, <1>3, <1>4, Plain
     DEF CopyStandsAlone, CopyIsPlaced, Working, Moving, Catching, Staged, Installed, NoFile,
         Sidecars
<1> QED BY <1>5, <1>6, <1>7, <1>8, <1>9, <1>10, <1>11, <1>12, <1>13, <1>14, <1>15, <1>16, <1>17,
     <1>18, <1>19, <1>20, <1>21
   DEF Whole

\* The path is looked at before the copy goes in.
LEMMA CheckTargetKeeps ==
  ASSUME IInv, CheckTarget
  PROVE  Whole'
<1>1. /\ restore.at = "moving" /\ restore.plan \subseteq restore.moved
      /\ restore'.at \in {"installing", "caught"}
        /\ restore'.plan = restore.plan
        /\ restore'.moved = restore.moved
        /\ restore'.doing = restore.doing
        /\ restore'.failures = restore.failures
        /\ restore'.was = restore.was
        /\ restore'.copy = restore.copy
        /\ restore'.opened = restore.opened
  BY DEF CheckTarget, Pending, IInv, TypeOK, RestoreRecords
<1>2. UNCHANGED <<live, aside, staging, databases, restores, replaced>>
  BY DEF CheckTarget, backups, volume
<1>3. Numbered /\ Unused /\ Early /\ Sources /\ InOrder /\ Newcomers
      /\ Unmoved /\ LiesAside /\ Doubtful /\ PutBack /\ CopyIsPlaced /\ SidecarsGone
      /\ NothingIsLost /\ EndsDone /\ EndsFailed /\ EndsStuck /\ CopyStandsAlone
  BY Plain DEF Whole
<1>4. Numbered'
  BY <1>1, <1>2, <1>3, Plain
     DEF Numbered, NoFile, Sidecars
<1>5. Unused'
  BY <1>1, <1>2, <1>3, Plain
     DEF Unused, NoFile, Sidecars
<1>6. Early'
  BY <1>1, <1>2, <1>3, Plain
     DEF Early, Moving, NoFile, Sidecars
<1>7. Sources'
  BY <1>1, <1>2, <1>3, Plain
     DEF Sources, Working, Moving, Catching, NoFile, Sidecars
<1>8. InOrder'
  BY <1>1, <1>2, <1>3, Plain
     DEF InOrder, Working, Moving, Catching, Early, CopyIsPlaced, Staged, Installed, NoFile,
         Sidecars
<1>9. Newcomers'
  BY <1>1, <1>2, <1>3, Plain
     DEF Newcomers, Working, Moving, Catching, Fresh, NoFile, Sidecars
<1>10. Unmoved'
  BY <1>1, <1>2, <1>3, Plain
     DEF Unmoved, Moving, Kept, Early, NoFile, Sidecars
<1>11. LiesAside'
  BY <1>1, <1>2, <1>3, Plain
     DEF LiesAside, Working, Moving, Catching, Kept, NoFile, Sidecars
<1>12. Doubtful'
  BY <1>1, <1>2, <1>3, Plain
     DEF Doubtful, Kept, Early, Moving, NoFile, Sidecars
<1>13. PutBack'
  BY <1>1, <1>2, <1>3, Plain
     DEF PutBack, Kept, IsBack, NoFile, Sidecars
<1>14. CopyIsPlaced'
  BY <1>1, <1>2, <1>3, Plain
     DEF CopyIsPlaced, Working, Moving, Catching, Staged, Installed, NoFile, Sidecars
<1>15. SidecarsGone'
  BY <1>1, <1>2, <1>3, Plain
     DEF SidecarsGone, Working, Moving, Catching, NoFile, Sidecars
<1>16. NothingIsLost'
  BY <1>1, <1>2, <1>3, Plain
     DEF NothingIsLost, NoFile, Sidecars
<1>17. EndsDone'
  BY <1>1, <1>2, <1>3, Plain
     DEF EndsDone, Kept, NoFile, Sidecars
<1>18. EndsFailed'
  BY <1>1, <1>2, <1>3, Plain
     DEF EndsFailed, Kept, NoFile, Sidecars
<1>19. EndsStuck'
  BY <1>1, <1>2, <1>3, Plain
     DEF EndsStuck, NoFile, Sidecars
<1>20. CopyStandsAlone'
  BY <1>1, <1>2, <1>3, Plain
     DEF CopyStandsAlone, NoFile, Sidecars
<1> QED BY <1>4, <1>5, <1>6, <1>7, <1>8, <1>9, <1>10, <1>11, <1>12, <1>13, <1>14, <1>15, <1>16,
     <1>17, <1>18, <1>19, <1>20
   DEF Whole

\* The copy goes in; what a server made of the path meanwhile is no file that a
\* restore has to keep.
LEMMA InstallKeeps ==
  ASSUME IInv, InstallCopy, Forth(Install), restore' = [restore EXCEPT !.at = "done"]
  PROVE  Whole'
<1>1. /\ restore.at = "installing" /\ restore'.at = "done"
        /\ restore'.plan = restore.plan
        /\ restore'.moved = restore.moved
        /\ restore'.doing = restore.doing
        /\ restore'.failures = restore.failures
        /\ restore'.was = restore.was
        /\ restore'.copy = restore.copy
        /\ restore'.opened = restore.opened
  BY DEF InstallCopy, IInv, TypeOK, RestoreRecords
<1>2. /\ \A k \in Files : live'[k] = IF k = Main THEN staging ELSE live[k]
      /\ staging' = NoFile /\ UNCHANGED <<aside, databases, restores, replaced>>
  BY CopyMoves DEF InstallCopy, backups, IInv
<1>3. Numbered /\ Unused /\ Early /\ Sources /\ InOrder /\ Newcomers
      /\ Unmoved /\ LiesAside /\ Doubtful /\ PutBack /\ CopyIsPlaced /\ SidecarsGone
      /\ NothingIsLost /\ EndsDone /\ EndsFailed /\ EndsStuck /\ CopyStandsAlone
  BY Plain DEF Whole
<1>4. Numbered'
  <2>1. (\A k \in Files : live[k] <= databases)'
    BY <1>1, <1>2, <1>3, Plain DEF Numbered, NoFile, Sidecars
  <2>2. (\A n \in 1 .. MaxRestores, k \in Files : aside[n][k] <= databases)'
    BY <1>1, <1>2, <1>3, Plain DEF Numbered, NoFile, Sidecars
  <2>3. (staging <= databases /\ restore.copy <= databases)'
    BY <1>1, <1>2, <1>3, Plain DEF Numbered, NoFile, Sidecars
  <2>4. (replaced \subseteq Files \X (1 .. databases))'
    BY <1>1, <1>2, <1>3, Plain DEF Numbered, NoFile, Sidecars
  <2> QED BY <2>1, <2>2, <2>3, <2>4 DEF Numbered
<1>5. Unused'
  BY <1>1, <1>2, <1>3, Plain
     DEF Unused, NoFile, Sidecars
<1>6. Early'
  BY <1>1, <1>2, <1>3, Plain
     DEF Early, Moving, NoFile, Sidecars
<1>7. Sources'
  BY <1>1, <1>2, <1>3, Plain
     DEF Sources, Working, Moving, Catching, NoFile, Sidecars
<1>8. InOrder'
  BY <1>1, <1>2, <1>3, Plain
     DEF InOrder, Working, Moving, Catching, NoFile, Sidecars
<1>9. Newcomers'
  BY <1>1, <1>2, <1>3, Plain
     DEF Newcomers, Working, Moving, Catching, Fresh, NoFile, Sidecars
<1>10. Unmoved'
  BY <1>1, <1>2, <1>3, Plain
     DEF Unmoved, Moving, Kept, NoFile, Sidecars
<1>11. LiesAside'
  BY <1>1, <1>2, <1>3, Plain
     DEF LiesAside, Working, Moving, Catching, Kept, NoFile, Sidecars
<1>12. Doubtful'
  BY <1>1, <1>2, <1>3, Plain
     DEF Doubtful, Kept, NoFile, Sidecars
<1>13. PutBack'
  BY <1>1, <1>2, <1>3, Plain
     DEF PutBack, Kept, IsBack, NoFile, Sidecars
<1>14. CopyIsPlaced'
  BY <1>1, <1>2, <1>3, Plain
     DEF CopyIsPlaced, Working, Moving, Catching, Staged, Installed, NoFile, Sidecars
<1>15. SidecarsGone'
  BY <1>1, <1>2, <1>3, Plain
     DEF SidecarsGone, Working, Moving, Catching, NoFile, Sidecars
<1>16. NothingIsLost'
  <2>1. ASSUME NEW r \in replaced', live[r[1]] = r[2]
        PROVE  live'[r[1]] = r[2] \/ \E n \in 1 .. MaxRestores : aside'[n][r[1]] = r[2]
    BY <1>1, <1>2, <1>3, <2>1, Plain DEF Newcomers, InOrder, Fresh, Working, Moving
  <2>2. ASSUME NEW r \in replaced', NEW n \in 1 .. MaxRestores, aside[n][r[1]] = r[2]
        PROVE  live'[r[1]] = r[2] \/ \E m \in 1 .. MaxRestores : aside'[m][r[1]] = r[2]
    BY <1>1, <1>2, <1>3, <2>2, Plain
  <2>3. replaced' \subseteq replaced
    BY <1>1, <1>2, <1>3
  <2> QED BY <1>3, <2>1, <2>2, <2>3 DEF NothingIsLost
<1>17. EndsDone'
  BY <1>1, <1>2, <1>3, Plain
     DEF EndsDone, Kept, CopyIsPlaced, Working, Moving, Catching, Staged, Installed, InOrder,
         LiesAside, NoFile, Sidecars
<1>18. EndsFailed'
  BY <1>1, <1>2, <1>3, Plain
     DEF EndsFailed, Kept, NoFile, Sidecars
<1>19. EndsStuck'
  BY <1>1, <1>2, <1>3, Plain
     DEF EndsStuck, NoFile, Sidecars
<1>20. CopyStandsAlone'
  BY <1>1, <1>2, <1>3, Plain
     DEF CopyStandsAlone, InOrder, Working, Moving, Catching, SidecarsGone, NoFile, Sidecars
<1> QED BY <1>4, <1>5, <1>6, <1>7, <1>8, <1>9, <1>10, <1>11, <1>12, <1>13, <1>14, <1>15, <1>16,
     <1>17, <1>18, <1>19, <1>20
   DEF Whole

\* The copy goes in and a failure is reported.
LEMMA InstallFails ==
  ASSUME IInv, InstallCopy, Forth(Install),
         restore' = [restore EXCEPT !.at = "caught", !.doing = Install]
  PROVE  Whole'
<1>1. /\ restore.at = "installing" /\ restore'.at = "caught" /\ restore'.doing = Install
        /\ restore'.plan = restore.plan
        /\ restore'.moved = restore.moved
        /\ restore'.failures = restore.failures
        /\ restore'.was = restore.was
        /\ restore'.copy = restore.copy
        /\ restore'.opened = restore.opened
  BY DEF InstallCopy, IInv, TypeOK, RestoreRecords
<1>2. /\ \A k \in Files : live'[k] = IF k = Main THEN staging ELSE live[k]
      /\ staging' = NoFile /\ UNCHANGED <<aside, databases, restores, replaced>>
  BY CopyMoves DEF InstallCopy, backups, IInv
<1>3. Numbered /\ Unused /\ Early /\ Sources /\ InOrder /\ Newcomers
      /\ Unmoved /\ LiesAside /\ Doubtful /\ PutBack /\ CopyIsPlaced /\ SidecarsGone
      /\ NothingIsLost /\ EndsDone /\ EndsFailed /\ EndsStuck /\ CopyStandsAlone
  BY Plain DEF Whole
<1>4. Numbered'
  BY <1>1, <1>2, <1>3, Plain
     DEF Numbered, NoFile, Sidecars
<1>5. Unused'
  BY <1>1, <1>2, <1>3, Plain
     DEF Unused, NoFile, Sidecars
<1>6. Early'
  BY <1>1, <1>2, <1>3, Plain
     DEF Early, Moving, NoFile, Sidecars
<1>7. Sources'
  BY <1>1, <1>2, <1>3, Plain
     DEF Sources, Working, Moving, Catching, NoFile, Sidecars
<1>8. InOrder'
  BY <1>1, <1>2, <1>3, Plain
     DEF InOrder, Working, Moving, Catching, CopyIsPlaced, Staged, Installed, NoFile, Sidecars
<1>9. Newcomers'
  BY <1>1, <1>2, <1>3, Plain
     DEF Newcomers, Working, Moving, Catching, Fresh, Numbered, NoFile, Sidecars
<1>10. Unmoved'
  BY <1>1, <1>2, <1>3, Plain
     DEF Unmoved, Moving, Kept, InOrder, Working, Catching, NoFile, Sidecars
<1>11. LiesAside'
  BY <1>1, <1>2, <1>3, Plain
     DEF LiesAside, Working, Moving, Catching, Kept, NoFile, Sidecars
<1>12. Doubtful'
  BY <1>1, <1>2, <1>3, Plain
     DEF Doubtful, Kept, NoFile, Sidecars
<1>13. PutBack'
  BY <1>1, <1>2, <1>3, Plain
     DEF PutBack, Kept, IsBack, NoFile, Sidecars
<1>14. CopyIsPlaced'
  BY <1>1, <1>2, <1>3, Plain
     DEF CopyIsPlaced, Working, Moving, Catching, Staged, Installed, NoFile, Sidecars
<1>15. SidecarsGone'
  BY <1>1, <1>2, <1>3, Plain
     DEF SidecarsGone, Working, Moving, Catching, NoFile, Sidecars
<1>16. NothingIsLost'
  <2>1. ASSUME NEW r \in replaced', live[r[1]] = r[2]
        PROVE  live'[r[1]] = r[2] \/ \E n \in 1 .. MaxRestores : aside'[n][r[1]] = r[2]
    BY <1>1, <1>2, <1>3, <2>1, Plain DEF Newcomers, InOrder, Fresh, Working, Moving
  <2>2. ASSUME NEW r \in replaced', NEW n \in 1 .. MaxRestores, aside[n][r[1]] = r[2]
        PROVE  live'[r[1]] = r[2] \/ \E m \in 1 .. MaxRestores : aside'[m][r[1]] = r[2]
    BY <1>1, <1>2, <1>3, <2>2, Plain
  <2>3. replaced' \subseteq replaced
    BY <1>1, <1>2, <1>3
  <2> QED BY <1>3, <2>1, <2>2, <2>3 DEF NothingIsLost
<1>17. EndsDone'
  BY <1>1, <1>2, <1>3, Plain
     DEF EndsDone, Kept, NoFile, Sidecars
<1>18. EndsFailed'
  BY <1>1, <1>2, <1>3, Plain
     DEF EndsFailed, Kept, NoFile, Sidecars
<1>19. EndsStuck'
  BY <1>1, <1>2, <1>3, Plain
     DEF EndsStuck, NoFile, Sidecars
<1>20. CopyStandsAlone'
  BY <1>1, <1>2, <1>3, Plain
     DEF CopyStandsAlone, InOrder, Working, Moving, Catching, SidecarsGone, NoFile, Sidecars
<1> QED BY <1>4, <1>5, <1>6, <1>7, <1>8, <1>9, <1>10, <1>11, <1>12, <1>13, <1>14, <1>15, <1>16,
     <1>17, <1>18, <1>19, <1>20
   DEF Whole

\* The copy does not go in.
LEMMA InstallSkips ==
  ASSUME IInv, InstallCopy, UNCHANGED volume,
         restore' = [restore EXCEPT !.at = "caught", !.doing = Install]
  PROVE  Whole'
<1>1. /\ restore.at = "installing" /\ restore'.at = "caught" /\ restore'.doing = Install
        /\ restore'.plan = restore.plan
        /\ restore'.moved = restore.moved
        /\ restore'.failures = restore.failures
        /\ restore'.was = restore.was
        /\ restore'.copy = restore.copy
        /\ restore'.opened = restore.opened
  BY DEF InstallCopy, IInv, TypeOK, RestoreRecords
<1>2. UNCHANGED <<live, aside, staging, databases, restores, replaced>>
  BY DEF InstallCopy, backups, volume
<1>3. Numbered /\ Unused /\ Early /\ Sources /\ InOrder /\ Newcomers
      /\ Unmoved /\ LiesAside /\ Doubtful /\ PutBack /\ CopyIsPlaced /\ SidecarsGone
      /\ NothingIsLost /\ EndsDone /\ EndsFailed /\ EndsStuck /\ CopyStandsAlone
  BY Plain DEF Whole
<1>4. Numbered'
  BY <1>1, <1>2, <1>3, Plain
     DEF Numbered, NoFile, Sidecars
<1>5. Unused'
  BY <1>1, <1>2, <1>3, Plain
     DEF Unused, NoFile, Sidecars
<1>6. Early'
  BY <1>1, <1>2, <1>3, Plain
     DEF Early, Moving, NoFile, Sidecars
<1>7. Sources'
  BY <1>1, <1>2, <1>3, Plain
     DEF Sources, Working, Moving, Catching, NoFile, Sidecars
<1>8. InOrder'
  BY <1>1, <1>2, <1>3, Plain
     DEF InOrder, Working, Moving, Catching, CopyIsPlaced, Staged, Installed, NoFile, Sidecars
<1>9. Newcomers'
  BY <1>1, <1>2, <1>3, Plain
     DEF Newcomers, Working, Moving, Catching, Fresh, NoFile, Sidecars
<1>10. Unmoved'
  BY <1>1, <1>2, <1>3, Plain
     DEF Unmoved, Moving, Kept, InOrder, Working, Catching, NoFile, Sidecars
<1>11. LiesAside'
  BY <1>1, <1>2, <1>3, Plain
     DEF LiesAside, Working, Moving, Catching, Kept, NoFile, Sidecars
<1>12. Doubtful'
  BY <1>1, <1>2, <1>3, Plain
     DEF Doubtful, Kept, NoFile, Sidecars
<1>13. PutBack'
  BY <1>1, <1>2, <1>3, Plain
     DEF PutBack, Kept, IsBack, NoFile, Sidecars
<1>14. CopyIsPlaced'
  BY <1>1, <1>2, <1>3, Plain
     DEF CopyIsPlaced, Working, Moving, Catching, Staged, Installed, NoFile, Sidecars
<1>15. SidecarsGone'
  BY <1>1, <1>2, <1>3, Plain
     DEF SidecarsGone, Working, Moving, Catching, NoFile, Sidecars
<1>16. NothingIsLost'
  BY <1>1, <1>2, <1>3, Plain
     DEF NothingIsLost, NoFile, Sidecars
<1>17. EndsDone'
  BY <1>1, <1>2, <1>3, Plain
     DEF EndsDone, Kept, NoFile, Sidecars
<1>18. EndsFailed'
  BY <1>1, <1>2, <1>3, Plain
     DEF EndsFailed, Kept, NoFile, Sidecars
<1>19. EndsStuck'
  BY <1>1, <1>2, <1>3, Plain
     DEF EndsStuck, NoFile, Sidecars
<1>20. CopyStandsAlone'
  BY <1>1, <1>2, <1>3, Plain
     DEF CopyStandsAlone, NoFile, Sidecars
<1> QED BY <1>4, <1>5, <1>6, <1>7, <1>8, <1>9, <1>10, <1>11, <1>12, <1>13, <1>14, <1>15, <1>16,
     <1>17, <1>18, <1>19, <1>20
   DEF Whole

\* A move that took effect is believed.
LEMMA CatchKeeps ==
  ASSUME IInv, Catch, restore.doing # 0, TookEffect(restore.doing)
  PROVE  Whole'
<1>1. /\ restore.at = "caught" /\ restore'.at = "undoing"
      /\ restore'.moved = restore.moved \cup {restore.doing}
        /\ restore'.plan = restore.plan
        /\ restore'.doing = restore.doing
        /\ restore'.failures = restore.failures
        /\ restore'.was = restore.was
        /\ restore'.copy = restore.copy
        /\ restore'.opened = restore.opened
  BY DEF Catch, IInv, TypeOK, RestoreRecords
<1>2. UNCHANGED <<live, aside, staging, databases, restores, replaced>>
  BY DEF Catch, backups, volume
<1>3. /\ restore.doing # 0
      /\ restore.doing \in Files => live[restore.doing] = NoFile /\ aside[restores][restore.doing] # NoFile
      /\ restore.doing = Install => staging = NoFile /\ live[Main] # NoFile
  BY Plain DEF TookEffect, From, To
<1>4. Numbered /\ Unused /\ Early /\ Sources /\ InOrder /\ Newcomers
      /\ Unmoved /\ LiesAside /\ Doubtful /\ PutBack /\ CopyIsPlaced /\ SidecarsGone
      /\ NothingIsLost /\ EndsDone /\ EndsFailed /\ EndsStuck /\ CopyStandsAlone
  BY Plain DEF Whole
<1>5. Numbered'
  BY <1>1, <1>2, <1>3, <1>4, Plain
     DEF Numbered, NoFile, Sidecars
<1>6. Unused'
  BY <1>1, <1>2, <1>3, <1>4, Plain
     DEF Unused, NoFile, Sidecars
<1>7. Early'
  BY <1>1, <1>2, <1>3, <1>4, Plain
     DEF Early, Moving, NoFile, Sidecars
<1>8. Sources'
  BY <1>1, <1>2, <1>3, <1>4, Plain
     DEF Sources, Working, Moving, Catching, NoFile, Sidecars
<1>9. InOrder'
  BY <1>1, <1>2, <1>3, <1>4, Plain
     DEF InOrder, Working, Moving, Catching, Sources, NoFile, Sidecars
<1>10. Newcomers'
  BY <1>1, <1>2, <1>3, <1>4, Plain
     DEF Newcomers, Working, Moving, Catching, Fresh, InOrder, Sources, Numbered, NoFile, Sidecars
<1>11. Unmoved'
  BY <1>1, <1>2, <1>3, <1>4, Plain
     DEF Unmoved, Moving, Kept, NoFile, Sidecars
<1>12. LiesAside'
  BY <1>1, <1>2, <1>3, <1>4, Plain
     DEF LiesAside, Working, Moving, Catching, Kept, Doubtful, NoFile, Sidecars
<1>13. Doubtful'
  BY <1>1, <1>2, <1>3, <1>4, Plain
     DEF Doubtful, Kept, NoFile, Sidecars
<1>14. PutBack'
  BY <1>1, <1>2, <1>3, <1>4, Plain
     DEF PutBack, Kept, IsBack, Unmoved, Moving, Sources, Working, Catching, NoFile, Sidecars
<1>15. CopyIsPlaced'
  BY <1>1, <1>2, <1>3, <1>4, Plain
     DEF CopyIsPlaced, Working, Moving, Catching, Staged, Installed, Early, Sources, NoFile,
         Sidecars
<1>16. SidecarsGone'
  BY <1>1, <1>2, <1>3, <1>4, Plain
     DEF SidecarsGone, Working, Moving, Catching, NoFile, Sidecars
<1>17. NothingIsLost'
  BY <1>1, <1>2, <1>3, <1>4, Plain
     DEF NothingIsLost, NoFile, Sidecars
<1>18. EndsDone'
  BY <1>1, <1>2, <1>3, <1>4, Plain
     DEF EndsDone, Kept, NoFile, Sidecars
<1>19. EndsFailed'
  BY <1>1, <1>2, <1>3, <1>4, Plain
     DEF EndsFailed, Kept, NoFile, Sidecars
<1>20. EndsStuck'
  BY <1>1, <1>2, <1>3, <1>4, Plain
     DEF EndsStuck, NoFile, Sidecars
<1>21. CopyStandsAlone'
  BY <1>1, <1>2, <1>3, <1>4, Plain
     DEF CopyStandsAlone, NoFile, Sidecars
<1> QED BY <1>5, <1>6, <1>7, <1>8, <1>9, <1>10, <1>11, <1>12, <1>13, <1>14, <1>15, <1>16, <1>17,
     <1>18, <1>19, <1>20, <1>21
   DEF Whole

\* A move that took none, or of which a server has taken the path, is passed over.
LEMMA CatchPasses ==
  ASSUME IInv, Catch, ~(restore.doing # 0 /\ TookEffect(restore.doing))
  PROVE  Whole'
<1>1. /\ restore.at = "caught" /\ restore'.at = "undoing"
        /\ restore'.plan = restore.plan
        /\ restore'.moved = restore.moved
        /\ restore'.doing = restore.doing
        /\ restore'.failures = restore.failures
        /\ restore'.was = restore.was
        /\ restore'.copy = restore.copy
        /\ restore'.opened = restore.opened
  BY DEF Catch, IInv, TypeOK, RestoreRecords
<1>2. UNCHANGED <<live, aside, staging, databases, restores, replaced>>
  BY DEF Catch, backups, volume
<1>3. /\ restore.doing \in Files => live[restore.doing] # NoFile \/ aside[restores][restore.doing] = NoFile
      /\ restore.doing = Install => staging # NoFile \/ live[Main] = NoFile
  BY Plain DEF TookEffect, From, To
<1>4. Numbered /\ Unused /\ Early /\ Sources /\ InOrder /\ Newcomers
      /\ Unmoved /\ LiesAside /\ Doubtful /\ PutBack /\ CopyIsPlaced /\ SidecarsGone
      /\ NothingIsLost /\ EndsDone /\ EndsFailed /\ EndsStuck /\ CopyStandsAlone
  BY Plain DEF Whole
<1>5. Numbered'
  BY <1>1, <1>2, <1>3, <1>4, Plain
     DEF Numbered, NoFile, Sidecars
<1>6. Unused'
  BY <1>1, <1>2, <1>3, <1>4, Plain
     DEF Unused, NoFile, Sidecars
<1>7. Early'
  BY <1>1, <1>2, <1>3, <1>4, Plain
     DEF Early, Moving, NoFile, Sidecars
<1>8. Sources'
  BY <1>1, <1>2, <1>3, <1>4, Plain
     DEF Sources, Working, Moving, Catching, NoFile, Sidecars
<1>9. InOrder'
  BY <1>1, <1>2, <1>3, <1>4, Plain
     DEF InOrder, Working, Moving, Catching, NoFile, Sidecars
<1>10. Newcomers'
  BY <1>1, <1>2, <1>3, <1>4, Plain
     DEF Newcomers, Working, Moving, Catching, Fresh, NoFile, Sidecars
<1>11. Unmoved'
  BY <1>1, <1>2, <1>3, <1>4, Plain
     DEF Unmoved, Moving, Kept, NoFile, Sidecars
<1>12. LiesAside'
  BY <1>1, <1>2, <1>3, <1>4, Plain
     DEF LiesAside, Working, Moving, Catching, Kept, NoFile, Sidecars
<1>13. Doubtful'
  BY <1>1, <1>2, <1>3, <1>4, Plain
     DEF Doubtful, Kept, NoFile, Sidecars
<1>14. PutBack'
  <2> SUFFICES ASSUME NEW i \in restore.plan \ (restore.moved \cup restore.failures), Kept(i)
               PROVE  IsBack(i)
    BY <1>1, <1>2 DEF PutBack, IsBack, Kept
  <2>1. i \in Files /\ restore.was[i] # NoFile
    BY <1>1, <1>4 DEF Sources, Working, Moving, Catching
  <2>2. CASE i = restore.doing
    <3>1. \/ live[i] = restore.was[i]
          \/ /\ aside[restores][i] = restore.was[i]
             /\ live[i] = NoFile \/ restore.opened
      BY <1>1, <1>4, <2>1, <2>2 DEF Doubtful
    <3>2. live[i] # NoFile \/ aside[restores][i] = NoFile
      BY <1>3, <2>1, <2>2
    <3> QED BY <2>1, <2>2, <3>1, <3>2 DEF IsBack
  <2>3. CASE i # restore.doing
    BY <1>1, <1>4, <2>3 DEF Unmoved, IsBack
  <2> QED BY <2>2, <2>3
<1>15. CopyIsPlaced'
  BY <1>1, <1>2, <1>3, <1>4, Plain
     DEF CopyIsPlaced, Working, Moving, Catching, Staged, Installed, Early, Sources, NoFile,
         Sidecars
<1>16. SidecarsGone'
  BY <1>1, <1>2, <1>3, <1>4, Plain
     DEF SidecarsGone, Working, Moving, Catching, NoFile, Sidecars
<1>17. NothingIsLost'
  BY <1>1, <1>2, <1>3, <1>4, Plain
     DEF NothingIsLost, NoFile, Sidecars
<1>18. EndsDone'
  BY <1>1, <1>2, <1>3, <1>4, Plain
     DEF EndsDone, Kept, NoFile, Sidecars
<1>19. EndsFailed'
  BY <1>1, <1>2, <1>3, <1>4, Plain
     DEF EndsFailed, Kept, NoFile, Sidecars
<1>20. EndsStuck'
  BY <1>1, <1>2, <1>3, <1>4, Plain
     DEF EndsStuck, NoFile, Sidecars
<1>21. CopyStandsAlone'
  BY <1>1, <1>2, <1>3, <1>4, Plain
     DEF CopyStandsAlone, NoFile, Sidecars
<1> QED BY <1>5, <1>6, <1>7, <1>8, <1>9, <1>10, <1>11, <1>12, <1>13, <1>14, <1>15, <1>16, <1>17,
     <1>18, <1>19, <1>20, <1>21
   DEF Whole

\* The path a file goes back to is free.
LEMMA CheckUndoKeeps ==
  ASSUME IInv, CheckUndo, From(Undoing) = NoFile
  PROVE  Whole'
<1>1. /\ restore.at = "undoing" /\ restore.moved # {} /\ restore'.at = "undo"
        /\ restore'.plan = restore.plan
        /\ restore'.moved = restore.moved
        /\ restore'.doing = restore.doing
        /\ restore'.failures = restore.failures
        /\ restore'.was = restore.was
        /\ restore'.copy = restore.copy
        /\ restore'.opened = restore.opened
  BY DEF CheckUndo, IInv, TypeOK, RestoreRecords
<1>2. UNCHANGED <<live, aside, staging, databases, restores, replaced>>
  BY DEF CheckUndo, backups, volume
<1>3. Undoing' = Undoing /\ (Undoing = Main => live[Main] = NoFile)
  BY <1>1, Plain DEF From, Undoing
<1>4. Numbered /\ Unused /\ Early /\ Sources /\ InOrder /\ Newcomers
      /\ Unmoved /\ LiesAside /\ Doubtful /\ PutBack /\ CopyIsPlaced /\ SidecarsGone
      /\ NothingIsLost /\ EndsDone /\ EndsFailed /\ EndsStuck /\ CopyStandsAlone
  BY Plain DEF Whole
<1>5. Numbered'
  BY <1>1, <1>2, <1>3, <1>4, Plain
     DEF Numbered, NoFile, Sidecars
<1>6. Unused'
  BY <1>1, <1>2, <1>3, <1>4, Plain
     DEF Unused, NoFile, Sidecars
<1>7. Early'
  BY <1>1, <1>2, <1>3, <1>4, Plain
     DEF Early, Moving, NoFile, Sidecars
<1>8. Sources'
  BY <1>1, <1>2, <1>3, <1>4, Plain
     DEF Sources, Working, Moving, Catching, NoFile, Sidecars
<1>9. InOrder'
  BY <1>1, <1>2, <1>3, <1>4, Plain
     DEF InOrder, Working, Moving, Catching, NoFile, Sidecars
<1>10. Newcomers'
  BY <1>1, <1>2, <1>3, <1>4, Plain
     DEF Newcomers, Working, Moving, Catching, Fresh, NoFile, Sidecars
<1>11. Unmoved'
  BY <1>1, <1>2, <1>3, <1>4, Plain
     DEF Unmoved, Moving, Kept, NoFile, Sidecars
<1>12. LiesAside'
  BY <1>1, <1>2, <1>3, <1>4, Plain
     DEF LiesAside, Working, Moving, Catching, Kept, NoFile, Sidecars
<1>13. Doubtful'
  BY <1>1, <1>2, <1>3, <1>4, Plain
     DEF Doubtful, Kept, NoFile, Sidecars
<1>14. PutBack'
  BY <1>1, <1>2, <1>3, <1>4, Plain
     DEF PutBack, Kept, IsBack, NoFile, Sidecars
<1>15. CopyIsPlaced'
  BY <1>1, <1>2, <1>3, <1>4, Plain
     DEF CopyIsPlaced, Working, Moving, Catching, Staged, Installed, NoFile, Sidecars
<1>16. SidecarsGone'
  BY <1>1, <1>2, <1>3, <1>4, Plain
     DEF SidecarsGone, Working, Moving, Catching, NoFile, Sidecars
<1>17. NothingIsLost'
  BY <1>1, <1>2, <1>3, <1>4, Plain
     DEF NothingIsLost, NoFile, Sidecars
<1>18. EndsDone'
  BY <1>1, <1>2, <1>3, <1>4, Plain
     DEF EndsDone, Kept, NoFile, Sidecars
<1>19. EndsFailed'
  BY <1>1, <1>2, <1>3, <1>4, Plain
     DEF EndsFailed, Kept, NoFile, Sidecars
<1>20. EndsStuck'
  BY <1>1, <1>2, <1>3, <1>4, Plain
     DEF EndsStuck, NoFile, Sidecars
<1>21. CopyStandsAlone'
  BY <1>1, <1>2, <1>3, <1>4, Plain
     DEF CopyStandsAlone, NoFile, Sidecars
<1> QED BY <1>5, <1>6, <1>7, <1>8, <1>9, <1>10, <1>11, <1>12, <1>13, <1>14, <1>15, <1>16, <1>17,
     <1>18, <1>19, <1>20, <1>21
   DEF Whole

\* A move back is left alone because its path is occupied, or takes no effect.
LEMMA UndoSkips ==
  ASSUME IInv, NEW i, i = Undoing, restore.moved # {},
         restore.at \in {"undoing", "undo"},
         restore' = [restore EXCEPT !.at = "undoing", !.moved = @ \ {i}, !.failures = @ \cup {i}],
         UNCHANGED <<live, aside, staging, databases, restores, replaced>>
  PROVE  Whole'
<1>1. /\ i \in restore.moved /\ (Install \in restore.moved => i = Install)
      /\ i = Main => restore.moved = {Main}
  BY MoveUndone DEF IInv
<1>2. /\ restore.at \in {"undoing", "undo"} /\ restore'.at = "undoing"
      /\ restore'.moved = restore.moved \ {i} /\ restore'.failures = restore.failures \cup {i}
        /\ restore'.plan = restore.plan
        /\ restore'.doing = restore.doing
        /\ restore'.was = restore.was
        /\ restore'.copy = restore.copy
        /\ restore'.opened = restore.opened
  BY DEF IInv, TypeOK, RestoreRecords
<1>3. UNCHANGED <<live, aside, staging, databases, restores, replaced>>
  OBVIOUS
<1>4. Numbered /\ Unused /\ Early /\ Sources /\ InOrder /\ Newcomers
      /\ Unmoved /\ LiesAside /\ Doubtful /\ PutBack /\ CopyIsPlaced /\ SidecarsGone
      /\ NothingIsLost /\ EndsDone /\ EndsFailed /\ EndsStuck /\ CopyStandsAlone
  BY Plain DEF Whole
<1>5. Numbered'
  BY <1>1, <1>2, <1>3, <1>4, Plain
     DEF Numbered, NoFile, Sidecars
<1>6. Unused'
  BY <1>1, <1>2, <1>3, <1>4, Plain
     DEF Unused, NoFile, Sidecars
<1>7. Early'
  BY <1>1, <1>2, <1>3, <1>4, Plain
     DEF Early, Moving, NoFile, Sidecars
<1>8. Sources'
  BY <1>1, <1>2, <1>3, <1>4, Plain
     DEF Sources, Working, Moving, Catching, NoFile, Sidecars
<1>9. InOrder'
  BY <1>1, <1>2, <1>3, <1>4, Plain
     DEF InOrder, Working, Moving, Catching, Sources, NoFile, Sidecars
<1>10. Newcomers'
  BY <1>1, <1>2, <1>3, <1>4, Plain
     DEF Newcomers, Working, Moving, Catching, Fresh, NoFile, Sidecars
<1>11. Unmoved'
  BY <1>1, <1>2, <1>3, <1>4, Plain
     DEF Unmoved, Moving, Kept, NoFile, Sidecars
<1>12. LiesAside'
  BY <1>1, <1>2, <1>3, <1>4, Plain
     DEF LiesAside, Working, Moving, Catching, Kept, NoFile, Sidecars
<1>13. Doubtful'
  BY <1>1, <1>2, <1>3, <1>4, Plain
     DEF Doubtful, Kept, NoFile, Sidecars
<1>14. PutBack'
  BY <1>1, <1>2, <1>3, <1>4, Plain
     DEF PutBack, Kept, IsBack, NoFile, Sidecars
<1>15. CopyIsPlaced'
  BY <1>1, <1>2, <1>3, <1>4, Plain
     DEF CopyIsPlaced, Working, Moving, Catching, Staged, Installed, NoFile, Sidecars
<1>16. SidecarsGone'
  BY <1>1, <1>2, <1>3, <1>4, Plain
     DEF SidecarsGone, Working, Moving, Catching, Sources, NoFile, Sidecars
<1>17. NothingIsLost'
  BY <1>1, <1>2, <1>3, <1>4, Plain
     DEF NothingIsLost, NoFile, Sidecars
<1>18. EndsDone'
  BY <1>1, <1>2, <1>3, <1>4, Plain
     DEF EndsDone, Kept, NoFile, Sidecars
<1>19. EndsFailed'
  BY <1>1, <1>2, <1>3, <1>4, Plain
     DEF EndsFailed, Kept, NoFile, Sidecars
<1>20. EndsStuck'
  BY <1>1, <1>2, <1>3, <1>4, Plain
     DEF EndsStuck, NoFile, Sidecars
<1>21. CopyStandsAlone'
  BY <1>1, <1>2, <1>3, <1>4, Plain
     DEF CopyStandsAlone, NoFile, Sidecars
<1> QED BY <1>5, <1>6, <1>7, <1>8, <1>9, <1>10, <1>11, <1>12, <1>13, <1>14, <1>15, <1>16, <1>17,
     <1>18, <1>19, <1>20, <1>21
   DEF Whole

\* A file goes back, whatever is reported: what a server made of its path is no
\* file that a restore has to keep.
LEMMA UndoKeeps ==
  ASSUME IInv, Undo, NEW i, i = Undoing, i # Install, Back(i), restore'.at = "undoing",
         restore'.moved = restore.moved \ {i},
         restore'.failures \in {restore.failures, restore.failures \cup {i}},
         UNCHANGED <<restore.plan, restore.doing, restore.was, restore.copy, restore.opened>>
  PROVE  Whole'
<1>1. /\ restore.at = "undo" /\ i \in restore.moved /\ i \in Files /\ i \in restore.plan
      /\ Install \notin restore.moved
      /\ i = Main => restore.moved = {Main}
      /\ restores \in 1 .. MaxRestores
  BY MoveUndone, Plain DEF Undo, IInv, Whole, InOrder, Sources, Unused, Working, Catching
<1>2. /\ restore'.at = "undoing" /\ restore'.moved = restore.moved \ {i}
      /\ restore'.failures \in {restore.failures, restore.failures \cup {i}}
        /\ restore'.plan = restore.plan
        /\ restore'.doing = restore.doing
        /\ restore'.was = restore.was
        /\ restore'.copy = restore.copy
        /\ restore'.opened = restore.opened
  OBVIOUS
<1>3. /\ live'[i] = aside[restores][i] /\ \A k \in Files : k # i => live'[k] = live[k]
      /\ aside'[restores][i] = NoFile
      /\ \A n \in 1 .. MaxRestores, k \in Files :
           n # restores \/ k # i => aside'[n][k] = aside[n][k]
      /\ UNCHANGED <<staging, databases, restores, replaced>>
  BY <1>1, BackMoves DEF Undo, backups, IInv
<1>4. Numbered /\ Unused /\ Early /\ Sources /\ InOrder /\ Newcomers
      /\ Unmoved /\ LiesAside /\ Doubtful /\ PutBack /\ CopyIsPlaced /\ SidecarsGone
      /\ NothingIsLost /\ EndsDone /\ EndsFailed /\ EndsStuck /\ CopyStandsAlone
  BY Plain DEF Whole
<1>5. Numbered'
  <2>1. ASSUME NEW k \in Files PROVE live'[k] <= databases'
    <3>1. live[k] <= databases /\ live[i] <= databases /\ aside[restores][i] <= databases /\ 0 <= databases
      BY <1>1, <1>4, Plain DEF Numbered
    <3> QED BY <1>1, <1>3, <3>1 DEF NoFile
  <2>2. ASSUME NEW n \in 1 .. MaxRestores, NEW k \in Files PROVE aside'[n][k] <= databases'
    <3>1. aside[n][k] <= databases /\ live[i] <= databases /\ 0 <= databases
      BY <1>1, <1>4, Plain DEF Numbered
    <3> QED BY <1>1, <1>3, <3>1 DEF NoFile
  <2>3. (staging <= databases /\ restore.copy <= databases)'
    BY <1>1, <1>2, <1>3, <1>4, Plain DEF Numbered
  <2>4. (replaced \subseteq Files \X (1 .. databases))'
    BY <1>1, <1>2, <1>3, <1>4, Plain DEF Numbered
  <2> QED BY <2>1, <2>2, <2>3, <2>4 DEF Numbered
<1>6. Unused'
  BY <1>1, <1>2, <1>3, <1>4, Plain
     DEF Unused, NoFile, Sidecars
<1>7. Early'
  BY <1>1, <1>2, <1>3, <1>4, Plain
     DEF Early, Moving, NoFile, Sidecars
<1>8. Sources'
  BY <1>1, <1>2, <1>3, <1>4, Plain
     DEF Sources, Working, Moving, Catching, NoFile, Sidecars
<1>9. InOrder'
  BY <1>1, <1>2, <1>3, <1>4, Plain
     DEF InOrder, Working, Moving, Catching, Sources, NoFile, Sidecars
<1>10. Newcomers'
  BY <1>1, <1>2, <1>3, <1>4, Plain
     DEF Newcomers, Working, Moving, Catching, Fresh, NoFile, Sidecars
<1>11. Unmoved'
  BY <1>1, <1>2, <1>3, <1>4, Plain
     DEF Unmoved, Moving, Kept, NoFile, Sidecars
<1>12. LiesAside'
  BY <1>1, <1>2, <1>3, <1>4, Plain
     DEF LiesAside, Working, Moving, Catching, Kept, NoFile, Sidecars
<1>13. Doubtful'
  BY <1>1, <1>2, <1>3, <1>4, Plain
     DEF Doubtful, Kept, NoFile, Sidecars
<1>14. PutBack'
  BY <1>1, <1>2, <1>3, <1>4, Plain, SMTT(30)
     DEF PutBack, Kept, IsBack, LiesAside, Working, Moving, Catching, NoFile, Sidecars
<1>15. CopyIsPlaced'
  BY <1>1, <1>2, <1>3, <1>4, Plain
     DEF CopyIsPlaced, Working, Moving, Catching, Staged, Installed, NoFile, Sidecars
<1>16. SidecarsGone'
  BY <1>1, <1>2, <1>3, <1>4, Plain
     DEF SidecarsGone, Working, Moving, Catching, Sources, NoFile, Sidecars
<1>17. NothingIsLost'
  <2>1. ASSUME NEW r \in replaced', live[r[1]] = r[2]
        PROVE  live'[r[1]] = r[2] \/ \E n \in 1 .. MaxRestores : aside'[n][r[1]] = r[2]
    BY <1>1, <1>2, <1>3, <1>4, <2>1, Plain DEF Newcomers, Working, Catching
  <2>2. ASSUME NEW r \in replaced', NEW n \in 1 .. MaxRestores, aside[n][r[1]] = r[2]
        PROVE  live'[r[1]] = r[2] \/ \E m \in 1 .. MaxRestores : aside'[m][r[1]] = r[2]
    <3>1. r[1] \in Files
      BY <1>1, <1>2, <1>3, <1>4, Plain
    <3>2. CASE n = restores /\ r[1] = i
      BY <1>1, <1>2, <1>3, <1>4, <2>2, <3>1, <3>2, Plain
    <3>3. CASE ~(n = restores /\ r[1] = i)
      BY <1>1, <1>2, <1>3, <1>4, <2>2, <3>1, <3>3
    <3> QED BY <3>2, <3>3
  <2>3. replaced' \subseteq replaced
    BY <1>1, <1>2, <1>3, <1>4
  <2> QED BY <1>4, <2>1, <2>2, <2>3 DEF NothingIsLost
<1>18. EndsDone'
  BY <1>1, <1>2, <1>3, <1>4, Plain
     DEF EndsDone, Kept, NoFile, Sidecars
<1>19. EndsFailed'
  BY <1>1, <1>2, <1>3, <1>4, Plain
     DEF EndsFailed, Kept, NoFile, Sidecars
<1>20. EndsStuck'
  BY <1>1, <1>2, <1>3, <1>4, Plain
     DEF EndsStuck, NoFile, Sidecars
<1>21. CopyStandsAlone'
  BY <1>1, <1>2, <1>3, <1>4, Plain
     DEF CopyStandsAlone, CopyIsPlaced, Working, Moving, Catching, Staged, Installed, NoFile,
         Sidecars
<1> QED BY <1>5, <1>6, <1>7, <1>8, <1>9, <1>10, <1>11, <1>12, <1>13, <1>14, <1>15, <1>16, <1>17,
     <1>18, <1>19, <1>20, <1>21
   DEF Whole

\* The copy goes back to where it was decrypted.
LEMMA UndoCopyKeeps ==
  ASSUME IInv, Undo, Undoing = Install, Back(Install), restore'.at = "undoing",
         restore'.moved = restore.moved \ {Install},
         restore'.failures \in {restore.failures, restore.failures \cup {Install}},
         UNCHANGED <<restore.plan, restore.doing, restore.was, restore.copy, restore.opened>>
  PROVE  Whole'
<1>1. restore.at = "undo" /\ Install \in restore.moved /\ restore.plan \subseteq restore.moved
  BY MoveUndone, Plain DEF Undo, IInv, Whole, InOrder, Working, Catching
<1>2. /\ restore'.at = "undoing" /\ restore'.moved = restore.moved \ {Install}
      /\ restore'.failures \in {restore.failures, restore.failures \cup {Install}}
        /\ restore'.plan = restore.plan
        /\ restore'.doing = restore.doing
        /\ restore'.was = restore.was
        /\ restore'.copy = restore.copy
        /\ restore'.opened = restore.opened
  OBVIOUS
<1>3. /\ \A k \in Files : live'[k] = IF k = Main THEN NoFile ELSE live[k]
      /\ staging' = live[Main] /\ UNCHANGED <<aside, databases, restores, replaced>>
  BY CopyMoves DEF Undo, backups, IInv
<1>4. Numbered /\ Unused /\ Early /\ Sources /\ InOrder /\ Newcomers
      /\ Unmoved /\ LiesAside /\ Doubtful /\ PutBack /\ CopyIsPlaced /\ SidecarsGone
      /\ NothingIsLost /\ EndsDone /\ EndsFailed /\ EndsStuck /\ CopyStandsAlone
  BY Plain DEF Whole
<1>5. Numbered'
  BY <1>1, <1>2, <1>3, <1>4, Plain
     DEF Numbered, NoFile, Sidecars
<1>6. Unused'
  BY <1>1, <1>2, <1>3, <1>4, Plain
     DEF Unused, NoFile, Sidecars
<1>7. Early'
  BY <1>1, <1>2, <1>3, <1>4, Plain
     DEF Early, Moving, NoFile, Sidecars
<1>8. Sources'
  BY <1>1, <1>2, <1>3, <1>4, Plain
     DEF Sources, Working, Moving, Catching, NoFile, Sidecars
<1>9. InOrder'
  BY <1>1, <1>2, <1>3, <1>4, Plain
     DEF InOrder, Working, Moving, Catching, Sources, NoFile, Sidecars
<1>10. Newcomers'
  BY <1>1, <1>2, <1>3, <1>4, Plain
     DEF Newcomers, Working, Moving, Catching, Fresh, Numbered, NoFile, Sidecars
<1>11. Unmoved'
  BY <1>1, <1>2, <1>3, <1>4, Plain
     DEF Unmoved, Moving, Kept, NoFile, Sidecars
<1>12. LiesAside'
  BY <1>1, <1>2, <1>3, <1>4, Plain
     DEF LiesAside, Working, Moving, Catching, Kept, NoFile, Sidecars
<1>13. Doubtful'
  BY <1>1, <1>2, <1>3, <1>4, Plain
     DEF Doubtful, Kept, NoFile, Sidecars
<1>14. PutBack'
  BY <1>1, <1>2, <1>3, <1>4, Plain
     DEF PutBack, Kept, IsBack, NoFile, Sidecars
<1>15. CopyIsPlaced'
  BY <1>1, <1>2, <1>3, <1>4, Plain
     DEF CopyIsPlaced, Working, Moving, Catching, Staged, Installed, NoFile, Sidecars
<1>16. SidecarsGone'
  BY <1>1, <1>2, <1>3, <1>4, Plain
     DEF SidecarsGone, Working, Moving, Catching, NoFile, Sidecars
<1>17. NothingIsLost'
  <2>1. ASSUME NEW r \in replaced', live[r[1]] = r[2]
        PROVE  live'[r[1]] = r[2] \/ \E n \in 1 .. MaxRestores : aside'[n][r[1]] = r[2]
    BY <1>1, <1>2, <1>3, <1>4, <2>1, Plain DEF Newcomers, Fresh, Working, Catching
  <2>2. ASSUME NEW r \in replaced', NEW n \in 1 .. MaxRestores, aside[n][r[1]] = r[2]
        PROVE  live'[r[1]] = r[2] \/ \E m \in 1 .. MaxRestores : aside'[m][r[1]] = r[2]
    BY <1>1, <1>2, <1>3, <1>4, <2>2, Plain
  <2>3. replaced' \subseteq replaced
    BY <1>1, <1>2, <1>3, <1>4
  <2> QED BY <1>4, <2>1, <2>2, <2>3 DEF NothingIsLost
<1>18. EndsDone'
  BY <1>1, <1>2, <1>3, <1>4, Plain
     DEF EndsDone, Kept, NoFile, Sidecars
<1>19. EndsFailed'
  BY <1>1, <1>2, <1>3, <1>4, Plain
     DEF EndsFailed, Kept, NoFile, Sidecars
<1>20. EndsStuck'
  BY <1>1, <1>2, <1>3, <1>4, Plain
     DEF EndsStuck, NoFile, Sidecars
<1>21. CopyStandsAlone'
  BY <1>1, <1>2, <1>3, <1>4, Plain
     DEF CopyStandsAlone, NoFile, Sidecars
<1> QED BY <1>5, <1>6, <1>7, <1>8, <1>9, <1>10, <1>11, <1>12, <1>13, <1>14, <1>15, <1>16, <1>17,
     <1>18, <1>19, <1>20, <1>21
   DEF Whole

\* Everything has been put back, or something could not be.
LEMMA GiveUpKeeps ==
  ASSUME IInv, GiveUp
  PROVE  Whole'
<1>1. \E x \in {"failed", "stuck"} : restore' = [restore EXCEPT !.at = x]
  BY DEF GiveUp
<1>2. /\ restore'.plan = restore.plan
      /\ restore'.moved = restore.moved
      /\ restore'.doing = restore.doing
      /\ restore'.failures = restore.failures
      /\ restore'.was = restore.was
      /\ restore'.copy = restore.copy
      /\ restore'.opened = restore.opened
  BY <1>1 DEF IInv, TypeOK, RestoreRecords
<1>3. /\ restore.at = "undoing" /\ restore.moved = {}
      /\ \/ restore'.at = "failed" /\ restore.failures = {} /\ staging' = NoFile
         \/ restore'.at = "stuck" /\ restore.failures # {} /\ staging' = staging
  BY DEF GiveUp, IInv, TypeOK, RestoreRecords
<1>4. UNCHANGED <<live, aside, databases, restores, replaced>>
  BY DEF GiveUp, backups
<1>5. Numbered /\ Unused /\ Early /\ Sources /\ InOrder /\ Newcomers
      /\ Unmoved /\ LiesAside /\ Doubtful /\ PutBack /\ CopyIsPlaced /\ SidecarsGone
      /\ NothingIsLost /\ EndsDone /\ EndsFailed /\ EndsStuck /\ CopyStandsAlone
  BY Plain DEF Whole
<1>6. Numbered'
  BY <1>2, <1>3, <1>4, <1>5, Plain
     DEF Numbered, NoFile, Sidecars
<1>7. Unused'
  BY <1>2, <1>3, <1>4, <1>5, Plain
     DEF Unused, NoFile, Sidecars
<1>8. Early'
  BY <1>2, <1>3, <1>4, <1>5, Plain
     DEF Early, Moving, NoFile, Sidecars
<1>9. Sources'
  BY <1>2, <1>3, <1>4, <1>5, Plain
     DEF Sources, Working, Moving, Catching, NoFile, Sidecars
<1>10. InOrder'
  BY <1>2, <1>3, <1>4, <1>5, Plain
     DEF InOrder, Working, Moving, Catching, NoFile, Sidecars
<1>11. Newcomers'
  BY <1>2, <1>3, <1>4, <1>5, Plain
     DEF Newcomers, Working, Moving, Catching, Fresh, NoFile, Sidecars
<1>12. Unmoved'
  BY <1>2, <1>3, <1>4, <1>5, Plain
     DEF Unmoved, Moving, Kept, NoFile, Sidecars
<1>13. LiesAside'
  BY <1>2, <1>3, <1>4, <1>5, Plain
     DEF LiesAside, Working, Moving, Catching, Kept, NoFile, Sidecars
<1>14. Doubtful'
  BY <1>2, <1>3, <1>4, <1>5, Plain
     DEF Doubtful, Kept, NoFile, Sidecars
<1>15. PutBack'
  BY <1>2, <1>3, <1>4, <1>5, Plain
     DEF PutBack, Kept, IsBack, NoFile, Sidecars
<1>16. CopyIsPlaced'
  BY <1>2, <1>3, <1>4, <1>5, Plain
     DEF CopyIsPlaced, Working, Moving, Catching, Staged, Installed, NoFile, Sidecars
<1>17. SidecarsGone'
  BY <1>2, <1>3, <1>4, <1>5, Plain
     DEF SidecarsGone, Working, Moving, Catching, NoFile, Sidecars
<1>18. NothingIsLost'
  BY <1>2, <1>3, <1>4, <1>5, Plain
     DEF NothingIsLost, NoFile, Sidecars
<1>19. EndsDone'
  BY <1>2, <1>3, <1>4, <1>5, Plain
     DEF EndsDone, Kept, NoFile, Sidecars
<1>20. EndsFailed'
  BY <1>2, <1>3, <1>4, <1>5, Plain
     DEF EndsFailed, Kept, PutBack, IsBack, CopyIsPlaced, Working, Moving, Catching, Staged,
         Installed, NoFile, Sidecars
<1>21. EndsStuck'
  BY <1>2, <1>3, <1>4, <1>5, Plain
     DEF EndsStuck, CopyIsPlaced, Working, Moving, Catching, Staged, Installed, NoFile, Sidecars
<1>22. CopyStandsAlone'
  BY <1>2, <1>3, <1>4, <1>5, Plain
     DEF CopyStandsAlone, NoFile, Sidecars
<1> QED BY <1>6, <1>7, <1>8, <1>9, <1>10, <1>11, <1>12, <1>13, <1>14, <1>15, <1>16, <1>17, <1>18,
     <1>19, <1>20, <1>21, <1>22
   DEF Whole

\* A restore is killed: what it has moved stays moved.
LEMMA KillKeeps ==
  ASSUME IInv, KillRestore
  PROVE  Whole'
<1>1. /\ restore'.at = "killed" /\ restore.at # "idle" /\ restore'.failures = restore.failures
      /\ restore'.copy = restore.copy /\ restore'.opened = restore.opened
  BY DEF KillRestore, NoRestore, Ended
<1>2. UNCHANGED <<live, aside, staging, databases, restores, replaced>>
  BY DEF KillRestore, backups, volume
<1>3. Numbered /\ Unused /\ Early /\ Sources /\ InOrder /\ Newcomers
      /\ Unmoved /\ LiesAside /\ Doubtful /\ PutBack /\ CopyIsPlaced /\ SidecarsGone
      /\ NothingIsLost /\ EndsDone /\ EndsFailed /\ EndsStuck /\ CopyStandsAlone
  BY Plain DEF Whole
<1>4. Numbered'
  BY <1>1, <1>2, <1>3, Plain
     DEF Numbered, NoFile, Sidecars
<1>5. Unused'
  BY <1>1, <1>2, <1>3, Plain
     DEF Unused, NoFile, Sidecars
<1>6. Early'
  BY <1>1, <1>2, <1>3, Plain
     DEF Early, Moving, NoFile, Sidecars
<1>7. Sources'
  BY <1>1, <1>2, <1>3, Plain
     DEF Sources, Working, Moving, Catching, NoFile, Sidecars
<1>8. InOrder'
  BY <1>1, <1>2, <1>3, Plain
     DEF InOrder, Working, Moving, Catching, NoFile, Sidecars
<1>9. Newcomers'
  BY <1>1, <1>2, <1>3, Plain
     DEF Newcomers, Working, Moving, Catching, Fresh, NoFile, Sidecars
<1>10. Unmoved'
  BY <1>1, <1>2, <1>3, Plain
     DEF Unmoved, Moving, Kept, NoFile, Sidecars
<1>11. LiesAside'
  BY <1>1, <1>2, <1>3, Plain
     DEF LiesAside, Working, Moving, Catching, Kept, NoFile, Sidecars
<1>12. Doubtful'
  BY <1>1, <1>2, <1>3, Plain
     DEF Doubtful, Kept, NoFile, Sidecars
<1>13. PutBack'
  BY <1>1, <1>2, <1>3, Plain
     DEF PutBack, Kept, IsBack, NoFile, Sidecars
<1>14. CopyIsPlaced'
  BY <1>1, <1>2, <1>3, Plain
     DEF CopyIsPlaced, Working, Moving, Catching, Staged, Installed, NoFile, Sidecars
<1>15. SidecarsGone'
  BY <1>1, <1>2, <1>3, Plain
     DEF SidecarsGone, Working, Moving, Catching, NoFile, Sidecars
<1>16. NothingIsLost'
  BY <1>1, <1>2, <1>3, Plain
     DEF NothingIsLost, NoFile, Sidecars
<1>17. EndsDone'
  BY <1>1, <1>2, <1>3, Plain
     DEF EndsDone, Kept, NoFile, Sidecars
<1>18. EndsFailed'
  BY <1>1, <1>2, <1>3, Plain
     DEF EndsFailed, Kept, NoFile, Sidecars
<1>19. EndsStuck'
  BY <1>1, <1>2, <1>3, Plain
     DEF EndsStuck, NoFile, Sidecars
<1>20. CopyStandsAlone'
  BY <1>1, <1>2, <1>3, Plain
     DEF CopyStandsAlone, NoFile, Sidecars
<1> QED BY <1>4, <1>5, <1>6, <1>7, <1>8, <1>9, <1>10, <1>11, <1>12, <1>13, <1>14, <1>15, <1>16,
     <1>17, <1>18, <1>19, <1>20
   DEF Whole

\* A server that finds no database creates one, and takes the sidecars away.
LEMMA StartFreshKeeps ==
  ASSUME IInv, StartServer, live[Main] = NoFile
  PROVE  Whole'
<1>1. /\ restore'.at = restore.at
        /\ restore'.plan = restore.plan
        /\ restore'.moved = restore.moved
        /\ restore'.doing = restore.doing
        /\ restore'.failures = restore.failures
        /\ restore'.was = restore.was
        /\ restore'.copy = restore.copy
        /\ restore'.opened = (restore.opened \/ restore.at \notin Ended)
  BY DEF StartServer, IInv, TypeOK, RestoreRecords
<1>2. /\ databases' = databases + 1 /\ \A k \in Files : live'[k] = databases + 1
      /\ replaced' \subseteq replaced
      /\ \A k \in Files, d \in Nat : <<k, d>> \in replaced' => k = Main \/ live[k] # d
      /\ UNCHANGED <<aside, staging, restores>> /\ live[Main] = NoFile
  BY Plain DEF StartServer
<1>3. Undoing' = Undoing
  BY <1>1 DEF Undoing
<1>4. Numbered /\ Unused /\ Early /\ Sources /\ InOrder /\ Newcomers
      /\ Unmoved /\ LiesAside /\ Doubtful /\ PutBack /\ CopyIsPlaced /\ SidecarsGone
      /\ NothingIsLost /\ EndsDone /\ EndsFailed /\ EndsStuck /\ CopyStandsAlone
  BY Plain DEF Whole
<1>5. Numbered'
  <2>1. (\A k \in Files : live[k] <= databases)'
    BY <1>1, <1>2, <1>3, <1>4, Plain DEF Numbered, NoFile, Sidecars
  <2>2. (\A n \in 1 .. MaxRestores, k \in Files : aside[n][k] <= databases)'
    BY <1>1, <1>2, <1>3, <1>4, Plain DEF Numbered, NoFile, Sidecars
  <2>3. (staging <= databases /\ restore.copy <= databases)'
    BY <1>1, <1>2, <1>3, <1>4, Plain DEF Numbered, NoFile, Sidecars
  <2>4. (replaced \subseteq Files \X (1 .. databases))'
    BY <1>1, <1>2, <1>3, <1>4, Plain DEF Numbered, NoFile, Sidecars
  <2> QED BY <2>1, <2>2, <2>3, <2>4 DEF Numbered
<1>6. Unused'
  BY <1>1, <1>2, <1>3, <1>4, Plain
     DEF Unused, NoFile, Sidecars
<1>7. Early'
  BY <1>1, <1>2, <1>3, <1>4, Plain
     DEF Early, Moving, NoFile, Sidecars
<1>8. Sources'
  BY <1>1, <1>2, <1>3, <1>4, Plain
     DEF Sources, Working, Moving, Catching, NoFile, Sidecars
<1>9. InOrder'
  BY <1>1, <1>2, <1>3, <1>4, Plain
     DEF InOrder, Working, Moving, Catching, NoFile, Sidecars
<1>10. Newcomers'
  BY <1>1, <1>2, <1>3, <1>4, Plain
     DEF Newcomers, Working, Moving, Catching, Fresh, Numbered, NoFile, Sidecars
<1>11. Unmoved'
  BY <1>1, <1>2, <1>3, <1>4, Plain
     DEF Unmoved, Moving, Kept, Sources, Working, Catching, NoFile, Sidecars
<1>12. LiesAside'
  BY <1>1, <1>2, <1>3, <1>4, Plain
     DEF LiesAside, Working, Moving, Catching, Kept, NoFile, Sidecars
<1>13. Doubtful'
  <2>1. SUFFICES ASSUME restore.at = "caught", restore.doing \in Files,
                        <<restore.doing, restore.was[restore.doing]>> \in replaced'
                 PROVE  /\ aside[restores][restore.doing] = restore.was[restore.doing]
                        /\ restore'.opened
    BY <1>1, <1>2, <1>3, <1>4 DEF Doubtful, Kept
  <2>2. restore'.opened
    BY <1>1, <1>2, <1>3, <1>4, <2>1 DEF Ended
  <2>3. Kept(restore.doing) /\ restore.was[restore.doing] \in Nat \ {0}
    BY <1>1, <1>2, <1>3, <1>4, <2>1, Plain DEF Kept
  <2>4. live[restore.doing] # restore.was[restore.doing]
    BY <1>1, <1>2, <1>3, <1>4, <2>1, <2>3 DEF NoFile
  <2> QED BY <1>1, <1>2, <1>3, <1>4, <2>1, <2>2, <2>3, <2>4 DEF Doubtful
<1>14. PutBack'
  BY <1>1, <1>2, <1>3, <1>4, Plain
     DEF PutBack, Kept, IsBack, Sources, Working, Moving, Catching, NoFile, Sidecars
<1>15. CopyIsPlaced'
  BY <1>1, <1>2, <1>3, <1>4, Plain
     DEF CopyIsPlaced, Working, Moving, Catching, Staged, Installed, Numbered, NoFile, Sidecars
<1>16. SidecarsGone'
  BY <1>1, <1>2, <1>3, <1>4, Plain
     DEF SidecarsGone, Working, Moving, Catching, Ended, NoFile, Sidecars
<1>17. NothingIsLost'
  <2>1. ASSUME NEW r \in replaced', live[r[1]] = r[2]
        PROVE  live'[r[1]] = r[2] \/ \E n \in 1 .. MaxRestores : aside'[n][r[1]] = r[2]
    BY <1>1, <1>2, <1>3, <1>4, <2>1, Plain DEF NoFile
  <2>2. ASSUME NEW r \in replaced', NEW n \in 1 .. MaxRestores, aside[n][r[1]] = r[2]
        PROVE  live'[r[1]] = r[2] \/ \E m \in 1 .. MaxRestores : aside'[m][r[1]] = r[2]
    BY <1>1, <1>2, <1>3, <1>4, <2>2, Plain
  <2>3. replaced' \subseteq replaced
    BY <1>1, <1>2, <1>3, <1>4
  <2> QED BY <1>4, <2>1, <2>2, <2>3 DEF NothingIsLost
<1>18. EndsDone'
  BY <1>1, <1>2, <1>3, <1>4, Plain
     DEF EndsDone, Kept, CopyIsPlaced, Working, Moving, Catching, Staged, Installed, NoFile,
         Sidecars
<1>19. EndsFailed'
  BY <1>1, <1>2, <1>3, <1>4, Plain
     DEF EndsFailed, Kept, Numbered, NoFile, Sidecars
<1>20. EndsStuck'
  BY <1>1, <1>2, <1>3, <1>4, Plain
     DEF EndsStuck, CopyIsPlaced, Working, Moving, Catching, Staged, Installed, NoFile, Sidecars
<1>21. CopyStandsAlone'
  BY <1>1, <1>2, <1>3, <1>4, Plain
     DEF CopyStandsAlone, Numbered, NoFile, Sidecars
<1> QED BY <1>5, <1>6, <1>7, <1>8, <1>9, <1>10, <1>11, <1>12, <1>13, <1>14, <1>15, <1>16, <1>17,
     <1>18, <1>19, <1>20, <1>21
   DEF Whole

\* A server that finds a database opens it, and makes the sidecars it does not find.
LEMMA StartKeeps ==
  ASSUME IInv, StartServer, live[Main] # NoFile
  PROVE  Whole'
<1>1. /\ restore'.at = restore.at
        /\ restore'.plan = restore.plan
        /\ restore'.moved = restore.moved
        /\ restore'.doing = restore.doing
        /\ restore'.failures = restore.failures
        /\ restore'.was = restore.was
        /\ restore'.copy = restore.copy
        /\ restore'.opened = (restore.opened \/ restore.at \notin Ended)
  BY DEF StartServer, IInv, TypeOK, RestoreRecords
<1>2. /\ \A k \in Files : live'[k] = IF live[k] = NoFile THEN live[Main] ELSE live[k]
      /\ UNCHANGED <<databases, replaced, aside, staging, restores>> /\ live[Main] # NoFile
  BY DEF StartServer
<1>3. Undoing' = Undoing
  BY <1>1 DEF Undoing
<1>4. Numbered /\ Unused /\ Early /\ Sources /\ InOrder /\ Newcomers
      /\ Unmoved /\ LiesAside /\ Doubtful /\ PutBack /\ CopyIsPlaced /\ SidecarsGone
      /\ NothingIsLost /\ EndsDone /\ EndsFailed /\ EndsStuck /\ CopyStandsAlone
  BY Plain DEF Whole
<1>5. Numbered'
  BY <1>1, <1>2, <1>3, <1>4, Plain
     DEF Numbered, NoFile, Sidecars
<1>6. Unused'
  BY <1>1, <1>2, <1>3, <1>4, Plain
     DEF Unused, NoFile, Sidecars
<1>7. Early'
  BY <1>1, <1>2, <1>3, <1>4, Plain
     DEF Early, Moving, NoFile, Sidecars
<1>8. Sources'
  BY <1>1, <1>2, <1>3, <1>4, Plain
     DEF Sources, Working, Moving, Catching, NoFile, Sidecars
<1>9. InOrder'
  BY <1>1, <1>2, <1>3, <1>4, Plain
     DEF InOrder, Working, Moving, Catching, NoFile, Sidecars
<1>10. Newcomers'
  BY <1>1, <1>2, <1>3, <1>4, Plain
     DEF Newcomers, Working, Moving, Catching, Fresh, InOrder, Sources, NoFile, Sidecars
<1>11. Unmoved'
  BY <1>1, <1>2, <1>3, <1>4, Plain
     DEF Unmoved, Moving, Kept, NoFile, Sidecars
<1>12. LiesAside'
  BY <1>1, <1>2, <1>3, <1>4, Plain
     DEF LiesAside, Working, Moving, Catching, Kept, NoFile, Sidecars
<1>13. Doubtful'
  BY <1>1, <1>2, <1>3, <1>4, Plain
     DEF Doubtful, Kept, Ended, NoFile, Sidecars
<1>14. PutBack'
  BY <1>1, <1>2, <1>3, <1>4, Plain
     DEF PutBack, Kept, IsBack, NoFile, Sidecars
<1>15. CopyIsPlaced'
  BY <1>1, <1>2, <1>3, <1>4, Plain
     DEF CopyIsPlaced, Working, Moving, Catching, Staged, Installed, NoFile, Sidecars
<1>16. SidecarsGone'
  BY <1>1, <1>2, <1>3, <1>4, Plain
     DEF SidecarsGone, Working, Moving, Catching, Ended, NoFile, Sidecars
<1>17. NothingIsLost'
  <2>1. ASSUME NEW r \in replaced', live[r[1]] = r[2]
        PROVE  live'[r[1]] = r[2] \/ \E n \in 1 .. MaxRestores : aside'[n][r[1]] = r[2]
    BY <1>1, <1>2, <1>3, <1>4, <2>1, Plain DEF NoFile
  <2>2. ASSUME NEW r \in replaced', NEW n \in 1 .. MaxRestores, aside[n][r[1]] = r[2]
        PROVE  live'[r[1]] = r[2] \/ \E m \in 1 .. MaxRestores : aside'[m][r[1]] = r[2]
    BY <1>1, <1>2, <1>3, <1>4, <2>2, Plain
  <2>3. replaced' \subseteq replaced
    BY <1>1, <1>2, <1>3, <1>4
  <2> QED BY <1>4, <2>1, <2>2, <2>3 DEF NothingIsLost
<1>18. EndsDone'
  BY <1>1, <1>2, <1>3, <1>4, Plain
     DEF EndsDone, Kept, NoFile, Sidecars
<1>19. EndsFailed'
  BY <1>1, <1>2, <1>3, <1>4, Plain
     DEF EndsFailed, Kept, NoFile, Sidecars
<1>20. EndsStuck'
  BY <1>1, <1>2, <1>3, <1>4, Plain
     DEF EndsStuck, NoFile, Sidecars
<1>21. CopyStandsAlone'
  BY <1>1, <1>2, <1>3, <1>4, Plain
     DEF CopyStandsAlone, CopyIsPlaced, Working, Moving, Catching, Staged, Installed, Ended,
         NoFile, Sidecars
<1> QED BY <1>5, <1>6, <1>7, <1>8, <1>9, <1>10, <1>11, <1>12, <1>13, <1>14, <1>15, <1>16, <1>17,
     <1>18, <1>19, <1>20, <1>21
   DEF Whole

\* A server that stops takes the sidecars of its database away.
LEMMA StopKeeps ==
  ASSUME IInv, StopServer, live[Main] = serves
  PROVE  Whole'
<1>1. restore' = restore
  BY DEF StopServer
<1>2. /\ \A k \in Files : live'[k] = IF k = Main THEN live[k] ELSE NoFile
      /\ replaced' \subseteq replaced
      /\ \A k \in Files, d \in Nat : <<k, d>> \in replaced' => k = Main \/ live[k] # d
      /\ UNCHANGED <<databases, aside, staging, restores>>
  BY Plain DEF StopServer
<1>3. Undoing' = Undoing
  BY <1>1 DEF Undoing
<1>4. Numbered /\ Unused /\ Early /\ Sources /\ InOrder /\ Newcomers
      /\ Unmoved /\ LiesAside /\ Doubtful /\ PutBack /\ CopyIsPlaced /\ SidecarsGone
      /\ NothingIsLost /\ EndsDone /\ EndsFailed /\ EndsStuck /\ CopyStandsAlone
  BY Plain DEF Whole
<1>5. Numbered'
  <2>1. (\A k \in Files : live[k] <= databases)'
    BY <1>1, <1>2, <1>3, <1>4, Plain DEF Numbered, NoFile, Sidecars
  <2>2. (\A n \in 1 .. MaxRestores, k \in Files : aside[n][k] <= databases)'
    BY <1>1, <1>2, <1>3, <1>4, Plain DEF Numbered, NoFile, Sidecars
  <2>3. (staging <= databases /\ restore.copy <= databases)'
    BY <1>1, <1>2, <1>3, <1>4, Plain DEF Numbered, NoFile, Sidecars
  <2>4. (replaced \subseteq Files \X (1 .. databases))'
    BY <1>1, <1>2, <1>3, <1>4, Plain DEF Numbered, NoFile, Sidecars
  <2> QED BY <2>1, <2>2, <2>3, <2>4 DEF Numbered
<1>6. Unused'
  BY <1>1, <1>2, <1>3, <1>4, Plain
     DEF Unused, NoFile, Sidecars
<1>7. Early'
  BY <1>1, <1>2, <1>3, <1>4, Plain
     DEF Early, Moving, NoFile, Sidecars
<1>8. Sources'
  BY <1>1, <1>2, <1>3, <1>4, Plain
     DEF Sources, Working, Moving, Catching, NoFile, Sidecars
<1>9. InOrder'
  BY <1>1, <1>2, <1>3, <1>4, Plain
     DEF InOrder, Working, Moving, Catching, NoFile, Sidecars
<1>10. Newcomers'
  BY <1>1, <1>2, <1>3, <1>4, Plain
     DEF Newcomers, Working, Moving, Catching, Fresh, Numbered, NoFile, Sidecars
<1>11. Unmoved'
  BY <1>1, <1>2, <1>3, <1>4, Plain
     DEF Unmoved, Moving, Kept, NoFile, Sidecars
<1>12. LiesAside'
  BY <1>1, <1>2, <1>3, <1>4, Plain
     DEF LiesAside, Working, Moving, Catching, Kept, NoFile, Sidecars
<1>13. Doubtful'
  BY <1>1, <1>2, <1>3, <1>4, Plain
     DEF Doubtful, Kept, NoFile, Sidecars
<1>14. PutBack'
  BY <1>1, <1>2, <1>3, <1>4, Plain
     DEF PutBack, Kept, IsBack, NoFile, Sidecars
<1>15. CopyIsPlaced'
  BY <1>1, <1>2, <1>3, <1>4, Plain
     DEF CopyIsPlaced, Working, Moving, Catching, Staged, Installed, NoFile, Sidecars
<1>16. SidecarsGone'
  BY <1>1, <1>2, <1>3, <1>4, Plain
     DEF SidecarsGone, Working, Moving, Catching, NoFile, Sidecars
<1>17. NothingIsLost'
  <2>1. ASSUME NEW r \in replaced', live[r[1]] = r[2]
        PROVE  live'[r[1]] = r[2] \/ \E n \in 1 .. MaxRestores : aside'[n][r[1]] = r[2]
    BY <1>1, <1>2, <1>3, <1>4, <2>1, Plain
  <2>2. ASSUME NEW r \in replaced', NEW n \in 1 .. MaxRestores, aside[n][r[1]] = r[2]
        PROVE  live'[r[1]] = r[2] \/ \E m \in 1 .. MaxRestores : aside'[m][r[1]] = r[2]
    BY <1>1, <1>2, <1>3, <1>4, <2>2, Plain
  <2>3. replaced' \subseteq replaced
    BY <1>1, <1>2, <1>3, <1>4
  <2> QED BY <1>4, <2>1, <2>2, <2>3 DEF NothingIsLost
<1>18. EndsDone'
  BY <1>1, <1>2, <1>3, <1>4, Plain
     DEF EndsDone, Kept, NoFile, Sidecars
<1>19. EndsFailed'
  BY <1>1, <1>2, <1>3, <1>4, Plain
     DEF EndsFailed, Kept, NoFile, Sidecars
<1>20. EndsStuck'
  BY <1>1, <1>2, <1>3, <1>4, Plain
     DEF EndsStuck, NoFile, Sidecars
<1>21. CopyStandsAlone'
  BY <1>1, <1>2, <1>3, <1>4, Plain
     DEF CopyStandsAlone, NoFile, Sidecars
<1> QED BY <1>5, <1>6, <1>7, <1>8, <1>9, <1>10, <1>11, <1>12, <1>13, <1>14, <1>15, <1>16, <1>17,
     <1>18, <1>19, <1>20, <1>21
   DEF Whole

(***************************************************************************)
(* The invariant                                                           *)
(***************************************************************************)
LEMMA InvInit == ASSUME Init PROVE IInv
<1>1. TypeOK
  <2>1. restore \in RestoreRecords
    BY BackupAssumption DEF Init, NoRestore, RestoreRecords, RestoreStates, NoFile, Files, Install
  <2>2. job \in [Jobs -> JobRecords] /\ scratch \in [Days -> ScratchStates]
    BY Idle DEF Init, ScratchStates
  <2>3. snapshots \in [Days -> {"none", "half", "whole"}]
    BY DEF Init
  <2>4. /\ live \in [Files -> 0 .. MaxDatabases] /\ 0 \in 0 .. MaxDatabases
        /\ aside \in [1 .. MaxRestores -> [Files -> 0 .. MaxDatabases]]
        /\ now \in Days /\ serves \in 0 .. MaxDatabases /\ starts \in 0 .. MaxStarts
    BY BackupAssumption DEF Init, NoFile, Days
  <2> QED BY <2>1, <2>2, <2>3, <2>4, BackupAssumption DEF Init, TypeOK, NoFile
<1>2. /\ restore.at = "idle" /\ restore.copy = 0
      /\ \A n \in 1 .. MaxRestores, i \in Files : aside[n][i] = NoFile
      /\ \A i \in Files : live[i] = 1
      /\ staging = 0 /\ databases = 1 /\ replaced = {}
  BY DEF Init, NoRestore, NoFile
<1>3. Numbered
  BY <1>2 DEF Numbered, NoFile
<1>4. Unused /\ Early /\ Sources /\ InOrder /\ Newcomers /\ Unmoved /\ LiesAside
  BY <1>2 DEF Unused, Early, Sources, InOrder, Newcomers, Unmoved, LiesAside, Working, Moving,
     Catching
<1>5. Doubtful /\ PutBack /\ CopyIsPlaced /\ SidecarsGone
  BY <1>2 DEF Doubtful, PutBack, CopyIsPlaced, SidecarsGone, Working, Moving, Catching
<1>6. NothingIsLost /\ EndsDone /\ EndsFailed /\ EndsStuck /\ CopyStandsAlone
  BY <1>2 DEF NothingIsLost, EndsDone, EndsFailed, EndsStuck, CopyStandsAlone, NoFile
<1> QED BY <1>1, <1>3, <1>4, <1>5, <1>6 DEF IInv, Whole

\* The decryption, and a move forth, whatever becomes of it.
LEMMA DecryptStep ==
  ASSUME IInv, Decrypt
  PROVE  Whole'
BY DecryptKeeps, DecryptFails DEF Decrypt

LEMMA MoveAsideStep ==
  ASSUME IInv, MoveAside
  PROVE  Whole'
<1>1. PICK i : i = Min(Pending)
  OBVIOUS
<1>2. i # Install
  BY <1>1, PendingMove, Plain DEF MoveAside, IInv
<1>3. MoveForth(i)
  BY <1>1 DEF MoveAside
<1>4. CASE Forth(i) /\ restore' = [restore EXCEPT !.moved = @ \cup {i}]
  BY <1>1, <1>4, AsideKeeps
<1>5. CASE restore' = [restore EXCEPT !.at = "caught", !.doing = i] /\ Forth(i)
  BY <1>1, <1>5, AsideFails
<1>6. CASE restore' = [restore EXCEPT !.at = "caught", !.doing = i] /\ UNCHANGED volume
  BY <1>1, <1>6, AsideSkips
<1>7. CASE UNCHANGED <<volume, faults>> /\ restore' = [restore EXCEPT !.at = "caught", !.doing = i]
  BY <1>6, <1>7
<1> QED BY <1>2, <1>3, <1>4, <1>5, <1>6, <1>7 DEF MoveForth

LEMMA InstallStep ==
  ASSUME IInv, InstallCopy
  PROVE  Whole'
<1>1. CASE Forth(Install) /\ restore' = [restore EXCEPT !.at = "done"]
  BY <1>1, InstallKeeps
<1>2. CASE restore' = [restore EXCEPT !.at = "caught", !.doing = Install] /\ Forth(Install)
  BY <1>2, InstallFails
<1>3. CASE restore' = [restore EXCEPT !.at = "caught", !.doing = Install] /\ UNCHANGED volume
  BY <1>3, InstallSkips
<1>4. CASE UNCHANGED <<volume, faults>> /\ restore' = [restore EXCEPT !.at = "caught", !.doing = Install]
  BY <1>3, <1>4
<1> QED BY <1>1, <1>2, <1>3, <1>4 DEF InstallCopy, MoveForth

\* The way back.
LEMMA CheckUndoStep ==
  ASSUME IInv, CheckUndo
  PROVE  Whole'
<1>1. CASE From(Undoing) = NoFile
  BY <1>1, CheckUndoKeeps
<1>2. CASE From(Undoing) # NoFile
  <2>1. restore' = [restore EXCEPT !.moved = @ \ {Undoing}, !.failures = @ \cup {Undoing}]
    BY <1>2 DEF CheckUndo
  <2>2. restore.at = "undoing" /\ restore.moved # {} /\ restore \in RestoreRecords
    BY DEF CheckUndo, IInv, TypeOK
  <2>3. restore' = [restore EXCEPT !.at = "undoing", !.moved = @ \ {Undoing}, !.failures = @ \cup {Undoing}]
    BY <2>1, <2>2 DEF RestoreRecords
  <2> QED BY <2>2, <2>3, UndoSkips DEF CheckUndo, backups, volume
<1> QED BY <1>1, <1>2

LEMMA UndoStep ==
  ASSUME IInv, Undo
  PROVE  Whole'
<1>1. restore.at = "undo" /\ restore.moved # {} /\ restore \in RestoreRecords
  BY Plain DEF Undo, Whole, InOrder, IInv, TypeOK
<1>2. PICK i : i = Undoing
  OBVIOUS
<1>3. PICK f \in {restore.failures, restore.failures \cup {i}} :
        restore' = [restore EXCEPT !.at = "undoing", !.moved = restore.moved \ {i}, !.failures = f]
  <2>1. CASE restore' = [restore EXCEPT !.at = "undoing", !.moved = @ \ {Undoing}]
    BY <1>1, <1>2, <2>1 DEF RestoreRecords
  <2>2. CASE restore' = [restore EXCEPT !.at = "undoing", !.moved = @ \ {Undoing},
                                        !.failures = @ \cup {Undoing}]
    BY <1>2, <2>2
  <2> QED BY <2>1, <2>2 DEF Undo
<1>4. /\ restore'.at = "undoing" /\ restore'.moved = restore.moved \ {i}
      /\ restore'.failures \in {restore.failures, restore.failures \cup {i}}
      /\ UNCHANGED <<restore.plan, restore.doing, restore.was, restore.copy, restore.opened>>
  BY <1>1, <1>3 DEF RestoreRecords
<1>5. CASE Back(i) /\ i # Install
  BY <1>2, <1>4, <1>5, UndoKeeps
<1>6. CASE Back(i) /\ i = Install
  BY <1>2, <1>4, <1>6, UndoCopyKeeps
<1>7. CASE UNCHANGED volume /\ restore' = [restore EXCEPT !.at = "undoing", !.moved = @ \ {i},
                                                          !.failures = @ \cup {i}]
  BY <1>1, <1>2, <1>7, UndoSkips DEF Undo, backups, volume
<1> QED BY <1>2, <1>5, <1>6, <1>7 DEF Undo

LEMMA ServerStep ==
  ASSUME IInv, StartServer \/ StopServer
  PROVE  Whole'
<1>1. CASE StartServer
  BY <1>1, StartFreshKeeps, StartKeeps
<1>2. CASE StopServer /\ live[Main] = serves
  BY <1>2, StopKeeps
<1>3. CASE StopServer /\ live[Main] # serves
  <2>1. UNCHANGED <<live, databases, restores, aside, staging, restore, replaced>>
    BY <1>3 DEF StopServer
  <2> QED BY <2>1, RestoreUntouched
<1> QED BY <1>1, <1>2, <1>3

LEMMA InvNext == ASSUME IInv, [Next]_vars PROVE IInv'
<1>1. TypeOK /\ Counted
  BY DEF IInv, Whole, Unused, InOrder, Counted
<1>2. ASSUME NEW j \in Jobs,
             \/ BeginBackup(j) \/ Vacuum(j) \/ VacuumEnds(j) \/ Encrypt(j) \/ EncryptEnds(j)
             \/ Publish(j) \/ FailBackup(j) \/ ListSnapshots(j) \/ Unlink(j) \/ EndBackup(j)
      PROVE  IInv'
  <2>1. UNCHANGED <<live, databases, restores, aside, staging, restore, replaced>>
    BY <1>2 DEF BeginBackup, Vacuum, VacuumEnds, Encrypt, EncryptEnds, Publish, FailBackup,
       ListSnapshots, Unlink, EndBackup, volume
  <2> QED BY <1>1, <1>2, <2>1, JobTypes, RestoreUntouched DEF IInv
<1>3. ASSUME \/ \E t \in Days : BeginRestore(t)
             \/ PlanRestore \/ Decrypt \/ MoveAside \/ CheckTarget \/ InstallCopy \/ Catch
             \/ CheckUndo \/ Undo \/ GiveUp \/ KillRestore
      PROVE  IInv'
  <2>1. Whole'
    BY <1>3, BeginKeeps, PlanKeeps, DecryptStep, MoveAsideStep, CheckTargetKeeps, InstallStep,
       CatchKeeps, CatchPasses, CheckUndoStep, UndoStep, GiveUpKeeps, KillKeeps
  <2> QED BY <1>1, <1>3, <2>1, RestoreTypes DEF IInv
<1>4. CASE StartServer \/ StopServer
  BY <1>1, <1>4, OtherTypes, ServerStep DEF IInv
<1>5. CASE KillServer \/ NextDay
  <2>1. UNCHANGED <<live, databases, restores, aside, staging, restore, replaced>>
    BY <1>5 DEF KillServer, NextDay, volume, backups
  <2> QED BY <1>1, <1>5, <2>1, OtherTypes, RestoreUntouched DEF IInv
<1>6. CASE UNCHANGED vars
  <2>1. UNCHANGED <<live, databases, restores, aside, staging, restore, replaced>>
    BY <1>6 DEF vars
  <2>2. TypeOK'
    BY <1>1, <1>6 DEF TypeOK, vars, server, backups
  <2> QED BY <2>1, <2>2, RestoreUntouched DEF IInv
<1> QED BY <1>2, <1>3, <1>4, <1>5, <1>6 DEF Next

\* The invariant holds at the start and every step keeps it.
THEOREM Invariant == Spec => []IInv
<1>1. Init => IInv
  BY InvInit
<1>2. IInv /\ [Next]_vars => IInv'
  BY InvNext
<1> QED BY <1>1, <1>2, PTL DEF Spec

\* Every variable holds what the directories and the processes can hold.
THEOREM TypeCorrect == Spec => []TypeOK
<1>1. IInv => TypeOK
  BY DEF IInv
<1> QED BY <1>1, Invariant, PTL

\* Whatever fails, whoever is killed and whatever server starts or stops
\* meanwhile, a file a restore set out to replace is at its own path or at a
\* .pre-restore- one, unless it is a sidecar that SQLite has taken.
THEOREM RestoreLosesNothing == Spec => []NothingIsLost
<1>1. IInv => NothingIsLost
  BY DEF IInv, Whole
<1> QED BY <1>1, Invariant, PTL

\* A restore that is done has the copy in place and every file aside; one that
\* failed has every file back, but one if a server took its path; one that is
\* stuck still has the copy; and no other database's sidecar lies beside the
\* copy unless a server opened the path or the way back failed.
THEOREM RestoresEndWhole == Spec => []RestoreEndsWhole
<1>1. IInv => RestoreEndsWhole
  BY DEF IInv, Whole, RestoreEndsWhole
<1> QED BY <1>1, Invariant, PTL

(***************************************************************************)
(* Snapshots. A run gives .part its name when its encryption has ended. It *)
(* is whole then because no other run writes the same scratch files: the   *)
(* names of the runs under way differ, and a run whose server was killed   *)
(* is under way no more.                                                   *)
(***************************************************************************)
OwnScratch ==
  /\ \A j \in Jobs : job[j].at # "idle" => job[j].name \in Days
  /\ \A j, k \in Jobs :
       j # k /\ job[j].at # "idle" /\ job[k].at # "idle" => job[j].name # job[k].name
  /\ \A j \in Jobs : job[j].at = "publishing" => scratch[job[j].name] = "sealed"

\* A step of one run that writes only its own scratch files and its own record
\* leaves the other runs' alone.
LEMMA OwnScratchOfOne ==
  ASSUME TypeOK, OwnScratch, NEW j \in Jobs, NEW s \in ScratchStates, NEW r,
         job[j].at # "idle",
         r.at = "idle" \/ r.name = job[j].name, r.at = "publishing" => s = "sealed",
         job' = [job EXCEPT ![j] = r], scratch' = [scratch EXCEPT ![job[j].name] = s]
  PROVE  OwnScratch'
<1>1. job[j].name \in Days /\ \A k \in Jobs \ {j} : job[k].at # "idle" => job[k].name # job[j].name
  BY DEF OwnScratch
<1>2. job'[j] = r /\ \A k \in Jobs \ {j} : job'[k] = job[k]
  BY DEF TypeOK
<1>3. /\ scratch'[job[j].name] = s
      /\ \A t \in Days : t # job[j].name => scratch'[t] = scratch[t]
  BY <1>1 DEF TypeOK
<1>4. (\A k \in Jobs : job[k].at # "idle" => job[k].name \in Days)'
  BY <1>1, <1>2 DEF OwnScratch
<1>5. (\A i, k \in Jobs : i # k /\ job[i].at # "idle" /\ job[k].at # "idle" => job[i].name # job[k].name)'
  BY <1>1, <1>2 DEF OwnScratch
<1>6. ASSUME NEW k \in Jobs, job'[k].at = "publishing" PROVE scratch'[job'[k].name] = "sealed"
  <2>1. CASE k = j
    BY <1>2, <1>3, <1>6, <2>1
  <2>2. CASE k # j
    <3>1. job'[k] = job[k] /\ job[k].at = "publishing"
      BY <1>2, <1>6, <2>2
    <3>2. job[k].name \in Days /\ job[k].name # job[j].name /\ scratch[job[k].name] = "sealed"
      BY <1>1, <2>2, <3>1 DEF OwnScratch
    <3> QED BY <1>3, <3>1, <3>2
  <2> QED BY <2>1, <2>2
<1> QED BY <1>4, <1>5, <1>6 DEF OwnScratch

\* A step that leaves the scratch files alone, and of each run the name, unless
\* it ends, and does not bring one to its rename.
LEMMA OwnScratchOfMore ==
  ASSUME OwnScratch, UNCHANGED scratch,
         \A k \in Jobs : \/ job'[k].at = "idle"
                         \/ /\ job[k].at # "idle" /\ job'[k].name = job[k].name
                            /\ job'[k].at = "publishing" => job[k].at = "publishing"
  PROVE  OwnScratch'
BY DEF OwnScratch

LEMMA OwnScratchNext == ASSUME TypeOK, OwnScratch, [Next]_vars PROVE OwnScratch'
<1>1. \A j \in Jobs : job[j] \in JobRecords
  BY DEF TypeOK
<1>2. ASSUME NEW j \in Jobs, BeginBackup(j) PROVE OwnScratch'
  <2>1. /\ now \in Days /\ \A k \in Jobs : job[k].name # now
        /\ job'[j] = [at |-> "vacuuming", name |-> now, doomed |-> {}]
        /\ \A k \in Jobs \ {j} : job'[k] = job[k]
        /\ \A t \in Days : t # now => scratch'[t] = scratch[t]
    BY <1>2 DEF BeginBackup, TypeOK
  <2>2. (\A k \in Jobs : job[k].at # "idle" => job[k].name \in Days)'
    BY <2>1 DEF OwnScratch
  <2>3. (\A i, k \in Jobs : i # k /\ job[i].at # "idle" /\ job[k].at # "idle" => job[i].name # job[k].name)'
    BY <2>1 DEF OwnScratch
  <2>4. ASSUME NEW k \in Jobs, job'[k].at = "publishing" PROVE scratch'[job'[k].name] = "sealed"
    <3>1. k # j /\ job'[k] = job[k]
      BY <2>1, <2>4
    <3> QED BY <2>1, <2>4, <3>1 DEF OwnScratch
  <2> QED BY <2>2, <2>3, <2>4 DEF OwnScratch
<1>3. ASSUME NEW j \in Jobs, Vacuum(j) \/ Encrypt(j) PROVE OwnScratch'
  <2>1. /\ job[j].at # "idle" /\ job[j].at # "publishing" /\ job' = [job EXCEPT ![j] = job[j]]
        /\ \E s \in {"copying", "part"} : scratch' = [scratch EXCEPT ![job[j].name] = s]
    BY <1>3 DEF Vacuum, Encrypt, SetScratch, TypeOK
  <2>2. {"copying", "part"} \subseteq ScratchStates
    BY DEF ScratchStates
  <2> QED BY <2>1, <2>2, OwnScratchOfOne
<1>4. ASSUME NEW j \in Jobs, VacuumEnds(j) \/ EncryptEnds(j) \/ Publish(j) PROVE OwnScratch'
  <2>1. PICK a \in {"encrypting", "publishing", "listing"}, s \in {"plain", "sealed", "none"} :
          /\ job[j].at # "idle" /\ (a = "publishing" => s = "sealed")
          /\ job' = [job EXCEPT ![j].at = a] /\ scratch' = [scratch EXCEPT ![job[j].name] = s]
    BY <1>4 DEF VacuumEnds, EncryptEnds, Publish, Encrypted, AtJob, SetScratch
  <2> DEFINE r == [job[j] EXCEPT !.at = a]
  <2>2. r.at = a /\ r.name = job[j].name /\ job' = [job EXCEPT ![j] = r] /\ s \in ScratchStates
    BY <1>1, <2>1 DEF JobRecords, ScratchStates
  <2> HIDE DEF r
  <2> QED BY <2>1, <2>2, OwnScratchOfOne
<1>5. ASSUME NEW j \in Jobs, FailBackup(j) PROVE OwnScratch'
  <2>1. IdleJob.at = "idle" /\ "none" \in ScratchStates /\ job[j].at # "idle"
    BY <1>5 DEF IdleJob, ScratchStates, FailBackup
  <2> QED BY <1>5, <2>1, OwnScratchOfOne DEF FailBackup, SetScratch
<1>6. ASSUME NEW j \in Jobs, ListSnapshots(j) \/ Unlink(j) \/ EndBackup(j) PROVE OwnScratch'
  <2>1. /\ job[j].at # "idle" /\ UNCHANGED scratch
        /\ \A k \in Jobs \ {j} : job'[k] = job[k]
        /\ \/ job'[j].at = "idle"
           \/ job'[j].at = "unlinking" /\ job'[j].name = job[j].name
    BY <1>1, <1>6 DEF ListSnapshots, Unlink, EndBackup, IdleJob, TypeOK, JobRecords
  <2> QED BY <2>1, OwnScratchOfMore
<1>7. ASSUME UNCHANGED <<scratch, job>> PROVE OwnScratch'
  BY <1>7 DEF OwnScratch
<1>8. ASSUME StopServer \/ KillServer PROVE OwnScratch'
  BY <1>8, OwnScratchOfMore DEF StopServer, KillServer, JobsGone, IdleJob
<1> QED
  BY <1>2, <1>3, <1>4, <1>5, <1>6, <1>7, <1>8
     DEF Next, BeginRestore, PlanRestore, Decrypt, MoveAside, CheckTarget, InstallCopy, Catch,
         CheckUndo, Undo, GiveUp, KillRestore, StartServer, NextDay, vars, backups

\* A name in the directory is a whole snapshot, whatever runs overlap, wherever
\* a server was killed and whatever it left behind.
THEOREM NamesAreWhole == Spec => []SnapshotsAreWhole
<1>1. Init => SnapshotsAreWhole /\ OwnScratch
  BY DEF Init, SnapshotsAreWhole, OwnScratch, IdleJob
<1>2. SnapshotsAreWhole /\ OwnScratch /\ TypeOK /\ [Next]_vars => SnapshotsAreWhole' /\ OwnScratch'
  <2> SUFFICES ASSUME SnapshotsAreWhole, OwnScratch, TypeOK, [Next]_vars
               PROVE  SnapshotsAreWhole' /\ OwnScratch'
    OBVIOUS
  <2>1. ASSUME NEW j \in Jobs, Publish(j) PROVE SnapshotsAreWhole'
    <3>1. Scratch(j) = "sealed"
      BY <2>1 DEF Publish, Encrypted, Scratch, OwnScratch
    <3> QED BY <2>1, <3>1 DEF Publish, SnapshotsAreWhole, TypeOK
  <2>2. ASSUME NEW j \in Jobs, Unlink(j) PROVE SnapshotsAreWhole'
    BY <2>2 DEF Unlink, SnapshotsAreWhole, TypeOK
  <2>3. ASSUME UNCHANGED snapshots PROVE SnapshotsAreWhole'
    BY <2>3 DEF SnapshotsAreWhole
  <2>4. SnapshotsAreWhole'
    BY <2>1, <2>2, <2>3 DEF Next, BeginBackup, Vacuum, VacuumEnds, Encrypt, EncryptEnds, FailBackup,
       ListSnapshots, EndBackup, BeginRestore, PlanRestore, Decrypt, MoveAside, CheckTarget,
       InstallCopy, Catch, CheckUndo, Undo, GiveUp, KillRestore, StartServer, StopServer, KillServer,
       NextDay, backups, vars
  <2> QED BY <2>4, OwnScratchNext
<1> QED BY <1>1, <1>2, TypeCorrect, PTL DEF Spec

(***************************************************************************)
(* Retention. A run unlinks what was old when it listed the directory, and *)
(* other runs publish and unlink since. Every name it still means to       *)
(* unlink has enough newer ones: a run unlinks its names in their order,   *)
(* so what another may still unlink above a name is doomed itself.         *)
(***************************************************************************)
Newer(ss, t) == {u \in Present(ss) : u > t}

Dooms ==
  /\ \A j \in Jobs : job[j].name <= now /\ job[j].name \notin Foreign
  /\ \A j \in Jobs : \A t \in job[j].doomed :
       /\ Old(t, job[j].name)
       /\ \A u \in Foreign \cap Present(snapshots) : u > t
       /\ Cardinality(Newer(snapshots, t)) >= Keep

\* More names above a day are counted as more.
LEMMA NewerCount ==
  ASSUME NEW S \in SUBSET Days, NEW T \in SUBSET S
  PROVE  Cardinality(T) <= Cardinality(S) /\ Cardinality(T) \in Nat /\ Cardinality(S) \in Nat
<1>1. IsFiniteSet(Days)
  BY BackupAssumption, FS_Interval DEF Days
<1>2. IsFiniteSet(S) /\ IsFiniteSet(T)
  BY <1>1, FS_Subset
<1> QED BY <1>2, FS_Subset, FS_CardinalityType

\* When no name goes, what has enough newer names keeps them.
LEMMA DoomsOfMore ==
  ASSUME Dooms, NEW j \in Jobs, NEW t \in job[j].doomed, Present(snapshots) \subseteq Present(snapshots')
  PROVE  Cardinality(Newer(snapshots', t)) >= Keep
<1>1. Newer(snapshots, t) \subseteq Newer(snapshots', t) /\ Newer(snapshots', t) \in SUBSET Days
  BY DEF Newer, Present
<1>2. /\ Cardinality(Newer(snapshots, t)) <= Cardinality(Newer(snapshots', t))
      /\ Cardinality(Newer(snapshots, t)) \in Nat /\ Cardinality(Newer(snapshots', t)) \in Nat
  BY <1>1, NewerCount
<1>3. Cardinality(Newer(snapshots, t)) >= Keep
  BY DEF Dooms
<1> QED BY <1>2, <1>3, BackupAssumption

\* Unlinking the oldest name a run means to unlink: enough newer ones stay,
\* above it and above all that any run still means to unlink.
LEMMA DoomsOfFewer ==
  ASSUME TypeOK, Dooms, NEW k \in Jobs, NEW u \in job[k].doomed,
         snapshots' = [snapshots EXCEPT ![u] = "none"]
  PROVE  /\ Cardinality(Newer(snapshots', u)) >= Keep
         /\ \A j \in Jobs : \A t \in job[j].doomed : Cardinality(Newer(snapshots', t)) >= Keep
<1>1. u \in Days /\ job[k].doomed \subseteq Days
  BY DEF TypeOK, JobRecords
<1>2. Present(snapshots') = Present(snapshots) \ {u}
  BY <1>1 DEF Present, TypeOK
<1>3. Newer(snapshots', u) = Newer(snapshots, u)
  <2>1. ~(u > u)
    BY <1>1 DEF Days
  <2> QED BY <1>2, <2>1 DEF Newer
<1>4. Cardinality(Newer(snapshots', u)) >= Keep
  BY <1>3 DEF Dooms
<1>5. ASSUME NEW j \in Jobs, NEW t \in job[j].doomed
      PROVE  Cardinality(Newer(snapshots', t)) >= Keep
  <2>1. t \in Int /\ u \in Int
    BY <1>1 DEF TypeOK, JobRecords, Days
  <2>2. CASE u > t
    <3>1. Newer(snapshots', u) \subseteq Newer(snapshots', t) /\ Newer(snapshots', t) \in SUBSET Days
      BY <2>1, <2>2 DEF Newer, Present, Days
    <3>2. /\ Cardinality(Newer(snapshots', u)) <= Cardinality(Newer(snapshots', t))
          /\ Cardinality(Newer(snapshots', u)) \in Nat /\ Cardinality(Newer(snapshots', t)) \in Nat
      BY <3>1, NewerCount
    <3> QED BY <1>4, <3>2, BackupAssumption
  <2>3. CASE ~(u > t)
    <3>1. Newer(snapshots', t) = Newer(snapshots, t)
      BY <1>2, <2>3 DEF Newer
    <3> QED BY <3>1 DEF Dooms
  <2> QED BY <2>2, <2>3
<1> QED BY <1>4, <1>5

\* The least of some days is one of them.
LEMMA LeastOfDays ==
  ASSUME NEW D \in SUBSET Days, D # {}
  PROVE  Min(D) \in D
<1>1. D \subseteq Nat
  BY DEF Days
<1>2. PICK x \in D : \A y \in D : ~(<<y, x>> \in OpToRel(<, Nat))
  BY <1>1, NatLessThanWellFounded, WFMin
<1>3. \A y \in D : x <= y
  <2> TAKE y \in D
  <2>1. ~(y < x)
    BY <1>1, <1>2 DEF OpToRel
  <2> QED BY <1>1, <2>1
<1> QED BY <1>3 DEF Min

LEMMA DoomsNext == ASSUME TypeOK, Dooms, [Next]_vars PROVE Dooms' /\ UnlinksTheOldest
<1>1. now \in Nat /\ Keep \in Nat /\ MaxClock \in Nat
  BY BackupAssumption DEF TypeOK, Days
<1>2. \A j \in Jobs : /\ job[j] \in JobRecords /\ job[j].name \in Nat
                      /\ job[j].doomed \subseteq Days
  BY <1>1 DEF TypeOK, JobRecords
<1>3. 0 \notin Foreign
  BY BackupAssumption DEF Days
<1>4. ASSUME snapshots' = snapshots, now' \in Nat, now <= now',
             \A j \in Jobs : /\ job'[j].name = job[j].name \/ job'[j].name \in {0, now'} \ Foreign
                             /\ job'[j].doomed # {} =>
                                  job'[j].name = job[j].name /\ job'[j].doomed \subseteq job[j].doomed
      PROVE  Dooms' /\ UnlinksTheOldest
  <2>1. UnlinksTheOldest
    BY <1>4 DEF UnlinksTheOldest
  <2>2. \A j \in Jobs : job'[j].name <= now' /\ job'[j].name \notin Foreign
    BY <1>1, <1>2, <1>4 DEF Dooms
  <2>3. ASSUME NEW j \in Jobs, NEW t \in job'[j].doomed
        PROVE  /\ Old(t, job'[j].name)
               /\ \A u \in Foreign \cap Present(snapshots') : u > t
               /\ Cardinality(Newer(snapshots', t)) >= Keep
    <3>1. t \in job[j].doomed /\ job'[j].name = job[j].name
      BY <1>4
    <3> QED BY <1>4, <3>1 DEF Dooms
  <2> QED BY <1>4, <2>1, <2>2, <2>3 DEF Dooms
<1>5. ASSUME NEW j \in Jobs, BeginBackup(j) PROVE Dooms' /\ UnlinksTheOldest
  BY <1>1, <1>4, <1>5 DEF BeginBackup, TypeOK
<1>6. ASSUME NEW j \in Jobs, Vacuum(j) \/ VacuumEnds(j) \/ Encrypt(j) \/ EncryptEnds(j)
      PROVE  Dooms' /\ UnlinksTheOldest
  <2>1. /\ UNCHANGED <<now, snapshots>>
        /\ UNCHANGED job \/ \E a \in JobStates : job' = [job EXCEPT ![j].at = a]
    BY <1>6 DEF Vacuum, VacuumEnds, Encrypt, EncryptEnds, AtJob, JobStates
  <2>2. \A k \in Jobs : job'[k].name = job[k].name /\ job'[k].doomed = job[k].doomed
    BY <1>2, <2>1 DEF TypeOK, JobRecords
  <2> QED BY <1>1, <1>4, <2>1, <2>2
<1>7. ASSUME NEW j \in Jobs, Publish(j) PROVE Dooms' /\ UnlinksTheOldest
  <2>1. /\ now' = now /\ job' = [job EXCEPT ![j].at = "listing"]
        /\ Present(snapshots) \subseteq Present(snapshots')
        /\ Present(snapshots') \subseteq Present(snapshots) \cup {job[j].name}
    BY <1>7 DEF Publish, AtJob, Present, TypeOK
  <2>2. \A k \in Jobs : job'[k].name = job[k].name /\ job'[k].doomed = job[k].doomed
    BY <2>1 DEF TypeOK
  <2>3. \A k \in Jobs : \A t \in job'[k].doomed : Cardinality(Newer(snapshots', t)) >= Keep
    BY <2>1, <2>2, DoomsOfMore
  <2>4. Foreign \cap Present(snapshots') \subseteq Present(snapshots)
    BY <2>1 DEF Dooms
  <2>5. UnlinksTheOldest
    BY <2>1 DEF UnlinksTheOldest
  <2> QED BY <2>1, <2>2, <2>3, <2>4, <2>5 DEF Dooms
<1>8. ASSUME NEW j \in Jobs, FailBackup(j) \/ EndBackup(j) PROVE Dooms' /\ UnlinksTheOldest
  BY <1>1, <1>3, <1>4, <1>8 DEF FailBackup, EndBackup, IdleJob, TypeOK
<1>9. ASSUME NEW j \in Jobs, ListSnapshots(j) PROVE Dooms' /\ UnlinksTheOldest
  <2> DEFINE doomed == Doomed(Present(snapshots), job[j].name)
  <2>1. /\ job' = [job EXCEPT ![j].at = "unlinking", ![j].doomed = doomed]
        /\ snapshots' = snapshots /\ now' = now
    BY <1>9 DEF ListSnapshots
  <2>2. \A t \in doomed : /\ Old(t, job[j].name)
                          /\ Cardinality(Newer(snapshots, t)) >= Keep
                          /\ t \in Days
    BY DEF Doomed, Newer, Present, Days
  <2>3. ASSUME NEW t \in doomed, NEW u \in Foreign \cap Present(snapshots) PROVE u > t
    <3>1. u \in Present(snapshots) /\ ~Old(u, job[j].name)
      BY DEF Old
    <3>2. ~(u <= t)
      BY <3>1 DEF Doomed
    <3> QED BY <2>2, <3>2, BackupAssumption DEF Days
  <2> HIDE DEF doomed
  <2>4. \A k \in Jobs : /\ job'[k].name = job[k].name
                        /\ job'[k].doomed = IF k = j THEN doomed ELSE job[k].doomed
    BY <2>1 DEF TypeOK
  <2>5. UnlinksTheOldest
    BY <2>1 DEF UnlinksTheOldest
  <2> QED BY <2>1, <2>2, <2>3, <2>4, <2>5 DEF Dooms
<1>10. ASSUME NEW j \in Jobs, Unlink(j) PROVE Dooms' /\ UnlinksTheOldest
  <2>1. PICK t : t = Min(job[j].doomed)
    OBVIOUS
  <2>2. CASE snapshots' = snapshots /\ job' = [job EXCEPT ![j] = IdleJob]
    BY <1>1, <1>3, <1>4, <1>10, <2>2 DEF Unlink, IdleJob, TypeOK
  <2>3. CASE /\ t \in Present(snapshots)
             /\ snapshots' = [snapshots EXCEPT ![t] = "none"]
             /\ job' = [job EXCEPT ![j].doomed = @ \ {t}]
    <3>1. t \in job[j].doomed
      BY <1>2, <1>10, <2>1, LeastOfDays DEF Unlink
    <3>2. now' = now
      BY <1>10 DEF Unlink
    <3>3. /\ Cardinality(Newer(snapshots', t)) >= Keep
          /\ \A k \in Jobs : \A u \in job[k].doomed : Cardinality(Newer(snapshots', u)) >= Keep
      BY <2>3, <3>1, DoomsOfFewer
    <3>4. \A k \in Jobs : /\ job'[k].name = job[k].name
                          /\ job'[k].doomed \subseteq job[k].doomed
      BY <2>3 DEF TypeOK
    <3>5. /\ Old(t, job[j].name) /\ \A u \in Foreign \cap Present(snapshots) : u > t
          /\ t \in Days /\ job[j].name <= now
      BY <1>2, <3>1 DEF Dooms
    <3>6. Present(snapshots') = Present(snapshots) \ {t}
      BY <2>3, <3>5 DEF Present, TypeOK
    <3>7. Foreign \cap Present(snapshots') \subseteq Foreign \cap Present(snapshots)
      BY <3>6
    <3>8. Old(t, now)
      BY <1>1, <1>2, <3>5 DEF Old, Days
    <3>9. ASSUME NEW u \in Present(snapshots') PROVE u > t \/ Old(u, now)
      <4>1. u \in Int /\ t \in Int
        BY <3>5 DEF Present, Days
      <4>2. u \in Foreign => u > t
        BY <3>5, <3>7
      <4> QED BY <1>1, <3>5, <3>8, <4>1, <4>2 DEF Old
    <3>10. UnlinksTheOldest
      BY <3>3, <3>6, <3>8, <3>9 DEF UnlinksTheOldest, Newer
    <3> QED BY <3>2, <3>3, <3>4, <3>7, <3>10 DEF Dooms
  <2> QED BY <1>10, <2>1, <2>2, <2>3 DEF Unlink
<1>11. CASE UNCHANGED <<now, backups>>
  BY <1>1, <1>4, <1>11 DEF backups
<1>12. CASE StopServer \/ KillServer
  BY <1>1, <1>3, <1>4, <1>12 DEF StopServer, KillServer, JobsGone, IdleJob
<1>13. CASE NextDay
  BY <1>1, <1>4, <1>13 DEF NextDay, backups
<1> QED
  BY <1>5, <1>6, <1>7, <1>8, <1>9, <1>10, <1>11, <1>12, <1>13
     DEF Next, BeginRestore, PlanRestore, Decrypt, MoveAside, CheckTarget, InstallCopy, Catch,
         CheckUndo, Undo, GiveUp, KillRestore, StartServer, vars, backups

LEMMA DoomsInit == Init => Dooms
BY BackupAssumption DEF Init, Dooms, Present, IdleJob, Days

\* Whatever runs overlap, whatever is unlinked or published between a run's
\* listing and its unlinking: a snapshot goes only when it is older than Keep
\* days, Keep newer ones stay, and nothing young or without a date lies below.
THEOREM RetentionKept == Spec => RetentionHolds
<1>1. TypeOK /\ Dooms /\ [Next]_vars => Dooms' /\ UnlinksTheOldest
  BY DoomsNext
<1> QED BY <1>1, DoomsInit, TypeCorrect, PTL DEF Spec, RetentionHolds
=============================================================================
