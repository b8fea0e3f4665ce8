------------------------------- MODULE Backup -------------------------------
(***************************************************************************)
(* Snapshots of the database and their way back: backup/snapshot.ts, the   *)
(* job over it, backup/verify.ts and backup/restore.ts.                    *)
(*                                                                         *)
(* The job runs inside the server; a run that timed out goes on beside the *)
(* next one. A restore is a process of its own, to be run while the server *)
(* is stopped, but nothing keeps the server from starting or stopping      *)
(* under it. Each process may be killed at any moment. A rename may fail,  *)
(* and may have taken effect although it reports a failure.                *)
(*                                                                         *)
(* A database is known by its number: the first, one more for each the     *)
(* server creates and one more for each a restore decrypts. A -wal or -shm *)
(* file carries the number of the database it was written for. Names of    *)
(* snapshots are the days they carry, in the order of the names.           *)
(***************************************************************************)
EXTENDS Integers, FiniteSets, FiniteSetsExt

CONSTANTS
  Jobs,          \* runs of the backup job that may overlap
  Keep,          \* BACKUP_KEEP: days, and files
  Foreign,       \* names like a snapshot's that carry no date this build reads
  MaxClock,      \* bound on the days
  RestoreDays,   \* bound on the days that go on after a restore or a start
  MaxStarts,     \* bound on the starts of the server
  MaxRestores,   \* bound on the restores
  MaxDatabases,  \* bound on the databases
  MaxFaults      \* bound on the renames that fail

Days == 1 .. MaxClock
\* The files that make a database, in the order in which they are moved.
Main == 1
Files == 1 .. 3
Install == 4

ASSUME BackupAssumption ==
  /\ Keep \in Nat \ {0} /\ MaxClock \in Nat \ {0}
  /\ Foreign \subseteq Days
  /\ RestoreDays \in Nat /\ MaxStarts \in Nat
  /\ MaxRestores \in Nat /\ MaxDatabases \in Nat \ {0} /\ MaxFaults \in Nat

VARIABLES
  now,       \* the day
  serves,    \* the database the server has open, or NoFile
  starts,    \* starts of the server (bounded)
  live,      \* per file, the database it belongs to, or NoFile
  databases, \* the databases there have been
  scratch,   \* per name, what lies in its .plain and .part files
  snapshots, \* per name, whether the file is there, and whole
  job,       \* the runs of the backup job
  restores,  \* the restores begun
  aside,     \* per restore and file, what was renamed to .pre-restore-
  staging,   \* the database decrypted beside the target, or NoFile
  restore,   \* the restore in progress, or how the last one ended
  faults,    \* renames that have failed (bounded)
  replaced   \* history: the files restores set out to replace, without the
             \* sidecars SQLite has taken since

server == <<serves, starts>>
backups == <<scratch, snapshots, job>>
volume == <<live, aside, staging>>
vars == <<now, server, live, databases, backups, restores, aside, staging, restore,
          faults, replaced>>

NoFile == 0
Present(ss) == {t \in Days : ss[t] # "none"}

IdleJob == [at |-> "idle", name |-> 0, doomed |-> {}]
JobStates == {"idle", "vacuuming", "encrypting", "publishing", "listing", "unlinking"}
JobRecords == [at : JobStates, name : 0 .. MaxClock, doomed : SUBSET Days]

\* What a run leaves in its scratch files, one after the other: nothing, a
\* part of the copy, the copy, a part of its encryption, and all of it.
ScratchStates == {"none", "copying", "plain", "part", "sealed"}

\* `was` is what the files held when the restore was planned, `doing` the move
\* that failed, `opened` history: a server has opened the path since the plan.
NoRestore == [at |-> "idle", from |-> 0, plan |-> {}, moved |-> {}, doing |-> 0,
              failures |-> {}, was |-> [i \in Files |-> NoFile], copy |-> NoFile,
              opened |-> FALSE]
RestoreStates == {"idle", "refused", "verified", "planned", "moving", "installing", "caught",
                  "undoing", "undo", "done", "failed", "stuck", "killed"}
RestoreRecords ==
  [at : RestoreStates, from : 0 .. MaxClock, plan : SUBSET Files, moved : SUBSET (1 .. Install),
   doing : 0 .. Install, failures : SUBSET (1 .. Install),
   was : [Files -> 0 .. MaxDatabases], copy : 0 .. MaxDatabases, opened : BOOLEAN]
Ended == {"idle", "refused", "done", "failed", "stuck", "killed"}

(***************************************************************************)
(* writeSnapshot and prune, as the job runs them                           *)
(***************************************************************************)
AtJob(j, at) == job' = [job EXCEPT ![j].at = at]
Scratch(j) == scratch[job[j].name]
SetScratch(j, state) == scratch' = [scratch EXCEPT ![job[j].name] = state]

\* What a killed run left in the scratch files of this name is cleared first.
BeginBackup(j) ==
  /\ serves # NoFile /\ job[j].at = "idle"
  /\ now \notin Foreign
  /\ \A k \in Jobs : job[k].name # now
  /\ job' = [job EXCEPT ![j] = [at |-> "vacuuming", name |-> now, doomed |-> {}]]
  /\ scratch' = [scratch EXCEPT ![now] = "none"]
  /\ UNCHANGED <<now, server, volume, databases, snapshots, restores, restore, faults, replaced>>

\* The worker opens the path, whatever database lies there by then, and copies.
Vacuum(j) ==
  /\ job[j].at = "vacuuming" /\ Scratch(j) = "none"
  /\ live[Main] # NoFile
  /\ SetScratch(j, "copying")
  /\ UNCHANGED <<now, server, volume, databases, snapshots, job, restores, restore, faults, replaced>>

\* The worker ends well: the copy is whole.
VacuumEnds(j) ==
  /\ job[j].at = "vacuuming" /\ Scratch(j) = "copying"
  /\ SetScratch(j, "plain")
  /\ AtJob(j, "encrypting")
  /\ UNCHANGED <<now, server, volume, databases, snapshots, restores, restore, faults, replaced>>

\* encryptFile opens .part and pipes header, ciphertext and tag into it.
Encrypt(j) ==
  /\ job[j].at = "encrypting" /\ Scratch(j) = "plain"
  /\ SetScratch(j, "part")
  /\ UNCHANGED <<now, server, volume, databases, snapshots, job, restores, restore, faults, replaced>>

EncryptEnds(j) ==
  /\ job[j].at = "encrypting" /\ Scratch(j) = "part"
  /\ SetScratch(j, "sealed")
  /\ AtJob(j, "publishing")
  /\ UNCHANGED <<now, server, volume, databases, snapshots, restores, restore, faults, replaced>>

\* What the rename waits for. It gives .part its name, whatever it holds; the
\* finally clears the scratch files.
Begun(j) == job[j].at = "publishing" \/ (job[j].at = "encrypting" /\ Scratch(j) = "part")
Encrypted(j) == job[j].at = "publishing"

Publish(j) ==
  /\ Encrypted(j)
  /\ snapshots' = [snapshots EXCEPT ![job[j].name] = IF Scratch(j) = "sealed" THEN "whole"
                                                     ELSE "half"]
  /\ SetScratch(j, "none")
  /\ AtJob(j, "listing")
  /\ UNCHANGED <<now, server, volume, databases, restores, restore, faults, replaced>>

\* Any of the awaited calls throws: the finally clears, nothing is pruned.
FailBackup(j) ==
  /\ job[j].at \in {"vacuuming", "encrypting", "publishing"}
  /\ SetScratch(j, "none")
  /\ job' = [job EXCEPT ![j] = IdleJob]
  /\ UNCHANGED <<now, server, volume, databases, snapshots, restores, restore, faults, replaced>>

\* The oldest names, as long as more than Keep remain, and up to the first
\* that is young or carries no date.
Old(t, today) == t \notin Foreign /\ t < today - Keep
DoomedPassingOver(names, today) ==
  {t \in names : Old(t, today) /\ Cardinality({u \in names : u > t}) >= Keep}
Doomed(names, today) ==
  {t \in names : /\ \A u \in names : u <= t => Old(u, today)
                 /\ Cardinality({u \in names : u > t}) >= Keep}

ListSnapshots(j) ==
  /\ job[j].at = "listing"
  /\ job' = [job EXCEPT ![j].at = "unlinking",
                        ![j].doomed = Doomed(Present(snapshots), job[j].name)]
  /\ UNCHANGED <<now, server, volume, databases, scratch, snapshots, restores, restore,
                 faults, replaced>>

\* One unlink after the other, oldest first; one that is gone, or refused,
\* ends the run.
Unlink(j) ==
  /\ job[j].at = "unlinking"
  /\ job[j].doomed # {}
  /\ LET t == Min(job[j].doomed) IN
       \/ /\ t \in Present(snapshots)
          /\ snapshots' = [snapshots EXCEPT ![t] = "none"]
          /\ job' = [job EXCEPT ![j].doomed = @ \ {t}]
       \/ /\ job' = [job EXCEPT ![j] = IdleJob]
          /\ UNCHANGED snapshots
  /\ UNCHANGED <<now, server, volume, databases, scratch, restores, restore, faults, replaced>>

EndBackup(j) ==
  /\ job[j].at = "unlinking" /\ job[j].doomed = {}
  /\ job' = [job EXCEPT ![j] = IdleJob]
  /\ UNCHANGED <<now, server, volume, databases, scratch, snapshots, restores, restore,
                 faults, replaced>>

(***************************************************************************)
(* restoreBackup                                                           *)
(***************************************************************************)
\* verifyBackup: it decrypts, it is sound, it holds category knowledge. A
\* snapshot that is whole may be none of these.
Verifies(t) == snapshots[t] = "whole"

\* What a killed restore left in its staging file is under a name of its own.
BeginRestore(t) ==
  /\ restore.at \in Ended \ {"stuck"}
  /\ restores < MaxRestores /\ now <= RestoreDays
  /\ t \in Present(snapshots)
  /\ restores' = restores + 1
  /\ staging' = NoFile
  /\ \E at \in {"refused"} \cup (IF Verifies(t) THEN {"verified"} ELSE {}) :
       restore' = [NoRestore EXCEPT !.from = t, !.at = at]
  /\ UNCHANGED <<now, server, live, databases, backups, aside, faults, replaced>>

\* planPreservation; the names moved to are new with every restore.
PlanRestore ==
  /\ restore.at = "verified"
  /\ LET plan == {i \in Files : live[i] # NoFile} IN
       /\ restore' = [restore EXCEPT !.at = "planned", !.plan = plan, !.was = live]
       /\ replaced' = replaced \cup {<<i, live[i]>> : i \in plan}
  /\ UNCHANGED <<now, server, volume, databases, backups, restores, faults>>

\* decryptFile reads the snapshot again: it may be gone, or unreadable, by now.
Decrypt ==
  /\ restore.at = "planned"
  /\ \/ /\ Verifies(restore.from) /\ databases < MaxDatabases
        /\ databases' = databases + 1
        /\ staging' = databases'
        /\ restore' = [restore EXCEPT !.at = "moving", !.copy = databases']
     \/ /\ restore' = [restore EXCEPT !.at = "failed"]
        /\ UNCHANGED <<databases, staging>>
  /\ UNCHANGED <<now, server, live, backups, restores, aside, faults, replaced>>

\* The two ends of a move: a file to its .pre-restore- name, the copy to the
\* target.
From(i) == IF i = Install THEN staging ELSE live[i]
To(i) == IF i = Install THEN live[Main] ELSE aside[restores][i]

Removed(i) == aside
Preserved(i) == [aside EXCEPT ![restores][i] = live[i]]

Forth(i) ==
  IF i = Install
  THEN /\ live' = [live EXCEPT ![Main] = staging] /\ staging' = NoFile /\ UNCHANGED aside
  ELSE /\ live' = [live EXCEPT ![i] = NoFile] /\ aside' = Preserved(i) /\ UNCHANGED staging

Back(i) ==
  IF i = Install
  THEN /\ staging' = live[Main] /\ live' = [live EXCEPT ![Main] = NoFile] /\ UNCHANGED aside
  ELSE /\ live' = [live EXCEPT ![i] = aside[restores][i]]
       /\ aside' = [aside EXCEPT ![restores][i] = NoFile] /\ UNCHANGED staging

\* A rename that reports a failure may have taken effect.
Fault == faults < MaxFaults /\ faults' = faults + 1

Pending == restore.plan \ restore.moved

\* A file that a server has taken away since the plan cannot be moved.
MoveForth(i) ==
  \/ /\ From(i) # NoFile
     /\ Forth(i)
     /\ restore' = IF i = Install THEN [restore EXCEPT !.at = "done"]
                   ELSE [restore EXCEPT !.moved = @ \cup {i}]
     /\ UNCHANGED faults
  \/ /\ From(i) # NoFile /\ Fault
     /\ Forth(i) \/ UNCHANGED volume
     /\ restore' = [restore EXCEPT !.at = "caught", !.doing = i]
  \/ /\ From(i) = NoFile
     /\ restore' = [restore EXCEPT !.at = "caught", !.doing = i]
     /\ UNCHANGED <<volume, faults>>

MoveAside ==
  /\ restore.at = "moving" /\ Pending # {}
  /\ MoveForth(Min(Pending))
  /\ UNCHANGED <<now, server, databases, backups, restores, replaced>>

\* The target must not have reappeared while the old files were moved.
CheckTarget ==
  /\ restore.at = "moving" /\ Pending = {}
  /\ restore' = [restore EXCEPT !.at = IF live[Main] = NoFile THEN "installing" ELSE "caught"]
  /\ UNCHANGED <<now, server, volume, databases, backups, restores, faults, replaced>>

InstallCopy ==
  /\ restore.at = "installing"
  /\ MoveForth(Install)
  /\ UNCHANGED <<now, server, databases, backups, restores, replaced>>

\* What the failed move did is told by which of its two ends is there.
TookNoEffect(i) == FALSE
TookEffect(i) == From(i) = NoFile /\ To(i) # NoFile

Catch ==
  /\ restore.at = "caught"
  /\ restore' = [restore EXCEPT !.at = "undoing",
                   !.moved = IF restore.doing # 0 /\ TookEffect(restore.doing)
                             THEN @ \cup {restore.doing} ELSE @]
  /\ UNCHANGED <<now, server, volume, databases, backups, restores, faults, replaced>>

\* In reverse order; a path that is occupied is left alone.
Undoing == Max(restore.moved)

CheckUndo ==
  /\ restore.at = "undoing" /\ restore.moved # {}
  /\ restore' = IF From(Undoing) = NoFile THEN [restore EXCEPT !.at = "undo"]
                ELSE [restore EXCEPT !.moved = @ \ {Undoing}, !.failures = @ \cup {Undoing}]
  /\ UNCHANGED <<now, server, volume, databases, backups, restores, faults, replaced>>

Undo ==
  /\ restore.at = "undo"
  /\ \/ /\ Back(Undoing)
        /\ restore' = [restore EXCEPT !.at = "undoing", !.moved = @ \ {Undoing}]
        /\ UNCHANGED faults
     \/ /\ Fault
        /\ Back(Undoing) \/ UNCHANGED volume
        /\ restore' = [restore EXCEPT !.at = "undoing", !.moved = @ \ {Undoing},
                                      !.failures = @ \cup {Undoing}]
  /\ UNCHANGED <<now, server, databases, backups, restores, replaced>>

\* The copy is kept only when putting the files back has failed.
GiveUp ==
  /\ restore.at = "undoing" /\ restore.moved = {}
  /\ IF restore.failures = {}
     THEN /\ restore' = [restore EXCEPT !.at = "failed"]
          /\ staging' = NoFile
     ELSE /\ restore' = [restore EXCEPT !.at = "stuck"]
          /\ UNCHANGED staging
  /\ UNCHANGED <<now, server, live, databases, backups, restores, aside, faults, replaced>>

\* What it planned, and knew of its moves, is gone with it.
KillRestore ==
  /\ restore.at \notin Ended
  /\ restore' = [NoRestore EXCEPT !.at = "killed", !.copy = restore.copy,
                                  !.failures = restore.failures, !.opened = restore.opened]
  /\ UNCHANGED <<now, server, volume, databases, backups, restores, faults, replaced>>

(***************************************************************************)
(* The server                                                              *)
(***************************************************************************)
Sidecars == Files \ {Main}

\* openDatabase creates the database it does not find, and in WAL mode the
\* sidecars it does not find. Beside a database it finds, SQLite takes the
\* sidecars that are there for its own; beside one it has just created, it
\* deletes them.
StartServer ==
  /\ serves = NoFile
  /\ starts < MaxStarts /\ starts' = starts + 1
  /\ IF live[Main] = NoFile
     THEN /\ databases < MaxDatabases
          /\ databases' = databases + 1
          /\ serves' = databases'
          /\ live' = [i \in Files |-> databases']
          /\ replaced' = replaced \ {<<i, live[i]>> : i \in Sidecars}
     ELSE /\ serves' = live[Main]
          /\ live' = [i \in Files |-> IF live[i] = NoFile THEN live[Main] ELSE live[i]]
          /\ UNCHANGED <<databases, replaced>>
  /\ restore' = [restore EXCEPT !.opened = @ \/ restore.at \notin Ended]
  /\ UNCHANGED <<now, backups, restores, aside, staging, faults>>

\* The runs of the job are gone with the server, their files stay.
JobsGone == job' = [j \in Jobs |-> IdleJob]

\* closeDatabase: the log is folded into the database and the sidecars are
\* deleted, unless the path no longer holds the database that was opened.
StopServer ==
  /\ serves # NoFile
  /\ serves' = NoFile
  /\ JobsGone
  /\ IF live[Main] = serves
     THEN /\ live' = [i \in Files |-> IF i = Main THEN live[Main] ELSE NoFile]
          /\ replaced' = replaced \ {<<i, live[i]>> : i \in Sidecars}
     ELSE UNCHANGED <<live, replaced>>
  /\ UNCHANGED <<now, starts, databases, scratch, snapshots, restores, aside, staging,
                 restore, faults>>

KillServer ==
  /\ serves # NoFile
  /\ serves' = NoFile
  /\ JobsGone
  /\ UNCHANGED <<now, starts, volume, databases, scratch, snapshots, restores, restore,
                 faults, replaced>>

NextDay ==
  /\ now < MaxClock
  /\ now < RestoreDays \/ (restores = 0 /\ starts = 0)
  /\ now' = now + 1
  /\ UNCHANGED <<server, volume, databases, backups, restores, restore, faults, replaced>>

Init ==
  /\ now = 1 /\ serves = 1 /\ starts = 0
  /\ live = [i \in Files |-> 1]
  /\ databases = 1
  /\ scratch = [t \in Days |-> "none"]
  /\ \E there \in SUBSET Foreign :
       snapshots = [t \in Days |-> IF t \in there THEN "whole" ELSE "none"]
  /\ job = [j \in Jobs |-> IdleJob]
  /\ restores = 0
  /\ aside = [n \in 1 .. MaxRestores |-> [i \in Files |-> NoFile]]
  /\ staging = NoFile
  /\ restore = NoRestore
  /\ faults = 0
  /\ replaced = {}

Next ==
  \/ \E j \in Jobs : BeginBackup(j)
  \/ \E j \in Jobs : Vacuum(j)
  \/ \E j \in Jobs : VacuumEnds(j)
  \/ \E j \in Jobs : Encrypt(j)
  \/ \E j \in Jobs : EncryptEnds(j)
  \/ \E j \in Jobs : Publish(j)
  \/ \E j \in Jobs : FailBackup(j)
  \/ \E j \in Jobs : ListSnapshots(j)
  \/ \E j \in Jobs : Unlink(j)
  \/ \E j \in Jobs : EndBackup(j)
  \/ \E t \in Days : BeginRestore(t)
  \/ PlanRestore
  \/ Decrypt
  \/ MoveAside
  \/ CheckTarget
  \/ InstallCopy
  \/ Catch
  \/ CheckUndo
  \/ Undo
  \/ GiveUp
  \/ KillRestore
  \/ StartServer
  \/ StopServer
  \/ KillServer
  \/ NextDay

Spec == Init /\ [][Next]_vars

(***************************************************************************)
(* What must hold                                                          *)
(***************************************************************************)

\* Every variable holds what the directories and the processes can hold.
TypeOK ==
  /\ now \in Days
  /\ serves \in 0 .. MaxDatabases /\ starts \in 0 .. MaxStarts
  /\ live \in [Files -> 0 .. MaxDatabases]
  /\ databases \in 1 .. MaxDatabases
  /\ scratch \in [Days -> ScratchStates]
  /\ snapshots \in [Days -> {"none", "half", "whole"}]
  /\ job \in [Jobs -> JobRecords]
  /\ restores \in 0 .. MaxRestores
  /\ aside \in [1 .. MaxRestores -> [Files -> 0 .. MaxDatabases]]
  /\ staging \in 0 .. MaxDatabases
  /\ restore \in RestoreRecords
  /\ faults \in 0 .. MaxFaults
  /\ replaced \subseteq Files \X (1 .. MaxDatabases)

\* Rule 2 of restore.ts: whatever fails, and whenever a process is killed, a
\* file a restore set out to replace still lies at its own path or at a
\* .pre-restore- one. Only SQLite takes sidecars away: a server that stops
\* folds them into their database, one that starts beside no database deletes
\* them (FilesFoundAreKept, below). A database is never taken.
NothingIsLost ==
  \A r \in replaced : \/ live[r[1]] = r[2]
                      \/ \E n \in 1 .. MaxRestores : aside[n][r[1]] = r[2]

\* A restore ends in one of three ways, whatever SQLite has taken meanwhile.
\* Done: the copy is in place, and every file that was there lies aside.
EndsDone ==
  restore.at = "done" =>
    /\ live[Main] = restore.copy
    /\ \A i \in restore.plan :
         <<i, restore.was[i]>> \in replaced => aside[restores][i] = restore.was[i]
\* Failed: every file is back and the copy gone. But one file may lie
\* aside: the one whose rename took effect and reported a failure, if a server
\* took its path before the restore looked (FailedChangesNothing, below).
EndsFailed ==
  restore.at = "failed" =>
    /\ staging = NoFile
    /\ restore.copy # NoFile => live[Main] # restore.copy
    /\ \A i \in restore.plan : <<i, restore.was[i]>> \in replaced =>
         \/ live[i] = restore.was[i]
         \/ restore.opened /\ i = restore.doing /\ aside[restores][i] = restore.was[i]
\* Stuck: the copy is still somewhere to be had.
EndsStuck ==
  restore.at = "stuck" => restore.copy \in {staging, live[Main]}
\* As long as nothing failed on the way back and no server opened the path
\* since the plan, no other database's sidecar lies beside the copy.
CopyStandsAlone ==
  restore.failures = {} /\ ~restore.opened /\ restore.copy # NoFile /\ live[Main] = restore.copy
    => \A i \in Sidecars : live[i] \in {NoFile, restore.copy}
RestoreEndsWhole == EndsDone /\ EndsFailed /\ EndsStuck /\ CopyStandsAlone

\* A name in the directory is a whole snapshot, whenever the server was killed,
\* whatever a killed run left in its scratch files (writeSnapshot).
SnapshotsAreWhole == \A t \in Days : snapshots[t] # "half"

\* A snapshot goes only when it is older than Keep days, at least Keep newer
\* ones stay, and none older stays: not a name without a date, and not what a
\* run that failed would have replaced (prune), even when two runs overlap.
UnlinksTheOldest ==
  \A t \in Present(snapshots) \ Present(snapshots') :
    /\ Old(t, now)
    /\ Cardinality({u \in Present(snapshots') : u > t}) >= Keep
    /\ \A u \in Present(snapshots') : u > t \/ Old(u, now)
RetentionHolds == [][UnlinksTheOldest]_vars

(***************************************************************************)
(* What the source says and the code does not do when a server starts      *)
(* under a restore, or after one that was killed                           *)
(***************************************************************************)

\* "Leaving them next to a different one is the single way this could corrupt
\* data" (restore.ts:19): a server that opens the path after the plan leaves
\* sidecars the plan does not hold, and the copy is installed beside them.
SidecarsFollow == live[Main] # NoFile => \A i \in Sidecars : live[i] \in {NoFile, live[Main]}

\* "Nothing is deleted" (restore.ts:16): a restore is between the moves of the
\* database and of its log, or was killed there, and a server that starts deletes
\* the log.
FilesFoundAreKept ==
  [][serves = NoFile /\ serves' # NoFile => \A i \in Files : live[i] \in {NoFile, live'[i]}]_vars

\* A new live path "must not have its file overwritten" (restore.ts, before the
\* install): a server may create it between the look and the rename.
NewcomersStay == [][live[Main] # NoFile => live'[Main] \in {NoFile, live[Main]}]_vars

\* "Nothing was changed" (scripts/backup-restore.ts:117), where no failed
\* roll-back is reported: see EndsFailed.
FailedChangesNothing ==
  restore.at = "failed" /\ Main \in restore.plan => live[Main] = restore.was[Main]
=============================================================================
