------------------------------- MODULE Backup -------------------------------
(***************************************************************************)
(* The local backup (backup.py): planning from the latest snapshots, the   *)
(* staging copy with its manifest, the restore check, the replacement of   *)
(* the target, and the checks that later judge a backup directory.         *)
(*                                                                         *)
(* Backups of one root go to one target outside of it, from several        *)
(* processes (an auto-sync, a mirror-run, an operator's backup command),   *)
(* while fetches go on adding files to the root; nothing but the auto-sync *)
(* lock, which backups do not take, keeps them apart.  A process may die   *)
(* between any two steps.  Damage to the target is that of the commands    *)
(* that write to a backup root (validate without --no-record, a fetch into *)
(* it) and of edits by hand, which restore-check is there to notice.       *)
(*                                                                         *)
(* A data file is one per job of a fetch, at a path fixed by the job: its  *)
(* bytes are the version that the last fetch of the job has written.  A    *)
(* catalog row <<job, version>> records size and checksum of that version. *)
(***************************************************************************)
EXTENDS Naturals, FiniteSets

CONSTANTS
    Jobs,        \* job keys, one file each
    Apis,        \* the apis
    ApiOf,       \* the api of a job
    MaxVersion,  \* how often one job may be fetched
    Sync,        \* backup processes that always overwrite and take every api
    Manual,      \* backup processes of operators, with any flags
    MaxManual,   \* calls of operators
    MaxTrouble,  \* deaths, failed commits, disk errors and damage to the
                 \* target, in all
    All,         \* no --api flag
    Absent,      \* no such directory
    Nobody       \* no process

ASSUME JobsAssumption == IsFiniteSet(Jobs) /\ ApiOf \in [Jobs -> Apis]
ASSUME VersionAssumption == MaxVersion \in Nat \ {0}
ASSUME NamesAssumption ==
    /\ All \notin Apis
    /\ Nobody \notin Sync \union Manual
    /\ Sync \intersect Manual = {}
ASSUME BoundsAssumption == MaxManual \in Nat /\ MaxTrouble \in Nat

Processes == Sync \union Manual
Versions == 1..MaxVersion
Rows == Jobs \X Versions

VARIABLES
    rows,      \* files of the current snapshots
    disk,      \* the version of each data file, 0 when there is none
    moved,     \* jobs whose new file is in place and not yet committed
    done,      \* jobs that are done and not fetched again
    target,    \* the directory at the target path
    placed,    \* what was last renamed to the target path
    damaged,   \* whether it was damaged since
    broken,    \* whether an error has ended a replacement of it since
    orphans,   \* staging directories of processes that died
    remover,   \* the process that removes the target
    pc, plan, scope, overwrite, stage, copied,  \* the backup processes
    calls,     \* calls of operators so far
    trouble    \* what MaxTrouble bounds

root == <<rows, disk, moved, done>>
local == <<pc, plan, scope, overwrite, stage, copied>>
vars == <<rows, disk, moved, done, target, placed, damaged, broken, orphans, remover,
          pc, plan, scope, overwrite, stage, copied, calls, trouble>>

-----------------------------------------------------------------------------
(* Backup directories *)

(* A catalog copy: the rows it lists and whether something was written to  *)
(* it since it was copied.                                                 *)
Catalogs == [rows : SUBSET Rows, written : BOOLEAN]

(* What the validator tells apart: a manifest that is missing or is no     *)
(* JSON object, one of this version with all fields of their types, that   *)
(* one with fields it does not know (a warning), one with a field missing  *)
(* or of a wrong type, another version, a wrong number of files.           *)
Forms == {"none", "v1", "extra_field", "bad_field", "other_version", "miscounted"}

(* manifest.json lists the rows of the plan and the checksum of the        *)
(* catalog; the rest is what the directory holds.                          *)
Dirs == [manifest : Forms, listed : SUBSET Rows, sum : Catalogs \union {Absent},
         catalog : Catalogs \union {Absent}, configs : {"same", "other", "gone"},
         files : [Jobs -> 0..MaxVersion]]

ASSUME AbsentAssumption == Absent \notin Dirs /\ Absent \notin Catalogs

Empty == [manifest |-> "none", listed |-> {}, sum |-> Absent, catalog |-> Absent,
          configs |-> "gone", files |-> [j \in Jobs |-> 0]]

(* BackupManifestValidator.load_and_validate finds no error.               *)
ManifestValid(d) == d.manifest \in {"v1", "extra_field"}

(* RestoreChecker._check_catalog *)
CatalogMatches(d) == d.catalog # Absent /\ d.catalog = d.sum

(* RestoreChecker._check_endpoint_configs *)
ConfigsMatch(d) == d.configs = "same"

(* Mutant: the check of the files only looks whether they are there.       *)
FileThere(d, row) == d.files[row[1]] # 0

(* RestoreChecker._check_file, of a manifest entry *)
FileMatches(d, row) == d.files[row[1]] = row[2]

(* RestoreChecker.check *)
RestoreSucceeds(d) ==
    /\ ManifestValid(d)
    /\ CatalogMatches(d)
    /\ ConfigsMatch(d)
    /\ \A row \in d.listed : FileMatches(d, row)

(* BackupInspector.inspect: the catalog is there and its checksum is not   *)
(* the one in the manifest.                                                *)
PossibleMutation(d) ==
    d.manifest # "none" /\ d.sum # Absent /\ d.catalog # Absent /\ d.catalog # d.sum

(* BackupStatusReporter.report: no blocking error.                         *)
Ready(d) == d # Absent /\ ManifestValid(d) /\ RestoreSucceeds(d) /\ ~PossibleMutation(d)

-----------------------------------------------------------------------------
Init ==
    /\ rows = {}
    /\ disk = [j \in Jobs |-> 0]
    /\ moved = {}
    /\ done = {}
    /\ target = Absent
    /\ placed = Absent
    /\ damaged = FALSE /\ broken = FALSE
    /\ orphans = {}
    /\ remover = Nobody
    /\ pc = [p \in Processes |-> "idle"]
    /\ plan = [p \in Processes |-> {}]
    /\ scope = [p \in Processes |-> All]
    /\ overwrite = [p \in Processes |-> FALSE]
    /\ stage = [p \in Processes |-> Absent]
    /\ copied = [p \in Processes |-> {}]
    /\ calls = 0
    /\ trouble = 0

Trouble == trouble < MaxTrouble /\ trouble' = trouble + 1

(* A fetch moves the data file of a job that is not done over what may be  *)
(* there from an earlier fetch.                                            *)
Move(j) ==
    /\ j \notin moved \union done /\ disk[j] < MaxVersion
    /\ disk' = [disk EXCEPT ![j] = @ + 1]
    /\ moved' = moved \union {j}
    /\ UNCHANGED <<rows, done, target, placed, damaged, broken, orphans, remover, local, calls, trouble>>

(* Mutant: size and checksum of the row are those from before the move.    *)
CommitStale(j) ==
    /\ j \in moved
    /\ rows' = rows \union {<<j, disk[j] - 1>>}
    /\ moved' = moved \ {j}
    /\ done' = done \union {j}
    /\ UNCHANGED <<disk, target, placed, damaged, broken, orphans, remover, local, calls, trouble>>

(* It commits a snapshot with the new row and those of the parent, ...     *)
Commit(j) ==
    /\ j \in moved
    /\ rows' = rows \union {<<j, disk[j]>>}
    /\ moved' = moved \ {j}
    /\ done' = done \union {j}
    /\ UNCHANGED <<disk, target, placed, damaged, broken, orphans, remover, local, calls, trouble>>

(* ... or dies before the commit, or between the commit and the update     *)
(* that makes the job done: the job is fetched again.                      *)
FetchDies(j) ==
    /\ j \in moved /\ Trouble
    /\ moved' = moved \ {j}
    /\ rows' \in {rows, rows \union {<<j, disk[j]>>}}
    /\ UNCHANGED <<disk, done, target, placed, damaged, broken, orphans, remover, local, calls>>

-----------------------------------------------------------------------------
(* A backup *)

Step(p, from, to) == pc[p] = from /\ pc' = [pc EXCEPT ![p] = to]

(* The call ends and its locals are gone.                                  *)
Leave(p) ==
    /\ pc' = [pc EXCEPT ![p] = "idle"]
    /\ plan' = [plan EXCEPT ![p] = {}]
    /\ scope' = [scope EXCEPT ![p] = All]
    /\ overwrite' = [overwrite EXCEPT ![p] = FALSE]
    /\ stage' = [stage EXCEPT ![p] = Absent]
    /\ copied' = [copied EXCEPT ![p] = {}]

(* latest_snapshots and their raw, lake and object files; the plan of an   *)
(* api has the files of that api only.                                     *)
Planned(s) == {r \in rows : s \in {All, ApiOf[r[1]]}}

(* BackupPlanner.plan and the guards of the executor: nothing to back up   *)
(* and an existing target without --overwrite are refused.  A target in    *)
(* the source root is refused too; that is no state of this model.         *)
Start(p, s, over) ==
    /\ IF Planned(s) = {} \/ (target # Absent /\ ~over)
       THEN UNCHANGED <<pc, plan, scope, overwrite>>
       ELSE /\ Step(p, "idle", "stage")
            /\ plan' = [plan EXCEPT ![p] = Planned(s)]
            /\ scope' = [scope EXCEPT ![p] = s]
            /\ overwrite' = [overwrite EXCEPT ![p] = over]
    /\ pc[p] = "idle"
    /\ UNCHANGED <<root, target, placed, damaged, broken, orphans, remover, stage, copied, trouble>>

(* Mutant: the caller does not ask to overwrite.                           *)
StartSyncKeeping(p) == p \in Sync /\ Start(p, All, FALSE) /\ UNCHANGED calls

(* An auto-sync overwrites; an operator calls backup with any flags.       *)
StartSync(p) == p \in Sync /\ Start(p, All, TRUE) /\ UNCHANGED calls
StartManual(p) ==
    /\ p \in Manual /\ calls < MaxManual
    /\ calls' = calls + 1
    /\ \E s \in Apis \union {All}, over \in BOOLEAN : Start(p, s, over)

(* Mutant: the target is removed before the staging copy is made.          *)
CopyCatalogOverTarget(p) ==
    /\ Step(p, "stage", "files")
    /\ target' = Absent
    /\ stage' = [stage EXCEPT ![p] =
        [Empty EXCEPT !.catalog = [rows |-> rows, written |-> FALSE], !.configs = "same"]]
    /\ copied' = [copied EXCEPT ![p] = {}]
    /\ UNCHANGED <<root, placed, damaged, broken, orphans, remover, plan, scope, overwrite, calls, trouble>>

(* A fresh staging directory beside the target, the catalog by the backup  *)
(* call of SQLite and the endpoint configs.                                *)
CopyCatalog(p) ==
    /\ Step(p, "stage", "files")
    /\ stage' = [stage EXCEPT ![p] =
        [Empty EXCEPT !.catalog = [rows |-> rows, written |-> FALSE], !.configs = "same"]]
    /\ copied' = [copied EXCEPT ![p] = {}]
    /\ UNCHANGED <<root, target, placed, damaged, broken, orphans, remover, plan, scope, overwrite, calls, trouble>>

(* Mutant: the files to copy are asked of the catalog while copying.       *)
CopyFileReplanned(p) ==
    /\ pc[p] = "files"
    /\ \E r \in Planned(scope[p]) \ copied[p] :
        /\ disk[r[1]] = r[2]
        /\ stage' = [stage EXCEPT ![p].files[r[1]] = r[2]]
        /\ copied' = [copied EXCEPT ![p] = @ \union {r}]
    /\ plan' = [plan EXCEPT ![p] = Planned(scope[p])]
    /\ UNCHANGED <<pc, root, target, placed, damaged, broken, orphans, remover, scope, overwrite, calls,
                   trouble>>

(* Mutant: what was copied is not compared with the row.                   *)
CopyFileUnchecked(p) ==
    /\ pc[p] = "files"
    /\ \E r \in plan[p] \ copied[p] :
        /\ stage' = [stage EXCEPT ![p].files[r[1]] = disk[r[1]]]
        /\ copied' = [copied EXCEPT ![p] = @ \union {r}]
    /\ UNCHANGED <<pc, root, target, placed, damaged, broken, orphans, remover, plan, scope, overwrite, calls,
                   trouble>>

(* _copy_files, one file: its size and checksum must be those of the row.  *)
CopyFile(p) ==
    /\ pc[p] = "files"
    /\ \E r \in plan[p] \ copied[p] :
        IF disk[r[1]] = r[2]
        THEN /\ stage' = [stage EXCEPT ![p].files[r[1]] = r[2]]
             /\ copied' = [copied EXCEPT ![p] = @ \union {r}]
             /\ UNCHANGED pc
        ELSE /\ pc' = [pc EXCEPT ![p] = "raise"]
             /\ UNCHANGED <<stage, copied>>
    /\ UNCHANGED <<root, target, placed, damaged, broken, orphans, remover, plan, scope, overwrite, calls, trouble>>

(* All files copied: the manifest, then the restore check of the staging   *)
(* directory.                                                              *)
WriteManifest(p) ==
    /\ plan[p] = copied[p]
    /\ Step(p, "files", "check")
    /\ stage' = [stage EXCEPT ![p].manifest = "v1", ![p].listed = plan[p],
                              ![p].sum = stage[p].catalog]
    /\ UNCHANGED <<root, target, placed, damaged, broken, orphans, remover, plan, scope, overwrite, copied, calls,
                   trouble>>

CheckStaging(p) ==
    /\ Step(p, "check", IF RestoreSucceeds(stage[p]) THEN "remove" ELSE "raise")
    /\ UNCHANGED <<root, target, placed, damaged, broken, orphans, remover, plan, scope, overwrite, stage, copied,
                   calls, trouble>>

(* What a removal in progress leaves for others to see.                    *)
Remnant(d) ==
    {[d EXCEPT !.manifest = "none"],
     [d EXCEPT !.catalog = Absent, !.files = [j \in Jobs |-> 0]]}
    \union {[d EXCEPT !.files[j] = 0] : j \in Jobs}

(* An existing target is removed entry by entry.  Of two that remove it    *)
(* the one that comes upon an entry the other has just deleted raises, and *)
(* the other goes on.                                                      *)
RemoveTarget(p) ==
    /\ \/ target = Absent /\ Step(p, "remove", "replace") /\ UNCHANGED <<target, remover>>
       \/ /\ target # Absent /\ Step(p, "remove", "removing")
          /\ target' \in Remnant(target)
          /\ remover' = p
       \/ /\ remover # Nobody /\ Step(p, "remove", "raise")
          /\ UNCHANGED <<target, remover>>
    /\ UNCHANGED <<root, placed, damaged, broken, orphans, plan, scope, overwrite, stage, copied, calls, trouble>>

Removed(p) ==
    /\ IF remover = p
       THEN /\ Step(p, "removing", "replace")
            /\ target' = Absent /\ remover' = Nobody
       ELSE Step(p, "removing", "raise") /\ UNCHANGED <<target, remover>>
    /\ UNCHANGED <<root, placed, damaged, broken, orphans, plan, scope, overwrite, stage, copied, calls, trouble>>

(* os.replace, which fails on a directory another process has put there.   *)
Replace(p) ==
    /\ pc[p] = "replace"
    /\ IF target = Absent
       THEN /\ Leave(p)
            /\ target' = stage[p] /\ placed' = stage[p]
            /\ damaged' = FALSE /\ broken' = FALSE
       ELSE /\ pc' = [pc EXCEPT ![p] = "raise"]
            /\ UNCHANGED <<target, placed, damaged, broken, plan, scope, overwrite, stage, copied>>
    /\ UNCHANGED <<root, orphans, remover, calls, trouble>>

(* The exception handler removes the staging directory, also the one that  *)
(* has passed the restore check.                                           *)
Raise(p) ==
    /\ pc[p] = "raise" /\ Leave(p)
    /\ UNCHANGED <<root, target, placed, damaged, broken, orphans, remover, calls, trouble>>

(* A process that removes the target does not go on: another one that is   *)
(* at it does, or raises upon what is gone.                                *)
GiveUpRemoval(p) ==
    remover' \in IF remover # p THEN {remover}
                 ELSE {Nobody} \union {q \in Processes \ {p} : pc[q] = "removing"}

(* A read or a write fails.  One that ends the removal of the target or    *)
(* the rename leads to the same handler as all others.                     *)
DiskError(p) ==
    /\ pc[p] \in {"stage", "files", "check", "remove", "removing", "replace"}
    /\ Trouble
    /\ pc' = [pc EXCEPT ![p] = "raise"]
    /\ broken' = (broken \/ pc[p] \in {"removing", "replace"})
    /\ GiveUpRemoval(p)
    /\ UNCHANGED <<root, target, placed, damaged, orphans, plan, scope, overwrite, stage, copied,
                   calls>>

(* The process is killed; its next backup has another staging name.        *)
Die(p) ==
    /\ pc[p] # "idle" /\ Trouble /\ Leave(p)
    /\ orphans' = orphans \union ({stage[p]} \ {Absent})
    /\ GiveUpRemoval(p)
    /\ UNCHANGED <<root, target, placed, damaged, broken, calls>>

-----------------------------------------------------------------------------
(* Writes to the target by others: the catalog of the backup by a command  *)
(* that opens the backup as a root, and edits by hand.                     *)
Damaged(d) ==
    {[d EXCEPT !.manifest = f] : f \in Forms}
    \union {[d EXCEPT !.configs = c] : c \in {"other", "gone"}}
    \union {[d EXCEPT !.files[j] = v] : j \in Jobs, v \in 0..MaxVersion}
    \union (IF d.catalog = Absent THEN {}
            ELSE {[d EXCEPT !.catalog.written = TRUE], [d EXCEPT !.catalog = Absent]})

Damage ==
    /\ target # Absent /\ remover = Nobody /\ Trouble
    /\ target' \in Damaged(target) \ {target}
    /\ damaged' = TRUE
    /\ UNCHANGED <<root, placed, broken, orphans, remover, local, calls>>

BackupStep(p) ==
    \/ CopyCatalog(p) \/ CopyFile(p) \/ WriteManifest(p) \/ CheckStaging(p)
    \/ RemoveTarget(p) \/ Removed(p) \/ Replace(p) \/ Raise(p)

Next ==
    \/ \E j \in Jobs : Move(j) \/ Commit(j) \/ FetchDies(j)
    \/ \E p \in Processes : StartSync(p) \/ StartManual(p) \/ BackupStep(p)
                              \/ DiskError(p) \/ Die(p)
    \/ Damage

(* Fetches and backups make progress, and an auto-sync backs up again and  *)
(* again.                                                                  *)
Fairness ==
    /\ \A j \in Jobs : WF_vars(Move(j)) /\ WF_vars(Commit(j))
    /\ \A p \in Processes : WF_vars(BackupStep(p))
    /\ \A p \in Sync : WF_vars(StartSync(p))

Spec == Init /\ [][Next]_vars
FairSpec == Spec /\ Fairness

-----------------------------------------------------------------------------
(* Every variable holds a row, a version, a directory or a local of a step *)
(* of BackupExecutor.                                                      *)
TypeOK ==
    /\ rows \in SUBSET Rows
    /\ disk \in [Jobs -> 0..MaxVersion]
    /\ moved \in SUBSET Jobs /\ done \in SUBSET Jobs
    /\ target \in Dirs \union {Absent} /\ placed \in Dirs \union {Absent}
    /\ damaged \in BOOLEAN /\ broken \in BOOLEAN
    /\ orphans \subseteq Dirs
    /\ remover \in Processes \union {Nobody}
    /\ pc \in [Processes -> {"idle", "stage", "files", "check", "remove", "removing",
                            "replace", "raise"}]
    /\ plan \in [Processes -> SUBSET Rows]
    /\ scope \in [Processes -> Apis \union {All}]
    /\ overwrite \in [Processes -> BOOLEAN]
    /\ stage \in [Processes -> Dirs \union {Absent}]
    /\ copied \in [Processes -> SUBSET Rows]
    /\ calls \in 0..MaxManual /\ trouble \in 0..MaxTrouble

(* The copy of the catalog is never behind the manifest: whatever fetches  *)
(* commit while a backup runs, each file of its manifest is listed by the  *)
(* catalog beside it, so that a backup opened as a root finds them all.    *)
(* The copy may be ahead: it is made after the plan.                       *)
ManifestInCatalog ==
    /\ target # Absent /\ ~damaged /\ target.catalog # Absent
        => target.listed \subseteq target.catalog.rows
    /\ \A p \in Processes : stage[p] # Absent => stage[p].listed \subseteq stage[p].catalog.rows

(* Once a backup was made, and as long as nobody but the backups touches   *)
(* the target, a copy that passes the restore check is on the disk: at the *)
(* target, or in the staging directory of a live or a dead process.  So a  *)
(* crash between the removal and the rename, two backups that replace the  *)
(* target at once, and a failing copy or check never leave the operator    *)
(* without.  A removal or a rename that fails does: the handler deletes    *)
(* the verified staging directory too, when the target is gone or in part. *)
CopySurvives ==
    placed # Absent /\ ~damaged /\ ~broken =>
        \E d \in ({target} \union orphans \union {stage[p] : p \in Processes}) \ {Absent} :
            RestoreSucceeds(d)

(* What backup-status calls ready is, in all that the manifest speaks of,  *)
(* what a backup has put there: neither half of a removal nor any write to *)
(* the directory goes unnoticed.                                           *)
ReadyMeansPlaced ==
    Ready(target) =>
        /\ target.listed = placed.listed
        /\ target.catalog = placed.catalog
        /\ \A r \in placed.listed : target.files[r[1]] = placed.files[r[1]]

(* A root whose catalog has two rows for one file, since a job that was    *)
(* committed was fetched again, cannot be backed up any more.              *)
Rewritten == \E r \in rows : disk[r[1]] # r[2]

Current == Ready(target) /\ target.listed = rows

(* Whatever died, was left over or was damaged, the target holds all files *)
(* of the root again and again, unless the root has a rewritten file.      *)
BackedUpAgain == []<>(Current \/ rows = {}) \/ <>[]Rewritten
=============================================================================
