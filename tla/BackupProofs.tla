---------------------------- MODULE BackupProofs ----------------------------
(***************************************************************************)
(* The safety of the backups of one target, for any jobs, any number of    *)
(* processes, of versions, of calls and of deaths.                         *)
(***************************************************************************)
EXTENDS Backup, TLAPS

-----------------------------------------------------------------------------
(* The inductive invariant, in parts *)

(* A file that was moved into place has a version.                         *)
MovedWritten == \A j \in moved : disk[j] # 0

(* Rows are only added, so that what was planned stays in the catalog.     *)
PlansCovered == \A p \in Processes : plan[p] \subseteq rows

(* A staging directory has the catalog that was copied to it, ...          *)
StageHasCatalog ==
    \A p \in Processes : stage[p] # Absent =>
        stage[p].catalog \in Catalogs /\ stage[p].listed \subseteq stage[p].catalog.rows

(* ... it is there from the copy of the catalog to the rename, and that    *)
(* catalog was read after the plan.                                        *)
StageHeld ==
    \A p \in Processes :
        /\ pc[p] \in {"files", "check", "remove", "removing", "replace"} => stage[p] # Absent
        /\ pc[p] = "files" => plan[p] \subseteq stage[p].catalog.rows

(* Nobody touches the target without a staging directory that passed the   *)
(* restore check.                                                          *)
StageChecked ==
    \A p \in Processes :
        pc[p] \in {"remove", "removing", "replace"} => RestoreSucceeds(stage[p])

(* What was placed had passed the restore check, and neither a removal nor *)
(* damage changes what the manifest at the target says of it.              *)
TargetPlaced ==
    /\ placed # Absent => RestoreSucceeds(placed) /\ placed.listed \subseteq placed.catalog.rows
    /\ target # Absent =>
        placed # Absent /\ target.listed = placed.listed /\ target.sum = placed.sum

(* The catalog at the target has no rows but those placed with it.         *)
TargetRows ==
    target # Absent /\ target.catalog # Absent => target.catalog.rows = placed.catalog.rows

RemoverRemoves == remover # Nobody => pc[remover] = "removing"

(* Where the copy that CopySurvives asks for is: at the target, in what a  *)
(* dead process has left, with the process that removes the target, or     *)
(* with one that found no target and is about to rename its own.           *)
CopySafe ==
    placed # Absent /\ ~damaged /\ ~broken =>
        \/ target # Absent /\ RestoreSucceeds(target)
        \/ \E d \in orphans \ {Absent} : RestoreSucceeds(d)
        \/ remover # Nobody
        \/ target = Absent /\ \E p \in Processes : pc[p] = "replace"

BackupInv ==
    /\ TypeOK /\ MovedWritten /\ PlansCovered
    /\ StageHasCatalog /\ StageHeld /\ StageChecked
    /\ TargetPlaced /\ TargetRows /\ RemoverRemoves /\ CopySafe

USE JobsAssumption, VersionAssumption, NamesAssumption, BoundsAssumption, AbsentAssumption

-----------------------------------------------------------------------------
(* Backup directories *)

(* A fresh staging directory with a copy of the catalog.                   *)
Staged(s) == [Empty EXCEPT !.catalog = [rows |-> s, written |-> FALSE], !.configs = "same"]

(* It has no manifest and no row but those copied.                         *)
LEMMA StagedIsDir ==
    ASSUME NEW s \in SUBSET Rows
    PROVE  /\ Staged(s) \in Dirs /\ Staged(s) # Absent
           /\ Staged(s).catalog \in Catalogs /\ Staged(s).catalog.rows = s
           /\ Staged(s).listed = {}
<1>1. [rows |-> s, written |-> FALSE] \in Catalogs
  BY DEF Catalogs
<1>2. [j \in Jobs |-> 0] \in [Jobs -> 0..MaxVersion]
  OBVIOUS
<1>3. Empty \in Dirs /\ Empty.listed = {}
  BY <1>2 DEF Empty, Dirs, Forms
<1>4. Staged(s) \in Dirs
  BY <1>1, <1>3 DEF Staged, Dirs
<1>5. Staged(s).catalog = [rows |-> s, written |-> FALSE] /\ Staged(s).listed = {}
  BY <1>3 DEF Staged, Dirs
<1> QED
  BY <1>1, <1>4, <1>5

(* What a removal in progress leaves is a directory with the manifest's    *)
(* data, or none of it, and with the catalog, or none.                     *)
LEMMA RemnantIsDir ==
    ASSUME NEW d \in Dirs, NEW e \in Remnant(d)
    PROVE  /\ e \in Dirs /\ e # Absent
           /\ e.listed = d.listed /\ e.sum = d.sum
           /\ e.catalog # Absent => e.catalog = d.catalog
<1>1. CASE e = [d EXCEPT !.manifest = "none"]
  BY <1>1 DEF Dirs, Forms
<1>2. CASE e = [d EXCEPT !.catalog = Absent, !.files = [j \in Jobs |-> 0]]
  <2>1. [j \in Jobs |-> 0] \in [Jobs -> 0..MaxVersion]
    OBVIOUS
  <2> QED
    BY <1>2, <2>1 DEF Dirs
<1>3. CASE \E j \in Jobs : e = [d EXCEPT !.files[j] = 0]
  BY <1>3 DEF Dirs
<1> QED
  BY <1>1, <1>2, <1>3 DEF Remnant

(* Nor does damage write another manifest's data or add rows to a catalog. *)
LEMMA DamagedIsDir ==
    ASSUME NEW d \in Dirs, NEW e \in Damaged(d)
    PROVE  /\ e \in Dirs /\ e # Absent
           /\ e.listed = d.listed /\ e.sum = d.sum
           /\ e.catalog # Absent => d.catalog # Absent /\ e.catalog.rows = d.catalog.rows
<1>1. CASE \E f \in Forms : e = [d EXCEPT !.manifest = f]
  BY <1>1 DEF Dirs
<1>2. CASE \E c \in {"other", "gone"} : e = [d EXCEPT !.configs = c]
  BY <1>2 DEF Dirs
<1>3. CASE \E j \in Jobs, v \in 0..MaxVersion : e = [d EXCEPT !.files[j] = v]
  BY <1>3 DEF Dirs
<1>4. CASE d.catalog # Absent /\ e = [d EXCEPT !.catalog.written = TRUE]
  <2>1. d.catalog \in Catalogs
    BY <1>4 DEF Dirs
  <2>2. [d.catalog EXCEPT !.written = TRUE] \in Catalogs
    BY <2>1 DEF Catalogs
  <2>3. [d.catalog EXCEPT !.written = TRUE].rows = d.catalog.rows
    BY <2>1 DEF Catalogs
  <2>4. e = [d EXCEPT !.catalog = [d.catalog EXCEPT !.written = TRUE]]
    BY <1>4
  <2> QED
    BY <1>4, <2>2, <2>3, <2>4 DEF Dirs
<1>5. CASE e = [d EXCEPT !.catalog = Absent]
  BY <1>5 DEF Dirs
<1> QED
  BY <1>1, <1>2, <1>3, <1>4, <1>5 DEF Damaged

-----------------------------------------------------------------------------
(* The actions that write to a staging directory *)

(* Every process has a staging directory of its own: the others' stay.     *)
StageOnly(p) == \A q \in Processes \ {p} : stage'[q] = stage[q]

(* The catalog is copied to a fresh staging directory.                     *)
LEMMA CatalogCopied ==
    ASSUME TypeOK, NEW p \in Processes, CopyCatalog(p)
    PROVE  /\ stage' \in [Processes -> Dirs \union {Absent}]
           /\ StageOnly(p) /\ stage'[p] = Staged(rows)
<1>1. stage' = [stage EXCEPT ![p] = Staged(rows)]
  BY DEF CopyCatalog, Staged
<1>2. Staged(rows) \in Dirs
  BY StagedIsDir DEF TypeOK
<1> QED
  BY <1>1, <1>2 DEF TypeOK, StageOnly

(* A data file is added to a staging directory, or the call raises.        *)
LEMMA FileCopied ==
    ASSUME TypeOK, StageHeld, NEW p \in Processes, CopyFile(p)
    PROVE  /\ stage' \in [Processes -> Dirs \union {Absent}]
           /\ copied' \in [Processes -> SUBSET Rows]
           /\ pc' = pc \/ pc' = [pc EXCEPT ![p] = "raise"]
           /\ StageOnly(p) /\ stage[p] # Absent /\ stage'[p] # Absent
           /\ stage'[p].catalog = stage[p].catalog
           /\ stage'[p].listed = stage[p].listed
<1>1. PICK r \in plan[p] \ copied[p] :
        IF disk[r[1]] = r[2]
        THEN /\ stage' = [stage EXCEPT ![p].files[r[1]] = r[2]]
             /\ copied' = [copied EXCEPT ![p] = @ \union {r}]
             /\ UNCHANGED pc
        ELSE /\ pc' = [pc EXCEPT ![p] = "raise"]
             /\ UNCHANGED <<stage, copied>>
  BY DEF CopyFile
<1>2. r \in Rows /\ r[1] \in Jobs /\ r[2] \in 0..MaxVersion
  <2>1. r \in Rows
    BY DEF TypeOK
  <2> QED
    BY <2>1 DEF Rows, Versions
<1>3. stage[p] \in Dirs
  BY DEF CopyFile, StageHeld, TypeOK
<1>4. CASE disk[r[1]] = r[2]
  <2> DEFINE d == [stage[p] EXCEPT !.files[r[1]] = r[2]]
  <2>1. stage' = [stage EXCEPT ![p] = d]
    BY <1>1, <1>4
  <2>2. d \in Dirs /\ d.catalog = stage[p].catalog /\ d.listed = stage[p].listed
    BY <1>2, <1>3 DEF Dirs
  <2> HIDE DEF d
  <2>3. copied' \in [Processes -> SUBSET Rows]
    BY <1>1, <1>2, <1>4 DEF TypeOK
  <2> QED
    BY <1>1, <1>3, <1>4, <2>1, <2>2, <2>3 DEF TypeOK, StageOnly
<1>5. CASE disk[r[1]] # r[2]
  BY <1>1, <1>3, <1>5 DEF TypeOK, StageOnly
<1> QED
  BY <1>4, <1>5

(* The manifest lists the plan.                                            *)
LEMMA ManifestWritten ==
    ASSUME TypeOK, StageHeld, NEW p \in Processes, WriteManifest(p)
    PROVE  /\ stage' \in [Processes -> Dirs \union {Absent}]
           /\ StageOnly(p) /\ stage[p] # Absent /\ stage'[p] # Absent
           /\ stage'[p].catalog = stage[p].catalog
           /\ stage'[p].listed = plan[p]
<1>1. stage[p] \in Dirs
  BY DEF WriteManifest, Step, StageHeld, TypeOK
<1> DEFINE d == [stage[p] EXCEPT !.manifest = "v1", !.listed = plan[p], !.sum = stage[p].catalog]
<1>2. stage' = [stage EXCEPT ![p] = d]
  BY <1>1 DEF WriteManifest, TypeOK
<1>3. d \in Dirs /\ d.catalog = stage[p].catalog /\ d.listed = plan[p]
  <2>1. plan[p] \in SUBSET Rows
    BY DEF TypeOK
  <2>2. stage[p].catalog \in Catalogs \union {Absent}
    BY <1>1 DEF Dirs
  <2> QED
    BY <1>1, <2>1, <2>2 DEF Dirs, Forms
<1> HIDE DEF d
<1> QED
  BY <1>1, <1>2, <1>3 DEF TypeOK, StageOnly

(* A call that ends or dies loses its staging directory.                   *)
LEMMA Left ==
    ASSUME TypeOK, NEW p \in Processes, Leave(p)
    PROVE  /\ stage' \in [Processes -> Dirs \union {Absent}]
           /\ StageOnly(p) /\ stage'[p] = Absent
           /\ pc' = [pc EXCEPT ![p] = "idle"]
           /\ plan' = [plan EXCEPT ![p] = {}]
           /\ plan' \in [Processes -> SUBSET Rows]
           /\ scope' \in [Processes -> Apis \union {All}]
           /\ overwrite' \in [Processes -> BOOLEAN]
           /\ copied' \in [Processes -> SUBSET Rows]
<1>1. stage' = [stage EXCEPT ![p] = Absent]
  BY DEF Leave
<1>2. stage' \in [Processes -> Dirs \union {Absent}] /\ StageOnly(p) /\ stage'[p] = Absent
  BY <1>1 DEF TypeOK, StageOnly
<1> QED
  BY <1>2 DEF Leave, TypeOK

(* A call that is not refused plans rows of the current snapshots.         *)
LEMMA Started ==
    ASSUME TypeOK, NEW p \in Processes, NEW s \in Apis \union {All}, NEW over \in BOOLEAN,
           Start(p, s, over)
    PROVE  /\ pc' = pc \/ pc' = [pc EXCEPT ![p] = "stage"]
           /\ \A q \in Processes :
                \/ pc'[q] = pc[q] /\ plan'[q] = plan[q]
                \/ pc[q] = "idle" /\ pc'[q] = "stage" /\ plan'[q] \subseteq rows
           /\ plan' \in [Processes -> SUBSET Rows]
           /\ scope' \in [Processes -> Apis \union {All}]
           /\ overwrite' \in [Processes -> BOOLEAN]
           /\ UNCHANGED <<root, target, placed, damaged, broken, orphans, remover, stage, copied, trouble>>
<1>1. Planned(s) \in SUBSET Rows
  BY DEF Planned, TypeOK
<1>2. CASE UNCHANGED <<pc, plan, scope, overwrite>>
  BY <1>2 DEF Start, TypeOK
<1>3. CASE /\ Step(p, "idle", "stage")
           /\ plan' = [plan EXCEPT ![p] = Planned(s)]
           /\ scope' = [scope EXCEPT ![p] = s]
           /\ overwrite' = [overwrite EXCEPT ![p] = over]
  BY <1>1, <1>3 DEF Start, Step, Planned, TypeOK
<1> QED
  BY <1>2, <1>3 DEF Start

-----------------------------------------------------------------------------
(* The steps *)

(* A removal in progress, a file copied in part and damage leave directories. *)
LEMMA TypeStep == TypeOK /\ MovedWritten /\ StageHeld /\ [Next]_vars => TypeOK'
<1> SUFFICES ASSUME TypeOK, MovedWritten, StageHeld, [Next]_vars
             PROVE  TypeOK'
  OBVIOUS
<1> USE DEF TypeOK
<1>1. ASSUME NEW j \in Jobs, Move(j)
      PROVE  TypeOK'
  BY <1>1 DEF Move, local
<1>2. ASSUME NEW j \in Jobs, Commit(j)
      PROVE  TypeOK'
  BY <1>2 DEF Commit, local, Rows, Versions, MovedWritten
<1>3. ASSUME NEW j \in Jobs, FetchDies(j)
      PROVE  TypeOK'
  BY <1>3 DEF FetchDies, Trouble, local, Rows, Versions, MovedWritten
<1>4. ASSUME NEW p \in Processes, StartSync(p)
      PROVE  TypeOK'
  BY <1>4, Started DEF StartSync, root
<1>5. ASSUME NEW p \in Processes, StartManual(p)
      PROVE  TypeOK'
  BY <1>5, Started DEF StartManual, root
<1>6. ASSUME NEW p \in Processes, CopyCatalog(p)
      PROVE  TypeOK'
  BY <1>6, CatalogCopied DEF CopyCatalog, Step, root
<1>7. ASSUME NEW p \in Processes, CopyFile(p)
      PROVE  TypeOK'
  BY <1>7, FileCopied DEF CopyFile, root, BackupInv
<1>8. ASSUME NEW p \in Processes, WriteManifest(p)
      PROVE  TypeOK'
  BY <1>8, ManifestWritten DEF WriteManifest, Step, root, BackupInv
<1>9. ASSUME NEW p \in Processes, CheckStaging(p)
      PROVE  TypeOK'
  BY <1>9 DEF CheckStaging, Step, root
<1>10. ASSUME NEW p \in Processes, RemoveTarget(p)
      PROVE  TypeOK'
  BY <1>10, RemnantIsDir DEF RemoveTarget, Step, root
<1>11. ASSUME NEW p \in Processes, Removed(p)
      PROVE  TypeOK'
  BY <1>11 DEF Removed, Step, root
<1>12. ASSUME NEW p \in Processes, Replace(p)
      PROVE  TypeOK'
  <2>1. CASE target = Absent
    <3>1. Leave(p) /\ target' = stage[p] /\ placed' = stage[p]
      BY <1>12, <2>1 DEF Replace
    <3>2. damaged' \in BOOLEAN /\ broken' \in BOOLEAN
      BY <1>12, <2>1, Zenon DEF Replace
    <3>3. target' \in Dirs \union {Absent} /\ placed' \in Dirs \union {Absent}
      BY <3>1
    <3> QED
      BY <1>12, <3>1, <3>2, <3>3, Left DEF Replace, root
  <2>2. CASE target # Absent
    BY <1>12, <2>2 DEF Replace, root
  <2> QED
    BY <2>1, <2>2
<1>13. ASSUME NEW p \in Processes, Raise(p)
      PROVE  TypeOK'
  BY <1>13, Left DEF Raise, root
<1>14. ASSUME NEW p \in Processes, Die(p)
      PROVE  TypeOK'
  BY <1>14, Left DEF Die, Trouble, GiveUpRemoval, root
<1>15. CASE Damage
  BY <1>15, DamagedIsDir DEF Damage, Trouble, root, local
<1>16. CASE UNCHANGED vars
  BY <1>16 DEF vars, local, root
<1>17. ASSUME NEW p \in Processes, DiskError(p)
      PROVE  TypeOK'
  BY <1>17 DEF DiskError, Trouble, GiveUpRemoval, root
<1> QED
  BY <1>1, <1>2, <1>3, <1>4, <1>5, <1>6, <1>7, <1>8, <1>9, <1>10, <1>11, <1>12, <1>13,
     <1>14, <1>15, <1>16, <1>17 DEF Next, BackupStep

(* A fetch moves a file of the next version. *)
LEMMA MovedStep == TypeOK /\ MovedWritten /\ [Next]_vars => MovedWritten'
<1> SUFFICES ASSUME TypeOK, MovedWritten, [Next]_vars
             PROVE  MovedWritten'
  OBVIOUS
<1> USE DEF TypeOK, MovedWritten
<1>1. ASSUME NEW j \in Jobs, Move(j)
      PROVE  MovedWritten'
  BY <1>1 DEF Move, local
<1>2. ASSUME NEW j \in Jobs, Commit(j)
      PROVE  MovedWritten'
  BY <1>2 DEF Commit, local
<1>3. ASSUME NEW j \in Jobs, FetchDies(j)
      PROVE  MovedWritten'
  BY <1>3 DEF FetchDies, Trouble, local
<1>4. ASSUME NEW p \in Processes, StartSync(p)
      PROVE  MovedWritten'
  BY <1>4 DEF StartSync, Start, Step, root
<1>5. ASSUME NEW p \in Processes, StartManual(p)
      PROVE  MovedWritten'
  BY <1>5 DEF StartManual, Start, Step, root
<1>6. ASSUME NEW p \in Processes, CopyCatalog(p)
      PROVE  MovedWritten'
  BY <1>6 DEF CopyCatalog, Step, root
<1>7. ASSUME NEW p \in Processes, CopyFile(p)
      PROVE  MovedWritten'
  BY <1>7 DEF CopyFile, root
<1>8. ASSUME NEW p \in Processes, WriteManifest(p)
      PROVE  MovedWritten'
  BY <1>8 DEF WriteManifest, Step, root
<1>9. ASSUME NEW p \in Processes, CheckStaging(p)
      PROVE  MovedWritten'
  BY <1>9 DEF CheckStaging, Step, root
<1>10. ASSUME NEW p \in Processes, RemoveTarget(p)
      PROVE  MovedWritten'
  BY <1>10 DEF RemoveTarget, Step, root
<1>11. ASSUME NEW p \in Processes, Removed(p)
      PROVE  MovedWritten'
  BY <1>11 DEF Removed, Step, root
<1>12. ASSUME NEW p \in Processes, Replace(p)
      PROVE  MovedWritten'
  BY <1>12 DEF Replace, Leave, root
<1>13. ASSUME NEW p \in Processes, Raise(p)
      PROVE  MovedWritten'
  BY <1>13 DEF Raise, Leave, root
<1>14. ASSUME NEW p \in Processes, Die(p)
      PROVE  MovedWritten'
  BY <1>14 DEF Die, Trouble, GiveUpRemoval, Leave, root
<1>15. CASE Damage
  BY <1>15 DEF Damage, Trouble, root, local
<1>16. CASE UNCHANGED vars
  BY <1>16 DEF vars, local, root
<1>17. ASSUME NEW p \in Processes, DiskError(p)
      PROVE  MovedWritten'
  BY <1>17 DEF DiskError, Trouble, GiveUpRemoval, root
<1> QED
  BY <1>1, <1>2, <1>3, <1>4, <1>5, <1>6, <1>7, <1>8, <1>9, <1>10, <1>11, <1>12, <1>13,
     <1>14, <1>15, <1>16, <1>17 DEF Next, BackupStep

(* A plan has rows of the current snapshots, and rows are only added. *)
LEMMA PlanStep == TypeOK /\ PlansCovered /\ [Next]_vars => PlansCovered'
<1> SUFFICES ASSUME TypeOK, PlansCovered, [Next]_vars
             PROVE  PlansCovered'
  OBVIOUS
<1> USE DEF TypeOK, PlansCovered
<1>1. ASSUME NEW j \in Jobs, Move(j)
      PROVE  PlansCovered'
  BY <1>1 DEF Move, local
<1>2. ASSUME NEW j \in Jobs, Commit(j)
      PROVE  PlansCovered'
  BY <1>2 DEF Commit, local
<1>3. ASSUME NEW j \in Jobs, FetchDies(j)
      PROVE  PlansCovered'
  BY <1>3 DEF FetchDies, Trouble, local
<1>4. ASSUME NEW p \in Processes, StartSync(p)
      PROVE  PlansCovered'
  BY <1>4, Started DEF StartSync, root
<1>5. ASSUME NEW p \in Processes, StartManual(p)
      PROVE  PlansCovered'
  <2>1. PICK s \in Apis \union {All}, over \in BOOLEAN : Start(p, s, over)
    BY <1>5 DEF StartManual
  <2> QED
    BY <2>1, Started DEF root
<1>6. ASSUME NEW p \in Processes, CopyCatalog(p)
      PROVE  PlansCovered'
  BY <1>6, CatalogCopied, StagedIsDir DEF CopyCatalog, Step, root, StageOnly
<1>7. ASSUME NEW p \in Processes, CopyFile(p)
      PROVE  PlansCovered'
  BY <1>7, FileCopied DEF CopyFile, root, StageOnly
<1>8. ASSUME NEW p \in Processes, WriteManifest(p)
      PROVE  PlansCovered'
  BY <1>8, ManifestWritten DEF WriteManifest, Step, root, StageOnly
<1>9. ASSUME NEW p \in Processes, CheckStaging(p)
      PROVE  PlansCovered'
  BY <1>9 DEF CheckStaging, Step, root
<1>10. ASSUME NEW p \in Processes, RemoveTarget(p)
      PROVE  PlansCovered'
  BY <1>10 DEF RemoveTarget, Step, root
<1>11. ASSUME NEW p \in Processes, Removed(p)
      PROVE  PlansCovered'
  BY <1>11 DEF Removed, Step, root
<1>12. ASSUME NEW p \in Processes, Replace(p)
      PROVE  PlansCovered'
  BY <1>12, Left DEF Replace, root, StageOnly
<1>13. ASSUME NEW p \in Processes, Raise(p)
      PROVE  PlansCovered'
  BY <1>13, Left DEF Raise, root, StageOnly
<1>14. ASSUME NEW p \in Processes, Die(p)
      PROVE  PlansCovered'
  BY <1>14, Left DEF Die, Trouble, GiveUpRemoval, root, StageOnly
<1>15. CASE Damage
  BY <1>15 DEF Damage, Trouble, root, local
<1>16. CASE UNCHANGED vars
  BY <1>16 DEF vars, local, root
<1>17. ASSUME NEW p \in Processes, DiskError(p)
      PROVE  PlansCovered'
  BY <1>17 DEF DiskError, Trouble, GiveUpRemoval, root
<1> QED
  BY <1>1, <1>2, <1>3, <1>4, <1>5, <1>6, <1>7, <1>8, <1>9, <1>10, <1>11, <1>12, <1>13,
     <1>14, <1>15, <1>16, <1>17 DEF Next, BackupStep

(* The copy of a file and the manifest leave the catalog copy as it is. *)
LEMMA CatalogStep == TypeOK /\ PlansCovered /\ StageHeld /\ StageHasCatalog /\ [Next]_vars => StageHasCatalog'
<1> SUFFICES ASSUME TypeOK, PlansCovered, StageHeld, StageHasCatalog, [Next]_vars
             PROVE  StageHasCatalog'
  OBVIOUS
<1> USE DEF TypeOK, PlansCovered, StageHeld, StageHasCatalog
<1>1. ASSUME NEW j \in Jobs, Move(j)
      PROVE  StageHasCatalog'
  BY <1>1 DEF Move, local
<1>2. ASSUME NEW j \in Jobs, Commit(j)
      PROVE  StageHasCatalog'
  BY <1>2 DEF Commit, local
<1>3. ASSUME NEW j \in Jobs, FetchDies(j)
      PROVE  StageHasCatalog'
  BY <1>3 DEF FetchDies, Trouble, local
<1>4. ASSUME NEW p \in Processes, StartSync(p)
      PROVE  StageHasCatalog'
  BY <1>4, Started DEF StartSync, root
<1>5. ASSUME NEW p \in Processes, StartManual(p)
      PROVE  StageHasCatalog'
  BY <1>5, Started DEF StartManual, root
<1>6. ASSUME NEW p \in Processes, CopyCatalog(p)
      PROVE  StageHasCatalog'
  <2>1. /\ Staged(rows).catalog \in Catalogs /\ Staged(rows).catalog.rows = rows
        /\ Staged(rows).listed = {}
    BY StagedIsDir
  <2> QED
    BY <1>6, <2>1, CatalogCopied DEF StageOnly
<1>7. ASSUME NEW p \in Processes, CopyFile(p)
      PROVE  StageHasCatalog'
  BY <1>7, FileCopied DEF CopyFile, root, StageOnly
<1>8. ASSUME NEW p \in Processes, WriteManifest(p)
      PROVE  StageHasCatalog'
  BY <1>8, ManifestWritten DEF WriteManifest, Step, root, StageOnly
<1>9. ASSUME NEW p \in Processes, CheckStaging(p)
      PROVE  StageHasCatalog'
  BY <1>9 DEF CheckStaging, Step, root
<1>10. ASSUME NEW p \in Processes, RemoveTarget(p)
      PROVE  StageHasCatalog'
  BY <1>10 DEF RemoveTarget, Step, root
<1>11. ASSUME NEW p \in Processes, Removed(p)
      PROVE  StageHasCatalog'
  BY <1>11 DEF Removed, Step, root
<1>12. ASSUME NEW p \in Processes, Replace(p)
      PROVE  StageHasCatalog'
  BY <1>12, Left DEF Replace, root, StageOnly
<1>13. ASSUME NEW p \in Processes, Raise(p)
      PROVE  StageHasCatalog'
  BY <1>13, Left DEF Raise, root, StageOnly
<1>14. ASSUME NEW p \in Processes, Die(p)
      PROVE  StageHasCatalog'
  BY <1>14, Left DEF Die, Trouble, GiveUpRemoval, root, StageOnly
<1>15. CASE Damage
  BY <1>15 DEF Damage, Trouble, root, local
<1>16. CASE UNCHANGED vars
  BY <1>16 DEF vars, local, root
<1>17. ASSUME NEW p \in Processes, DiskError(p)
      PROVE  StageHasCatalog'
  BY <1>17 DEF DiskError, Trouble, GiveUpRemoval, root
<1> QED
  BY <1>1, <1>2, <1>3, <1>4, <1>5, <1>6, <1>7, <1>8, <1>9, <1>10, <1>11, <1>12, <1>13,
     <1>14, <1>15, <1>16, <1>17 DEF Next, BackupStep

(* A staging directory is there until the rename or the end of its process. *)
LEMMA HeldStep == TypeOK /\ PlansCovered /\ StageHeld /\ [Next]_vars => StageHeld'
<1> SUFFICES ASSUME TypeOK, PlansCovered, StageHeld, [Next]_vars
             PROVE  StageHeld'
  OBVIOUS
<1> USE DEF TypeOK, PlansCovered, StageHeld
<1>1. ASSUME NEW j \in Jobs, Move(j)
      PROVE  StageHeld'
  BY <1>1 DEF Move, local
<1>2. ASSUME NEW j \in Jobs, Commit(j)
      PROVE  StageHeld'
  BY <1>2 DEF Commit, local
<1>3. ASSUME NEW j \in Jobs, FetchDies(j)
      PROVE  StageHeld'
  BY <1>3 DEF FetchDies, Trouble, local
<1>4. ASSUME NEW p \in Processes, StartSync(p)
      PROVE  StageHeld'
  BY <1>4, Started DEF StartSync, root
<1>5. ASSUME NEW p \in Processes, StartManual(p)
      PROVE  StageHeld'
  BY <1>5, Started DEF StartManual, root
<1>6. ASSUME NEW p \in Processes, CopyCatalog(p)
      PROVE  StageHeld'
  BY <1>6, CatalogCopied, StagedIsDir DEF CopyCatalog, Step, root, StageOnly
<1>7. ASSUME NEW p \in Processes, CopyFile(p)
      PROVE  StageHeld'
  BY <1>7, FileCopied DEF CopyFile, root, StageOnly
<1>8. ASSUME NEW p \in Processes, WriteManifest(p)
      PROVE  StageHeld'
  BY <1>8, ManifestWritten DEF WriteManifest, Step, root, StageOnly
<1>9. ASSUME NEW p \in Processes, CheckStaging(p)
      PROVE  StageHeld'
  BY <1>9 DEF CheckStaging, Step, root
<1>10. ASSUME NEW p \in Processes, RemoveTarget(p)
      PROVE  StageHeld'
  BY <1>10 DEF RemoveTarget, Step, root
<1>11. ASSUME NEW p \in Processes, Removed(p)
      PROVE  StageHeld'
  BY <1>11 DEF Removed, Step, root
<1>12. ASSUME NEW p \in Processes, Replace(p)
      PROVE  StageHeld'
  BY <1>12, Left DEF Replace, root, StageOnly
<1>13. ASSUME NEW p \in Processes, Raise(p)
      PROVE  StageHeld'
  BY <1>13, Left DEF Raise, root, StageOnly
<1>14. ASSUME NEW p \in Processes, Die(p)
      PROVE  StageHeld'
  BY <1>14, Left DEF Die, Trouble, GiveUpRemoval, root, StageOnly
<1>15. CASE Damage
  BY <1>15 DEF Damage, Trouble, root, local
<1>16. CASE UNCHANGED vars
  BY <1>16 DEF vars, local, root
<1>17. ASSUME NEW p \in Processes, DiskError(p)
      PROVE  StageHeld'
  BY <1>17 DEF DiskError, Trouble, GiveUpRemoval, root
<1> QED
  BY <1>1, <1>2, <1>3, <1>4, <1>5, <1>6, <1>7, <1>8, <1>9, <1>10, <1>11, <1>12, <1>13,
     <1>14, <1>15, <1>16, <1>17 DEF Next, BackupStep

(* Nothing is written to a staging directory after its check. *)
LEMMA CheckedStep == TypeOK /\ StageHeld /\ StageChecked /\ [Next]_vars => StageChecked'
<1> SUFFICES ASSUME TypeOK, StageHeld, StageChecked, [Next]_vars
             PROVE  StageChecked'
  OBVIOUS
<1> USE DEF TypeOK, StageHeld, StageChecked
<1>1. ASSUME NEW j \in Jobs, Move(j)
      PROVE  StageChecked'
  BY <1>1 DEF Move, local
<1>2. ASSUME NEW j \in Jobs, Commit(j)
      PROVE  StageChecked'
  BY <1>2 DEF Commit, local
<1>3. ASSUME NEW j \in Jobs, FetchDies(j)
      PROVE  StageChecked'
  BY <1>3 DEF FetchDies, Trouble, local
<1>4. ASSUME NEW p \in Processes, StartSync(p)
      PROVE  StageChecked'
  BY <1>4, Started DEF StartSync, root
<1>5. ASSUME NEW p \in Processes, StartManual(p)
      PROVE  StageChecked'
  BY <1>5, Started DEF StartManual, root
<1>6. ASSUME NEW p \in Processes, CopyCatalog(p)
      PROVE  StageChecked'
  BY <1>6, CatalogCopied, StagedIsDir DEF CopyCatalog, Step, root, StageOnly
<1>7. ASSUME NEW p \in Processes, CopyFile(p)
      PROVE  StageChecked'
  BY <1>7, FileCopied DEF CopyFile, root, StageOnly
<1>8. ASSUME NEW p \in Processes, WriteManifest(p)
      PROVE  StageChecked'
  BY <1>8, ManifestWritten DEF WriteManifest, Step, root, StageOnly
<1>9. ASSUME NEW p \in Processes, CheckStaging(p)
      PROVE  StageChecked'
  BY <1>9 DEF CheckStaging, Step, root
<1>10. ASSUME NEW p \in Processes, RemoveTarget(p)
      PROVE  StageChecked'
  BY <1>10 DEF RemoveTarget, Step, root
<1>11. ASSUME NEW p \in Processes, Removed(p)
      PROVE  StageChecked'
  BY <1>11 DEF Removed, Step, root
<1>12. ASSUME NEW p \in Processes, Replace(p)
      PROVE  StageChecked'
  BY <1>12, Left DEF Replace, root, StageOnly
<1>13. ASSUME NEW p \in Processes, Raise(p)
      PROVE  StageChecked'
  BY <1>13, Left DEF Raise, root, StageOnly
<1>14. ASSUME NEW p \in Processes, Die(p)
      PROVE  StageChecked'
  BY <1>14, Left DEF Die, Trouble, GiveUpRemoval, root, StageOnly
<1>15. CASE Damage
  BY <1>15 DEF Damage, Trouble, root, local
<1>16. CASE UNCHANGED vars
  BY <1>16 DEF vars, local, root
<1>17. ASSUME NEW p \in Processes, DiskError(p)
      PROVE  StageChecked'
  BY <1>17 DEF DiskError, Trouble, GiveUpRemoval, root
<1> QED
  BY <1>1, <1>2, <1>3, <1>4, <1>5, <1>6, <1>7, <1>8, <1>9, <1>10, <1>11, <1>12, <1>13,
     <1>14, <1>15, <1>16, <1>17 DEF Next, BackupStep

(* Only a rename puts a directory at the target, and it is the staged one. *)
LEMMA PlacedStep == TypeOK /\ StageHasCatalog /\ StageHeld /\ StageChecked /\ TargetPlaced /\ [Next]_vars => TargetPlaced'
<1> SUFFICES ASSUME TypeOK, StageHasCatalog, StageHeld, StageChecked, TargetPlaced, [Next]_vars
             PROVE  TargetPlaced'
  OBVIOUS
<1> USE DEF TypeOK, StageHasCatalog, StageHeld, StageChecked, TargetPlaced
<1>1. ASSUME NEW j \in Jobs, Move(j)
      PROVE  TargetPlaced'
  BY <1>1 DEF Move, local
<1>2. ASSUME NEW j \in Jobs, Commit(j)
      PROVE  TargetPlaced'
  BY <1>2 DEF Commit, local
<1>3. ASSUME NEW j \in Jobs, FetchDies(j)
      PROVE  TargetPlaced'
  BY <1>3 DEF FetchDies, Trouble, local
<1>4. ASSUME NEW p \in Processes, StartSync(p)
      PROVE  TargetPlaced'
  BY <1>4 DEF StartSync, Start, Step, root
<1>5. ASSUME NEW p \in Processes, StartManual(p)
      PROVE  TargetPlaced'
  BY <1>5 DEF StartManual, Start, Step, root
<1>6. ASSUME NEW p \in Processes, CopyCatalog(p)
      PROVE  TargetPlaced'
  BY <1>6 DEF CopyCatalog, Step, root
<1>7. ASSUME NEW p \in Processes, CopyFile(p)
      PROVE  TargetPlaced'
  BY <1>7 DEF CopyFile, root
<1>8. ASSUME NEW p \in Processes, WriteManifest(p)
      PROVE  TargetPlaced'
  BY <1>8 DEF WriteManifest, Step, root
<1>9. ASSUME NEW p \in Processes, CheckStaging(p)
      PROVE  TargetPlaced'
  BY <1>9 DEF CheckStaging, Step, root
<1>10. ASSUME NEW p \in Processes, RemoveTarget(p)
      PROVE  TargetPlaced'
  BY <1>10, RemnantIsDir DEF RemoveTarget, Step, root
<1>11. ASSUME NEW p \in Processes, Removed(p)
      PROVE  TargetPlaced'
  BY <1>11 DEF Removed, Step, root
<1>12. ASSUME NEW p \in Processes, Replace(p)
      PROVE  TargetPlaced'
  BY <1>12 DEF Replace, Leave, root
<1>13. ASSUME NEW p \in Processes, Raise(p)
      PROVE  TargetPlaced'
  BY <1>13 DEF Raise, Leave, root
<1>14. ASSUME NEW p \in Processes, Die(p)
      PROVE  TargetPlaced'
  BY <1>14 DEF Die, Trouble, GiveUpRemoval, Leave, root
<1>15. CASE Damage
  BY <1>15, DamagedIsDir DEF Damage, Trouble, root, local
<1>16. CASE UNCHANGED vars
  BY <1>16 DEF vars, local, root
<1>17. ASSUME NEW p \in Processes, DiskError(p)
      PROVE  TargetPlaced'
  BY <1>17 DEF DiskError, Trouble, GiveUpRemoval, root
<1> QED
  BY <1>1, <1>2, <1>3, <1>4, <1>5, <1>6, <1>7, <1>8, <1>9, <1>10, <1>11, <1>12, <1>13,
     <1>14, <1>15, <1>16, <1>17 DEF Next, BackupStep

(* What a removal or damage leaves of the catalog has the rows it had. *)
LEMMA RowsStep == TypeOK /\ StageHeld /\ TargetPlaced /\ TargetRows /\ [Next]_vars => TargetRows'
<1> SUFFICES ASSUME TypeOK, StageHeld, TargetPlaced, TargetRows, [Next]_vars
             PROVE  TargetRows'
  OBVIOUS
<1> USE DEF TypeOK, StageHeld, TargetPlaced, TargetRows
<1>1. ASSUME NEW j \in Jobs, Move(j)
      PROVE  TargetRows'
  BY <1>1 DEF Move, local
<1>2. ASSUME NEW j \in Jobs, Commit(j)
      PROVE  TargetRows'
  BY <1>2 DEF Commit, local
<1>3. ASSUME NEW j \in Jobs, FetchDies(j)
      PROVE  TargetRows'
  BY <1>3 DEF FetchDies, Trouble, local
<1>4. ASSUME NEW p \in Processes, StartSync(p)
      PROVE  TargetRows'
  BY <1>4 DEF StartSync, Start, Step, root
<1>5. ASSUME NEW p \in Processes, StartManual(p)
      PROVE  TargetRows'
  BY <1>5 DEF StartManual, Start, Step, root
<1>6. ASSUME NEW p \in Processes, CopyCatalog(p)
      PROVE  TargetRows'
  BY <1>6 DEF CopyCatalog, Step, root
<1>7. ASSUME NEW p \in Processes, CopyFile(p)
      PROVE  TargetRows'
  BY <1>7 DEF CopyFile, root
<1>8. ASSUME NEW p \in Processes, WriteManifest(p)
      PROVE  TargetRows'
  BY <1>8 DEF WriteManifest, Step, root
<1>9. ASSUME NEW p \in Processes, CheckStaging(p)
      PROVE  TargetRows'
  BY <1>9 DEF CheckStaging, Step, root
<1>10. ASSUME NEW p \in Processes, RemoveTarget(p)
      PROVE  TargetRows'
  BY <1>10, RemnantIsDir DEF RemoveTarget, Step, root
<1>11. ASSUME NEW p \in Processes, Removed(p)
      PROVE  TargetRows'
  BY <1>11 DEF Removed, Step, root
<1>12. ASSUME NEW p \in Processes, Replace(p)
      PROVE  TargetRows'
  BY <1>12 DEF Replace, Leave, root
<1>13. ASSUME NEW p \in Processes, Raise(p)
      PROVE  TargetRows'
  BY <1>13 DEF Raise, Leave, root
<1>14. ASSUME NEW p \in Processes, Die(p)
      PROVE  TargetRows'
  BY <1>14 DEF Die, Trouble, GiveUpRemoval, Leave, root
<1>15. CASE Damage
  BY <1>15, DamagedIsDir DEF Damage, Trouble, root, local
<1>16. CASE UNCHANGED vars
  BY <1>16 DEF vars, local, root
<1>17. ASSUME NEW p \in Processes, DiskError(p)
      PROVE  TargetRows'
  BY <1>17 DEF DiskError, Trouble, GiveUpRemoval, root
<1> QED
  BY <1>1, <1>2, <1>3, <1>4, <1>5, <1>6, <1>7, <1>8, <1>9, <1>10, <1>11, <1>12, <1>13,
     <1>14, <1>15, <1>16, <1>17 DEF Next, BackupStep

(* The remover is removing until it has removed the target or gives up. *)
LEMMA RemoverStep == TypeOK /\ RemoverRemoves /\ [Next]_vars => RemoverRemoves'
<1> SUFFICES ASSUME TypeOK, RemoverRemoves, [Next]_vars
             PROVE  RemoverRemoves'
  OBVIOUS
<1> USE DEF TypeOK, RemoverRemoves
<1>1. ASSUME NEW j \in Jobs, Move(j)
      PROVE  RemoverRemoves'
  BY <1>1 DEF Move, local
<1>2. ASSUME NEW j \in Jobs, Commit(j)
      PROVE  RemoverRemoves'
  BY <1>2 DEF Commit, local
<1>3. ASSUME NEW j \in Jobs, FetchDies(j)
      PROVE  RemoverRemoves'
  BY <1>3 DEF FetchDies, Trouble, local
<1>4. ASSUME NEW p \in Processes, StartSync(p)
      PROVE  RemoverRemoves'
  BY <1>4 DEF StartSync, Start, Step, root
<1>5. ASSUME NEW p \in Processes, StartManual(p)
      PROVE  RemoverRemoves'
  BY <1>5 DEF StartManual, Start, Step, root
<1>6. ASSUME NEW p \in Processes, CopyCatalog(p)
      PROVE  RemoverRemoves'
  BY <1>6 DEF CopyCatalog, Step, root
<1>7. ASSUME NEW p \in Processes, CopyFile(p)
      PROVE  RemoverRemoves'
  BY <1>7 DEF CopyFile, root
<1>8. ASSUME NEW p \in Processes, WriteManifest(p)
      PROVE  RemoverRemoves'
  BY <1>8 DEF WriteManifest, Step, root
<1>9. ASSUME NEW p \in Processes, CheckStaging(p)
      PROVE  RemoverRemoves'
  BY <1>9 DEF CheckStaging, Step, root
<1>10. ASSUME NEW p \in Processes, RemoveTarget(p)
      PROVE  RemoverRemoves'
  BY <1>10 DEF RemoveTarget, Step, root
<1>11. ASSUME NEW p \in Processes, Removed(p)
      PROVE  RemoverRemoves'
  BY <1>11 DEF Removed, Step, root
<1>12. ASSUME NEW p \in Processes, Replace(p)
      PROVE  RemoverRemoves'
  BY <1>12 DEF Replace, Leave, root
<1>13. ASSUME NEW p \in Processes, Raise(p)
      PROVE  RemoverRemoves'
  BY <1>13 DEF Raise, Leave, root
<1>14. ASSUME NEW p \in Processes, Die(p)
      PROVE  RemoverRemoves'
  BY <1>14 DEF Die, Trouble, GiveUpRemoval, Leave, root
<1>15. CASE Damage
  BY <1>15 DEF Damage, Trouble, root, local
<1>16. CASE UNCHANGED vars
  BY <1>16 DEF vars, local, root
<1>17. ASSUME NEW p \in Processes, DiskError(p)
      PROVE  RemoverRemoves'
  BY <1>17 DEF DiskError, Trouble, GiveUpRemoval, root
<1> QED
  BY <1>1, <1>2, <1>3, <1>4, <1>5, <1>6, <1>7, <1>8, <1>9, <1>10, <1>11, <1>12, <1>13,
     <1>14, <1>15, <1>16, <1>17 DEF Next, BackupStep

(* A copy that is removed, or whose process dies, leaves another. *)
LEMMA SafeStep == TypeOK /\ StageHeld /\ StageChecked /\ TargetPlaced /\ RemoverRemoves /\ CopySafe /\ [Next]_vars => CopySafe'
<1> SUFFICES ASSUME TypeOK, StageHeld, StageChecked, TargetPlaced, RemoverRemoves, CopySafe, [Next]_vars
             PROVE  CopySafe'
  OBVIOUS
<1> USE DEF TypeOK, StageHeld, StageChecked, TargetPlaced, RemoverRemoves, CopySafe
<1>1. ASSUME NEW j \in Jobs, Move(j)
      PROVE  CopySafe'
  BY <1>1 DEF Move, local
<1>2. ASSUME NEW j \in Jobs, Commit(j)
      PROVE  CopySafe'
  BY <1>2 DEF Commit, local
<1>3. ASSUME NEW j \in Jobs, FetchDies(j)
      PROVE  CopySafe'
  BY <1>3 DEF FetchDies, Trouble, local
<1>4. ASSUME NEW p \in Processes, StartSync(p)
      PROVE  CopySafe'
  BY <1>4, Started DEF StartSync, root
<1>5. ASSUME NEW p \in Processes, StartManual(p)
      PROVE  CopySafe'
  BY <1>5, Started DEF StartManual, root
<1>6. ASSUME NEW p \in Processes, CopyCatalog(p)
      PROVE  CopySafe'
  BY <1>6, CatalogCopied, StagedIsDir DEF CopyCatalog, Step, root, StageOnly
<1>7. ASSUME NEW p \in Processes, CopyFile(p)
      PROVE  CopySafe'
  BY <1>7, FileCopied DEF CopyFile, root, StageOnly
<1>8. ASSUME NEW p \in Processes, WriteManifest(p)
      PROVE  CopySafe'
  BY <1>8, ManifestWritten DEF WriteManifest, Step, root, StageOnly
<1>9. ASSUME NEW p \in Processes, CheckStaging(p)
      PROVE  CopySafe'
  BY <1>9 DEF CheckStaging, Step, root
<1>10. ASSUME NEW p \in Processes, RemoveTarget(p)
      PROVE  CopySafe'
  <2>1. CASE target = Absent /\ Step(p, "remove", "replace") /\ UNCHANGED <<target, remover>>
    BY <1>10, <2>1 DEF RemoveTarget, Step
  <2>2. CASE remover' = p
    BY <2>2 DEF Processes
  <2>3. CASE remover # Nobody /\ Step(p, "remove", "raise") /\ UNCHANGED <<target, remover>>
    BY <1>10, <2>3 DEF RemoveTarget, Step
  <2> QED
    BY <1>10, <2>1, <2>2, <2>3 DEF RemoveTarget
<1>11. ASSUME NEW p \in Processes, Removed(p)
      PROVE  CopySafe'
  BY <1>11 DEF Removed, Step, root
<1>12. ASSUME NEW p \in Processes, Replace(p)
      PROVE  CopySafe'
  BY <1>12, Left DEF Replace, root, StageOnly
<1>13. ASSUME NEW p \in Processes, Raise(p)
      PROVE  CopySafe'
  BY <1>13, Left DEF Raise, root, StageOnly
<1>14. ASSUME NEW p \in Processes, Die(p)
      PROVE  CopySafe'
  BY <1>14, Left DEF Die, Trouble, GiveUpRemoval, root, StageOnly
<1>15. CASE Damage
  BY <1>15 DEF Damage, Trouble, root, local
<1>16. CASE UNCHANGED vars
  BY <1>16 DEF vars, local, root
<1>17. ASSUME NEW p \in Processes, DiskError(p)
      PROVE  CopySafe'
  BY <1>17 DEF DiskError, Trouble, GiveUpRemoval, root
<1> QED
  BY <1>1, <1>2, <1>3, <1>4, <1>5, <1>6, <1>7, <1>8, <1>9, <1>10, <1>11, <1>12, <1>13,
     <1>14, <1>15, <1>16, <1>17 DEF Next, BackupStep

-----------------------------------------------------------------------------
(* There is no backup at first.                                            *)
LEMMA InitInv == Init => BackupInv
<1> SUFFICES ASSUME Init
             PROVE  BackupInv
  OBVIOUS
<1> USE DEF Init
<1>1. TypeOK
  <2>1. rows \in SUBSET Rows /\ disk \in [Jobs -> 0..MaxVersion] /\ moved \in SUBSET Jobs
        /\ done \in SUBSET Jobs /\ orphans \subseteq Dirs
    OBVIOUS
  <2>2. /\ pc \in [Processes -> {"idle", "stage", "files", "check", "remove", "removing",
                                "replace", "raise"}]
        /\ plan \in [Processes -> SUBSET Rows] /\ scope \in [Processes -> Apis \union {All}]
        /\ stage \in [Processes -> Dirs \union {Absent}]
        /\ copied \in [Processes -> SUBSET Rows]
    OBVIOUS
  <2>3. overwrite \in [Processes -> BOOLEAN] /\ damaged \in BOOLEAN /\ broken \in BOOLEAN
    BY Zenon
  <2>4. calls \in 0..MaxManual /\ trouble \in 0..MaxTrouble
    OBVIOUS
  <2> QED
    BY <2>1, <2>2, <2>3, <2>4 DEF TypeOK
<1>2. MovedWritten /\ PlansCovered /\ StageHasCatalog /\ StageHeld /\ StageChecked
  BY DEF MovedWritten, PlansCovered, StageHasCatalog, StageHeld, StageChecked
<1>3. TargetPlaced /\ TargetRows /\ RemoverRemoves /\ CopySafe
  BY DEF TargetPlaced, TargetRows, RemoverRemoves, CopySafe
<1> QED
  BY <1>1, <1>2, <1>3 DEF BackupInv

(* The inductive invariant of the backups: it speaks of every process and  *)
(* of the target, and of no schedule.                                      *)
THEOREM BackupInvariant == Spec => []BackupInv
<1>1. BackupInv /\ [Next]_vars => BackupInv'
  BY TypeStep, MovedStep, PlanStep, CatalogStep, HeldStep, CheckedStep, PlacedStep, RowsStep,
     RemoverStep, SafeStep DEF BackupInv
<1> QED
  BY <1>1, InitInv, PTL DEF Spec

(* The directories, rows and locals of BackupExecutor are what they are    *)
(* taken for, whatever dies or is damaged.                                 *)
THEOREM BackupTypeCorrect == Spec => []TypeOK
<1>1. BackupInv => TypeOK
  BY DEF BackupInv
<1> QED
  BY <1>1, BackupInvariant, PTL

(* What was planned is in the catalog copied after it, and stays there: a  *)
(* backup lists no file its own catalog does not know, at the target and   *)
(* in every staging directory, for any number of fetches meanwhile.        *)
THEOREM ManifestAlwaysInCatalog == Spec => []ManifestInCatalog
<1>1. BackupInv => ManifestInCatalog
  <2> SUFFICES ASSUME BackupInv
               PROVE  ManifestInCatalog
    OBVIOUS
  <2>1. target # Absent /\ target.catalog # Absent => target.listed \subseteq target.catalog.rows
    BY DEF BackupInv, TargetPlaced, TargetRows
  <2>2. \A p \in Processes : stage[p] # Absent => stage[p].listed \subseteq stage[p].catalog.rows
    BY DEF BackupInv, StageHasCatalog
  <2> QED
    BY <2>1, <2>2 DEF ManifestInCatalog
<1> QED
  BY <1>1, BackupInvariant, PTL

(* Once a backup was made, a copy that passes the restore check is on the  *)
(* disk for as long as only backups touch the target and no error ends the *)
(* removal of the target or the rename: for any number of backups that     *)
(* replace it at once, any number that die doing so, and any number that   *)
(* fail before.                                                            *)
THEOREM CopyAlwaysSurvives == Spec => []CopySurvives
<1>1. BackupInv => CopySurvives
  <2> SUFFICES ASSUME BackupInv, placed # Absent, ~damaged, ~broken
               PROVE  \E d \in ({target} \union orphans \union {stage[p] : p \in Processes}) \ {Absent} :
                        RestoreSucceeds(d)
    BY DEF CopySurvives
  <2>1. CASE target # Absent /\ RestoreSucceeds(target)
    BY <2>1
  <2>2. CASE \E d \in orphans \ {Absent} : RestoreSucceeds(d)
    BY <2>2
  <2>3. ASSUME NEW p \in Processes, pc[p] \in {"removing", "replace"}
        PROVE  stage[p] # Absent /\ RestoreSucceeds(stage[p])
    BY <2>3 DEF BackupInv, StageHeld, StageChecked
  <2>4. CASE remover # Nobody
    <3>1. remover \in Processes /\ pc[remover] = "removing"
      BY <2>4 DEF BackupInv, TypeOK, RemoverRemoves
    <3> QED
      BY <3>1, <2>3
  <2>5. CASE \E p \in Processes : pc[p] = "replace"
    BY <2>3, <2>5
  <2> QED
    BY <2>1, <2>2, <2>4, <2>5 DEF BackupInv, CopySafe
<1> QED
  BY <1>1, BackupInvariant, PTL

(* backup-status calls nothing ready but what a backup has put there: half *)
(* a removal and damage either show in the checks or change nothing that   *)
(* the manifest speaks of.                                                 *)
THEOREM ReadyAlwaysPlaced == Spec => []ReadyMeansPlaced
<1>1. BackupInv => ReadyMeansPlaced
  <2> SUFFICES ASSUME BackupInv, Ready(target)
               PROVE  /\ target.listed = placed.listed
                      /\ target.catalog = placed.catalog
                      /\ \A r \in placed.listed : target.files[r[1]] = placed.files[r[1]]
    BY DEF ReadyMeansPlaced
  <2>1. target # Absent /\ RestoreSucceeds(target)
    BY DEF Ready
  <2>2. RestoreSucceeds(placed) /\ target.listed = placed.listed /\ target.sum = placed.sum
    BY <2>1 DEF BackupInv, TargetPlaced
  <2>3. target.catalog = placed.catalog
    BY <2>1, <2>2 DEF RestoreSucceeds, CatalogMatches
  <2>4. \A r \in placed.listed : target.files[r[1]] = placed.files[r[1]]
    BY <2>1, <2>2 DEF RestoreSucceeds, FileMatches
  <2> QED
    BY <2>2, <2>3, <2>4
<1> QED
  BY <1>1, BackupInvariant, PTL
=============================================================================
