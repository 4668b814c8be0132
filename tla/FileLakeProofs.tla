--------------------------- MODULE FileLakeProofs ---------------------------
(***************************************************************************)
(* Theorems about FileLake for every set of writers, jobs, fetches and     *)
(* days.  Type correctness and the two safety properties that hold without *)
(* the single-writer rule follow from the inductive invariant PathInv,     *)
(* which says where the files of a fetch are at each step.  With a single  *)
(* writer LoneInv holds too, which relates the bytes, the jobs and the     *)
(* latest snapshot; the other safety properties and the refinement of      *)
(* DatasetLog follow from it.                                              *)
(***************************************************************************)
EXTENDS FileLake, FiniteSetTheorems, TLAPS

(* Before the commit, and past the point where a fetch can still commit.   *)
Early == {"started"} \union BeforeMoves \union {"moveLake", "readParent", "commit"}
Late == {"jobDone", "finishRun", "cleanup"} \union Rejecting \union Failing

(* A writer inside fetch owns a started fetch with a job and a day.        *)
WritersOwn ==
    \A w \in Writers : pc[w] # "idle" =>
        /\ mine[w] \in Fetches
        /\ run[mine[w]] # "none"
        /\ jobOf[mine[w]] \in Jobs
        /\ dayOf[mine[w]] \in Days

(* No two writers own the same fetch.                                      *)
OwnersDiffer ==
    \A v, w \in Writers :
        v # w /\ pc[v] # "idle" /\ pc[w] # "idle" => mine[v] # mine[w]

(* A fetch that has not started has left nothing on disk.                  *)
UnusedClean ==
    \A f \in Fetches : run[f] = "none" => tmp[f] = {} /\ qdir[f] = {}

(* What the moves have achieved at each step between them and the commit.  *)
WriterMoved(w) ==
    /\ pc[w] \in Early => qdir[mine[w]] = {}
    /\ pc[w] \in {"moveLake", "readParent", "commit"} =>
         raw[<<jobOf[mine[w]], dayOf[mine[w]]>>] # None
    /\ pc[w] = "moveLake" => "raw" \notin tmp[mine[w]]
    /\ pc[w] \in {"readParent", "commit"} =>
         lake[jobOf[mine[w]]] # None /\ tmp[mine[w]] \intersect Kinds = {}

WritersMoved == \A w \in Writers : WriterMoved(w)

(* The parent a writer has read is a committed snapshot and stays one.     *)
ParentsCommitted ==
    \A w \in Writers : parent[w] # None => parent[w] \in Committed

(* A file of a snapshot is at its two paths, has left _tmp, is not in      *)
(* _quarantine, and nobody who owns its fetch can write it any more.       *)
FileSettled(f) ==
    /\ run[f] # "none" /\ jobOf[f] \in Jobs /\ dayOf[f] \in Days
    /\ lake[jobOf[f]] # None
    /\ raw[<<jobOf[f], dayOf[f]>>] # None
    /\ tmp[f] \intersect Kinds = {}
    /\ qdir[f] \intersect Kinds = {}
    /\ \A w \in Writers : pc[w] # "idle" /\ mine[w] = f => pc[w] \in Late

SnapshotFilesSettled == \A s \in Committed : \A f \in members[s] : FileSettled(f)

PathInv ==
    /\ TypeOK
    /\ WritersOwn
    /\ OwnersDiffer
    /\ UnusedClean
    /\ WritersMoved
    /\ ParentsCommitted
    /\ SnapshotFilesSettled

(* The place of a snapshot in the order of creation is a number.           *)
LEMMA CountIsNat == Cardinality(Committed) \in Nat
  BY FetchesAssumption, FS_Subset, FS_CardinalityType DEF Committed

(* Every step keeps the types, given that a writer owns a real fetch.      *)
LEMMA TypeStep == TypeOK /\ WritersOwn /\ [Next]_vars => TypeOK'
<1> SUFFICES ASSUME TypeOK, WritersOwn, [Next]_vars PROVE TypeOK'
  OBVIOUS
<1> USE NoneAssumption, DaysAssumption, TriesAssumption DEF TypeOK, WritersOwn, Kinds, Entries, JobStatus, RunStatus, RowStatus, SnapshotStatus, PCs, InTry, BeforeMoves, AfterMoves, Rejecting, Failing, runVars, rowVars, snapshotVars, diskVars, locals, Leave, Goto
<1>1. CASE UNCHANGED vars
  BY <1>1 DEF vars
<1>2. CASE NextDay
  BY <1>2 DEF NextDay
<1>3. ASSUME NEW w \in Writers, NEW j \in Jobs, NEW f \in Fetches, Start(w, j, f) PROVE TypeOK'
  BY <1>3 DEF Start
<1>4. ASSUME NEW w \in Writers, UpsertJob(w) PROVE TypeOK'
  BY <1>4 DEF UpsertJob
<1>5. ASSUME NEW w \in Writers, QueryRetry(w) PROVE TypeOK'
  BY <1>5 DEF QueryRetry
<1>6. ASSUME NEW w \in Writers, QueryOk(w) PROVE TypeOK'
  BY <1>6 DEF QueryOk
<1>7. ASSUME NEW w \in Writers, WriteRaw(w) PROVE TypeOK'
  BY <1>7 DEF WriteRaw
<1>8. ASSUME NEW w \in Writers, SchemaCompatible(w) PROVE TypeOK'
  BY <1>8 DEF SchemaCompatible
<1>9. ASSUME NEW w \in Writers, SchemaIncompatible(w) PROVE TypeOK'
  BY <1>9 DEF SchemaIncompatible
<1>10. ASSUME NEW w \in Writers, WriteLake(w) PROVE TypeOK'
  BY <1>10 DEF WriteLake
<1>11. ASSUME NEW w \in Writers, InsertRawRow(w) PROVE TypeOK'
  BY <1>11 DEF InsertRawRow
<1>12. ASSUME NEW w \in Writers, InsertLakeRow(w) PROVE TypeOK'
  BY <1>12 DEF InsertLakeRow
<1>13. ASSUME NEW w \in Writers, Validate(w) PROVE TypeOK'
  <2>1. CASE Goto(w, "moveRaw")
    BY <1>13, <2>1 DEF Validate
  <2>2. CASE Goto(w, "rejectMove")
    BY <1>13, <2>2 DEF Validate
  <2> QED
    BY <1>13, <2>1, <2>2 DEF Validate
<1>14. ASSUME NEW w \in Writers, MoveRaw(w) PROVE TypeOK'
  BY <1>14 DEF MoveRaw
<1>15. ASSUME NEW w \in Writers, MoveLake(w) PROVE TypeOK'
  BY <1>15 DEF MoveLake
<1>16. ASSUME NEW w \in Writers, ReadParent(w) PROVE TypeOK'
  BY <1>16 DEF ReadParent, Latest, Current
<1>17. ASSUME NEW w \in Writers, Commit(w) PROVE TypeOK'
  BY <1>17, CountIsNat DEF Commit, Inherited, NextSeq
<1>18. ASSUME NEW w \in Writers, JobDone(w) PROVE TypeOK'
  BY <1>18 DEF JobDone
<1>19. ASSUME NEW w \in Writers, RunSucceeded(w) PROVE TypeOK'
  BY <1>19 DEF RunSucceeded
<1>20. ASSUME NEW w \in Writers, Cleanup(w) PROVE TypeOK'
  BY <1>20 DEF Cleanup
<1>21. ASSUME NEW w \in Writers, RejectMove(w) PROVE TypeOK'
  BY <1>21 DEF RejectMove, QuarantineTree
<1>22. ASSUME NEW w \in Writers, RejectRecord(w) PROVE TypeOK'
  BY <1>22 DEF RejectRecord, RecordQuarantine
<1>23. ASSUME NEW w \in Writers, RejectJob(w) PROVE TypeOK'
  BY <1>23 DEF RejectJob, JobFailed
<1>24. ASSUME NEW w \in Writers, RejectRun(w) PROVE TypeOK'
  BY <1>24 DEF RejectRun, RunFailed
<1>25. ASSUME NEW w \in Writers, Raise(w) PROVE TypeOK'
  <2>1. CASE UNCHANGED tmp
    BY <1>25, <2>1 DEF Raise
  <2>2. CASE /\ pc[w] = "writeRaw"
             /\ tmp' = [tmp EXCEPT ![mine[w]] = @ \union {"dir", "raw"}]
    BY <1>25, <2>2 DEF Raise
  <2>3. CASE /\ pc[w] = "writeLake"
             /\ tmp' = [tmp EXCEPT ![mine[w]] = @ \union {"lake"}]
    BY <1>25, <2>3 DEF Raise
  <2> QED
    BY <1>25, <2>1, <2>2, <2>3 DEF Raise
<1>26. ASSUME NEW w \in Writers, HandleJob(w) PROVE TypeOK'
  BY <1>26 DEF HandleJob, JobFailed
<1>27. ASSUME NEW w \in Writers, HandleRun(w) PROVE TypeOK'
  BY <1>27 DEF HandleRun, RunFailed
<1>28. ASSUME NEW w \in Writers, HandleMove(w) PROVE TypeOK'
  BY <1>28 DEF HandleMove, QuarantineTree
<1>29. ASSUME NEW w \in Writers, HandleNothing(w) PROVE TypeOK'
  BY <1>29 DEF HandleNothing
<1>30. ASSUME NEW w \in Writers, HandleRecord(w) PROVE TypeOK'
  BY <1>30 DEF HandleRecord, RecordQuarantine
<1>31. ASSUME NEW w \in Writers, Die(w) PROVE TypeOK'
  BY <1>31 DEF Die
<1> QED
  BY <1>1, <1>2, <1>3, <1>4, <1>5, <1>6, <1>7, <1>8, <1>9, <1>10, <1>11, <1>12, <1>13, <1>14, <1>15, <1>16, <1>17, <1>18, <1>19, <1>20, <1>21, <1>22, <1>23, <1>24, <1>25, <1>26, <1>27, <1>28, <1>29, <1>30, <1>31 DEF Next, Step

(* A run row, once created, never goes back to none, and its plan is fixed. *)
LEMMA OwnStep == TypeOK /\ WritersOwn /\ [Next]_vars => WritersOwn'
<1> SUFFICES ASSUME TypeOK, WritersOwn, [Next]_vars PROVE WritersOwn'
  OBVIOUS
<1> USE NoneAssumption DEF TypeOK, WritersOwn, Kinds, Entries, JobStatus, RunStatus, RowStatus, SnapshotStatus, PCs, InTry, BeforeMoves, AfterMoves, Rejecting, Failing, runVars, rowVars, snapshotVars, diskVars, locals, Leave, Goto
<1>1. CASE UNCHANGED vars
  BY <1>1 DEF vars
<1>2. CASE NextDay
  BY <1>2 DEF NextDay
<1>3. ASSUME NEW w \in Writers, NEW j \in Jobs, NEW f \in Fetches, Start(w, j, f) PROVE WritersOwn'
  BY <1>3 DEF Start
<1>4. ASSUME NEW w \in Writers, UpsertJob(w) PROVE WritersOwn'
  BY <1>4 DEF UpsertJob
<1>5. ASSUME NEW w \in Writers, QueryRetry(w) PROVE WritersOwn'
  BY <1>5 DEF QueryRetry
<1>6. ASSUME NEW w \in Writers, QueryOk(w) PROVE WritersOwn'
  BY <1>6 DEF QueryOk
<1>7. ASSUME NEW w \in Writers, WriteRaw(w) PROVE WritersOwn'
  BY <1>7 DEF WriteRaw
<1>8. ASSUME NEW w \in Writers, SchemaCompatible(w) PROVE WritersOwn'
  BY <1>8 DEF SchemaCompatible
<1>9. ASSUME NEW w \in Writers, SchemaIncompatible(w) PROVE WritersOwn'
  BY <1>9 DEF SchemaIncompatible
<1>10. ASSUME NEW w \in Writers, WriteLake(w) PROVE WritersOwn'
  BY <1>10 DEF WriteLake
<1>11. ASSUME NEW w \in Writers, InsertRawRow(w) PROVE WritersOwn'
  BY <1>11 DEF InsertRawRow
<1>12. ASSUME NEW w \in Writers, InsertLakeRow(w) PROVE WritersOwn'
  BY <1>12 DEF InsertLakeRow
<1>13. ASSUME NEW w \in Writers, Validate(w) PROVE WritersOwn'
  <2>1. CASE Goto(w, "moveRaw")
    BY <1>13, <2>1 DEF Validate
  <2>2. CASE Goto(w, "rejectMove")
    BY <1>13, <2>2 DEF Validate
  <2> QED
    BY <1>13, <2>1, <2>2 DEF Validate
<1>14. ASSUME NEW w \in Writers, MoveRaw(w) PROVE WritersOwn'
  BY <1>14 DEF MoveRaw
<1>15. ASSUME NEW w \in Writers, MoveLake(w) PROVE WritersOwn'
  BY <1>15 DEF MoveLake
<1>16. ASSUME NEW w \in Writers, ReadParent(w) PROVE WritersOwn'
  BY <1>16 DEF ReadParent
<1>17. ASSUME NEW w \in Writers, Commit(w) PROVE WritersOwn'
  BY <1>17 DEF Commit
<1>18. ASSUME NEW w \in Writers, JobDone(w) PROVE WritersOwn'
  BY <1>18 DEF JobDone
<1>19. ASSUME NEW w \in Writers, RunSucceeded(w) PROVE WritersOwn'
  BY <1>19 DEF RunSucceeded
<1>20. ASSUME NEW w \in Writers, Cleanup(w) PROVE WritersOwn'
  BY <1>20 DEF Cleanup
<1>21. ASSUME NEW w \in Writers, RejectMove(w) PROVE WritersOwn'
  BY <1>21 DEF RejectMove, QuarantineTree
<1>22. ASSUME NEW w \in Writers, RejectRecord(w) PROVE WritersOwn'
  BY <1>22 DEF RejectRecord, RecordQuarantine
<1>23. ASSUME NEW w \in Writers, RejectJob(w) PROVE WritersOwn'
  BY <1>23 DEF RejectJob, JobFailed
<1>24. ASSUME NEW w \in Writers, RejectRun(w) PROVE WritersOwn'
  BY <1>24 DEF RejectRun, RunFailed
<1>25. ASSUME NEW w \in Writers, Raise(w) PROVE WritersOwn'
  <2>1. CASE UNCHANGED tmp
    BY <1>25, <2>1 DEF Raise
  <2>2. CASE /\ pc[w] = "writeRaw"
             /\ tmp' = [tmp EXCEPT ![mine[w]] = @ \union {"dir", "raw"}]
    BY <1>25, <2>2 DEF Raise
  <2>3. CASE /\ pc[w] = "writeLake"
             /\ tmp' = [tmp EXCEPT ![mine[w]] = @ \union {"lake"}]
    BY <1>25, <2>3 DEF Raise
  <2> QED
    BY <1>25, <2>1, <2>2, <2>3 DEF Raise
<1>26. ASSUME NEW w \in Writers, HandleJob(w) PROVE WritersOwn'
  BY <1>26 DEF HandleJob, JobFailed
<1>27. ASSUME NEW w \in Writers, HandleRun(w) PROVE WritersOwn'
  BY <1>27 DEF HandleRun, RunFailed
<1>28. ASSUME NEW w \in Writers, HandleMove(w) PROVE WritersOwn'
  BY <1>28 DEF HandleMove, QuarantineTree
<1>29. ASSUME NEW w \in Writers, HandleNothing(w) PROVE WritersOwn'
  BY <1>29 DEF HandleNothing
<1>30. ASSUME NEW w \in Writers, HandleRecord(w) PROVE WritersOwn'
  BY <1>30 DEF HandleRecord, RecordQuarantine
<1>31. ASSUME NEW w \in Writers, Die(w) PROVE WritersOwn'
  BY <1>31 DEF Die
<1> QED
  BY <1>1, <1>2, <1>3, <1>4, <1>5, <1>6, <1>7, <1>8, <1>9, <1>10, <1>11, <1>12, <1>13, <1>14, <1>15, <1>16, <1>17, <1>18, <1>19, <1>20, <1>21, <1>22, <1>23, <1>24, <1>25, <1>26, <1>27, <1>28, <1>29, <1>30, <1>31 DEF Next, Step

(* create_run hands out a run id nobody else holds.                        *)
LEMMA DifferStep == TypeOK /\ WritersOwn /\ OwnersDiffer /\ [Next]_vars => OwnersDiffer'
<1> SUFFICES ASSUME TypeOK, WritersOwn, OwnersDiffer, [Next]_vars PROVE OwnersDiffer'
  OBVIOUS
<1> USE NoneAssumption DEF TypeOK, WritersOwn, OwnersDiffer, Kinds, Entries, JobStatus, RunStatus, RowStatus, SnapshotStatus, PCs, InTry, BeforeMoves, AfterMoves, Rejecting, Failing, runVars, rowVars, snapshotVars, diskVars, locals, Leave, Goto
<1>1. CASE UNCHANGED vars
  BY <1>1 DEF vars
<1>2. CASE NextDay
  BY <1>2 DEF NextDay
<1>3. ASSUME NEW w \in Writers, NEW j \in Jobs, NEW f \in Fetches, Start(w, j, f) PROVE OwnersDiffer'
  BY <1>3 DEF Start
<1>4. ASSUME NEW w \in Writers, UpsertJob(w) PROVE OwnersDiffer'
  BY <1>4 DEF UpsertJob
<1>5. ASSUME NEW w \in Writers, QueryRetry(w) PROVE OwnersDiffer'
  BY <1>5 DEF QueryRetry
<1>6. ASSUME NEW w \in Writers, QueryOk(w) PROVE OwnersDiffer'
  BY <1>6 DEF QueryOk
<1>7. ASSUME NEW w \in Writers, WriteRaw(w) PROVE OwnersDiffer'
  BY <1>7 DEF WriteRaw
<1>8. ASSUME NEW w \in Writers, SchemaCompatible(w) PROVE OwnersDiffer'
  BY <1>8 DEF SchemaCompatible
<1>9. ASSUME NEW w \in Writers, SchemaIncompatible(w) PROVE OwnersDiffer'
  BY <1>9 DEF SchemaIncompatible
<1>10. ASSUME NEW w \in Writers, WriteLake(w) PROVE OwnersDiffer'
  BY <1>10 DEF WriteLake
<1>11. ASSUME NEW w \in Writers, InsertRawRow(w) PROVE OwnersDiffer'
  BY <1>11 DEF InsertRawRow
<1>12. ASSUME NEW w \in Writers, InsertLakeRow(w) PROVE OwnersDiffer'
  BY <1>12 DEF InsertLakeRow
<1>13. ASSUME NEW w \in Writers, Validate(w) PROVE OwnersDiffer'
  <2>1. CASE Goto(w, "moveRaw")
    BY <1>13, <2>1 DEF Validate
  <2>2. CASE Goto(w, "rejectMove")
    BY <1>13, <2>2 DEF Validate
  <2> QED
    BY <1>13, <2>1, <2>2 DEF Validate
<1>14. ASSUME NEW w \in Writers, MoveRaw(w) PROVE OwnersDiffer'
  BY <1>14 DEF MoveRaw
<1>15. ASSUME NEW w \in Writers, MoveLake(w) PROVE OwnersDiffer'
  BY <1>15 DEF MoveLake
<1>16. ASSUME NEW w \in Writers, ReadParent(w) PROVE OwnersDiffer'
  BY <1>16 DEF ReadParent
<1>17. ASSUME NEW w \in Writers, Commit(w) PROVE OwnersDiffer'
  BY <1>17 DEF Commit
<1>18. ASSUME NEW w \in Writers, JobDone(w) PROVE OwnersDiffer'
  BY <1>18 DEF JobDone
<1>19. ASSUME NEW w \in Writers, RunSucceeded(w) PROVE OwnersDiffer'
  BY <1>19 DEF RunSucceeded
<1>20. ASSUME NEW w \in Writers, Cleanup(w) PROVE OwnersDiffer'
  BY <1>20 DEF Cleanup
<1>21. ASSUME NEW w \in Writers, RejectMove(w) PROVE OwnersDiffer'
  BY <1>21 DEF RejectMove, QuarantineTree
<1>22. ASSUME NEW w \in Writers, RejectRecord(w) PROVE OwnersDiffer'
  BY <1>22 DEF RejectRecord, RecordQuarantine
<1>23. ASSUME NEW w \in Writers, RejectJob(w) PROVE OwnersDiffer'
  BY <1>23 DEF RejectJob, JobFailed
<1>24. ASSUME NEW w \in Writers, RejectRun(w) PROVE OwnersDiffer'
  BY <1>24 DEF RejectRun, RunFailed
<1>25. ASSUME NEW w \in Writers, Raise(w) PROVE OwnersDiffer'
  <2>1. CASE UNCHANGED tmp
    BY <1>25, <2>1 DEF Raise
  <2>2. CASE /\ pc[w] = "writeRaw"
             /\ tmp' = [tmp EXCEPT ![mine[w]] = @ \union {"dir", "raw"}]
    BY <1>25, <2>2 DEF Raise
  <2>3. CASE /\ pc[w] = "writeLake"
             /\ tmp' = [tmp EXCEPT ![mine[w]] = @ \union {"lake"}]
    BY <1>25, <2>3 DEF Raise
  <2> QED
    BY <1>25, <2>1, <2>2, <2>3 DEF Raise
<1>26. ASSUME NEW w \in Writers, HandleJob(w) PROVE OwnersDiffer'
  BY <1>26 DEF HandleJob, JobFailed
<1>27. ASSUME NEW w \in Writers, HandleRun(w) PROVE OwnersDiffer'
  BY <1>27 DEF HandleRun, RunFailed
<1>28. ASSUME NEW w \in Writers, HandleMove(w) PROVE OwnersDiffer'
  BY <1>28 DEF HandleMove, QuarantineTree
<1>29. ASSUME NEW w \in Writers, HandleNothing(w) PROVE OwnersDiffer'
  BY <1>29 DEF HandleNothing
<1>30. ASSUME NEW w \in Writers, HandleRecord(w) PROVE OwnersDiffer'
  BY <1>30 DEF HandleRecord, RecordQuarantine
<1>31. ASSUME NEW w \in Writers, Die(w) PROVE OwnersDiffer'
  BY <1>31 DEF Die
<1> QED
  BY <1>1, <1>2, <1>3, <1>4, <1>5, <1>6, <1>7, <1>8, <1>9, <1>10, <1>11, <1>12, <1>13, <1>14, <1>15, <1>16, <1>17, <1>18, <1>19, <1>20, <1>21, <1>22, <1>23, <1>24, <1>25, <1>26, <1>27, <1>28, <1>29, <1>30, <1>31 DEF Next, Step

(* Only the owner of a fetch writes its temporary or quarantine directory. *)
LEMMA CleanStep == TypeOK /\ WritersOwn /\ UnusedClean /\ [Next]_vars => UnusedClean'
<1> SUFFICES ASSUME TypeOK, WritersOwn, UnusedClean, [Next]_vars PROVE UnusedClean'
  OBVIOUS
<1> USE NoneAssumption DEF TypeOK, WritersOwn, UnusedClean, Kinds, Entries, JobStatus, RunStatus, RowStatus, SnapshotStatus, PCs, InTry, BeforeMoves, AfterMoves, Rejecting, Failing, runVars, rowVars, snapshotVars, diskVars, locals, Leave, Goto
<1>1. CASE UNCHANGED vars
  BY <1>1 DEF vars
<1>2. CASE NextDay
  BY <1>2 DEF NextDay
<1>3. ASSUME NEW w \in Writers, NEW j \in Jobs, NEW f \in Fetches, Start(w, j, f) PROVE UnusedClean'
  BY <1>3 DEF Start
<1>4. ASSUME NEW w \in Writers, UpsertJob(w) PROVE UnusedClean'
  BY <1>4 DEF UpsertJob
<1>5. ASSUME NEW w \in Writers, QueryRetry(w) PROVE UnusedClean'
  BY <1>5 DEF QueryRetry
<1>6. ASSUME NEW w \in Writers, QueryOk(w) PROVE UnusedClean'
  BY <1>6 DEF QueryOk
<1>7. ASSUME NEW w \in Writers, WriteRaw(w) PROVE UnusedClean'
  BY <1>7 DEF WriteRaw
<1>8. ASSUME NEW w \in Writers, SchemaCompatible(w) PROVE UnusedClean'
  BY <1>8 DEF SchemaCompatible
<1>9. ASSUME NEW w \in Writers, SchemaIncompatible(w) PROVE UnusedClean'
  BY <1>9 DEF SchemaIncompatible
<1>10. ASSUME NEW w \in Writers, WriteLake(w) PROVE UnusedClean'
  BY <1>10 DEF WriteLake
<1>11. ASSUME NEW w \in Writers, InsertRawRow(w) PROVE UnusedClean'
  BY <1>11 DEF InsertRawRow
<1>12. ASSUME NEW w \in Writers, InsertLakeRow(w) PROVE UnusedClean'
  BY <1>12 DEF InsertLakeRow
<1>13. ASSUME NEW w \in Writers, Validate(w) PROVE UnusedClean'
  <2>1. CASE Goto(w, "moveRaw")
    BY <1>13, <2>1 DEF Validate
  <2>2. CASE Goto(w, "rejectMove")
    BY <1>13, <2>2 DEF Validate
  <2> QED
    BY <1>13, <2>1, <2>2 DEF Validate
<1>14. ASSUME NEW w \in Writers, MoveRaw(w) PROVE UnusedClean'
  BY <1>14 DEF MoveRaw
<1>15. ASSUME NEW w \in Writers, MoveLake(w) PROVE UnusedClean'
  BY <1>15 DEF MoveLake
<1>16. ASSUME NEW w \in Writers, ReadParent(w) PROVE UnusedClean'
  BY <1>16 DEF ReadParent
<1>17. ASSUME NEW w \in Writers, Commit(w) PROVE UnusedClean'
  BY <1>17 DEF Commit
<1>18. ASSUME NEW w \in Writers, JobDone(w) PROVE UnusedClean'
  BY <1>18 DEF JobDone
<1>19. ASSUME NEW w \in Writers, RunSucceeded(w) PROVE UnusedClean'
  BY <1>19 DEF RunSucceeded
<1>20. ASSUME NEW w \in Writers, Cleanup(w) PROVE UnusedClean'
  BY <1>20 DEF Cleanup
<1>21. ASSUME NEW w \in Writers, RejectMove(w) PROVE UnusedClean'
  BY <1>21 DEF RejectMove, QuarantineTree
<1>22. ASSUME NEW w \in Writers, RejectRecord(w) PROVE UnusedClean'
  BY <1>22 DEF RejectRecord, RecordQuarantine
<1>23. ASSUME NEW w \in Writers, RejectJob(w) PROVE UnusedClean'
  BY <1>23 DEF RejectJob, JobFailed
<1>24. ASSUME NEW w \in Writers, RejectRun(w) PROVE UnusedClean'
  BY <1>24 DEF RejectRun, RunFailed
<1>25. ASSUME NEW w \in Writers, Raise(w) PROVE UnusedClean'
  <2>1. CASE UNCHANGED tmp
    BY <1>25, <2>1 DEF Raise
  <2>2. CASE /\ pc[w] = "writeRaw"
             /\ tmp' = [tmp EXCEPT ![mine[w]] = @ \union {"dir", "raw"}]
    BY <1>25, <2>2 DEF Raise
  <2>3. CASE /\ pc[w] = "writeLake"
             /\ tmp' = [tmp EXCEPT ![mine[w]] = @ \union {"lake"}]
    BY <1>25, <2>3 DEF Raise
  <2> QED
    BY <1>25, <2>1, <2>2, <2>3 DEF Raise
<1>26. ASSUME NEW w \in Writers, HandleJob(w) PROVE UnusedClean'
  BY <1>26 DEF HandleJob, JobFailed
<1>27. ASSUME NEW w \in Writers, HandleRun(w) PROVE UnusedClean'
  BY <1>27 DEF HandleRun, RunFailed
<1>28. ASSUME NEW w \in Writers, HandleMove(w) PROVE UnusedClean'
  BY <1>28 DEF HandleMove, QuarantineTree
<1>29. ASSUME NEW w \in Writers, HandleNothing(w) PROVE UnusedClean'
  BY <1>29 DEF HandleNothing
<1>30. ASSUME NEW w \in Writers, HandleRecord(w) PROVE UnusedClean'
  BY <1>30 DEF HandleRecord, RecordQuarantine
<1>31. ASSUME NEW w \in Writers, Die(w) PROVE UnusedClean'
  BY <1>31 DEF Die
<1> QED
  BY <1>1, <1>2, <1>3, <1>4, <1>5, <1>6, <1>7, <1>8, <1>9, <1>10, <1>11, <1>12, <1>13, <1>14, <1>15, <1>16, <1>17, <1>18, <1>19, <1>20, <1>21, <1>22, <1>23, <1>24, <1>25, <1>26, <1>27, <1>28, <1>29, <1>30, <1>31 DEF Next, Step

(* Both os.replace calls come before the commit, and no path becomes empty. *)
LEMMA MovedStep == TypeOK /\ WritersOwn /\ OwnersDiffer /\ UnusedClean /\ WritersMoved /\ [Next]_vars => WritersMoved'
<1> SUFFICES ASSUME TypeOK, WritersOwn, OwnersDiffer, UnusedClean, WritersMoved, [Next]_vars PROVE WritersMoved'
  OBVIOUS
<1> USE NoneAssumption DEF TypeOK, WritersOwn, OwnersDiffer, UnusedClean, WritersMoved, WriterMoved, Early, Kinds, Entries, JobStatus, RunStatus, RowStatus, SnapshotStatus, PCs, InTry, BeforeMoves, AfterMoves, Rejecting, Failing, runVars, rowVars, snapshotVars, diskVars, locals, Leave, Goto
<1>1. CASE UNCHANGED vars
  BY <1>1 DEF vars
<1>2. CASE NextDay
  BY <1>2 DEF NextDay
<1>3. ASSUME NEW w \in Writers, NEW j \in Jobs, NEW f \in Fetches, Start(w, j, f) PROVE WritersMoved'
  BY <1>3 DEF Start
<1>4. ASSUME NEW w \in Writers, UpsertJob(w) PROVE WritersMoved'
  BY <1>4 DEF UpsertJob
<1>5. ASSUME NEW w \in Writers, QueryRetry(w) PROVE WritersMoved'
  BY <1>5 DEF QueryRetry
<1>6. ASSUME NEW w \in Writers, QueryOk(w) PROVE WritersMoved'
  BY <1>6 DEF QueryOk
<1>7. ASSUME NEW w \in Writers, WriteRaw(w) PROVE WritersMoved'
  BY <1>7 DEF WriteRaw
<1>8. ASSUME NEW w \in Writers, SchemaCompatible(w) PROVE WritersMoved'
  BY <1>8 DEF SchemaCompatible
<1>9. ASSUME NEW w \in Writers, SchemaIncompatible(w) PROVE WritersMoved'
  BY <1>9 DEF SchemaIncompatible
<1>10. ASSUME NEW w \in Writers, WriteLake(w) PROVE WritersMoved'
  BY <1>10 DEF WriteLake
<1>11. ASSUME NEW w \in Writers, InsertRawRow(w) PROVE WritersMoved'
  BY <1>11 DEF InsertRawRow
<1>12. ASSUME NEW w \in Writers, InsertLakeRow(w) PROVE WritersMoved'
  BY <1>12 DEF InsertLakeRow
<1>13. ASSUME NEW w \in Writers, Validate(w) PROVE WritersMoved'
  <2>1. CASE Goto(w, "moveRaw")
    BY <1>13, <2>1 DEF Validate
  <2>2. CASE Goto(w, "rejectMove")
    BY <1>13, <2>2 DEF Validate
  <2> QED
    BY <1>13, <2>1, <2>2 DEF Validate
<1>14. ASSUME NEW w \in Writers, MoveRaw(w) PROVE WritersMoved'
  BY <1>14 DEF MoveRaw
<1>15. ASSUME NEW w \in Writers, MoveLake(w) PROVE WritersMoved'
  BY <1>15 DEF MoveLake
<1>16. ASSUME NEW w \in Writers, ReadParent(w) PROVE WritersMoved'
  BY <1>16 DEF ReadParent
<1>17. ASSUME NEW w \in Writers, Commit(w) PROVE WritersMoved'
  BY <1>17 DEF Commit
<1>18. ASSUME NEW w \in Writers, JobDone(w) PROVE WritersMoved'
  BY <1>18 DEF JobDone
<1>19. ASSUME NEW w \in Writers, RunSucceeded(w) PROVE WritersMoved'
  BY <1>19 DEF RunSucceeded
<1>20. ASSUME NEW w \in Writers, Cleanup(w) PROVE WritersMoved'
  BY <1>20 DEF Cleanup
<1>21. ASSUME NEW w \in Writers, RejectMove(w) PROVE WritersMoved'
  BY <1>21 DEF RejectMove, QuarantineTree
<1>22. ASSUME NEW w \in Writers, RejectRecord(w) PROVE WritersMoved'
  BY <1>22 DEF RejectRecord, RecordQuarantine
<1>23. ASSUME NEW w \in Writers, RejectJob(w) PROVE WritersMoved'
  BY <1>23 DEF RejectJob, JobFailed
<1>24. ASSUME NEW w \in Writers, RejectRun(w) PROVE WritersMoved'
  BY <1>24 DEF RejectRun, RunFailed
<1>25. ASSUME NEW w \in Writers, Raise(w) PROVE WritersMoved'
  <2>1. CASE UNCHANGED tmp
    BY <1>25, <2>1 DEF Raise
  <2>2. CASE /\ pc[w] = "writeRaw"
             /\ tmp' = [tmp EXCEPT ![mine[w]] = @ \union {"dir", "raw"}]
    BY <1>25, <2>2 DEF Raise
  <2>3. CASE /\ pc[w] = "writeLake"
             /\ tmp' = [tmp EXCEPT ![mine[w]] = @ \union {"lake"}]
    BY <1>25, <2>3 DEF Raise
  <2> QED
    BY <1>25, <2>1, <2>2, <2>3 DEF Raise
<1>26. ASSUME NEW w \in Writers, HandleJob(w) PROVE WritersMoved'
  BY <1>26 DEF HandleJob, JobFailed
<1>27. ASSUME NEW w \in Writers, HandleRun(w) PROVE WritersMoved'
  BY <1>27 DEF HandleRun, RunFailed
<1>28. ASSUME NEW w \in Writers, HandleMove(w) PROVE WritersMoved'
  BY <1>28 DEF HandleMove, QuarantineTree
<1>29. ASSUME NEW w \in Writers, HandleNothing(w) PROVE WritersMoved'
  BY <1>29 DEF HandleNothing
<1>30. ASSUME NEW w \in Writers, HandleRecord(w) PROVE WritersMoved'
  BY <1>30 DEF HandleRecord, RecordQuarantine
<1>31. ASSUME NEW w \in Writers, Die(w) PROVE WritersMoved'
  BY <1>31 DEF Die
<1> QED
  BY <1>1, <1>2, <1>3, <1>4, <1>5, <1>6, <1>7, <1>8, <1>9, <1>10, <1>11, <1>12, <1>13, <1>14, <1>15, <1>16, <1>17, <1>18, <1>19, <1>20, <1>21, <1>22, <1>23, <1>24, <1>25, <1>26, <1>27, <1>28, <1>29, <1>30, <1>31 DEF Next, Step

(* The parent read outside the transaction stays committed until it is used. *)
LEMMA ParentStep == TypeOK /\ WritersOwn /\ ParentsCommitted /\ [Next]_vars => ParentsCommitted'
<1> SUFFICES ASSUME TypeOK, WritersOwn, ParentsCommitted, [Next]_vars PROVE ParentsCommitted'
  OBVIOUS
<1> USE NoneAssumption DEF TypeOK, WritersOwn, ParentsCommitted, Committed, Kinds, Entries, JobStatus, RunStatus, RowStatus, SnapshotStatus, PCs, InTry, BeforeMoves, AfterMoves, Rejecting, Failing, runVars, rowVars, snapshotVars, diskVars, locals, Leave, Goto
<1>1. CASE UNCHANGED vars
  BY <1>1 DEF vars
<1>2. CASE NextDay
  BY <1>2 DEF NextDay
<1>3. ASSUME NEW w \in Writers, NEW j \in Jobs, NEW f \in Fetches, Start(w, j, f) PROVE ParentsCommitted'
  BY <1>3 DEF Start
<1>4. ASSUME NEW w \in Writers, UpsertJob(w) PROVE ParentsCommitted'
  BY <1>4 DEF UpsertJob
<1>5. ASSUME NEW w \in Writers, QueryRetry(w) PROVE ParentsCommitted'
  BY <1>5 DEF QueryRetry
<1>6. ASSUME NEW w \in Writers, QueryOk(w) PROVE ParentsCommitted'
  BY <1>6 DEF QueryOk
<1>7. ASSUME NEW w \in Writers, WriteRaw(w) PROVE ParentsCommitted'
  BY <1>7 DEF WriteRaw
<1>8. ASSUME NEW w \in Writers, SchemaCompatible(w) PROVE ParentsCommitted'
  BY <1>8 DEF SchemaCompatible
<1>9. ASSUME NEW w \in Writers, SchemaIncompatible(w) PROVE ParentsCommitted'
  BY <1>9 DEF SchemaIncompatible
<1>10. ASSUME NEW w \in Writers, WriteLake(w) PROVE ParentsCommitted'
  BY <1>10 DEF WriteLake
<1>11. ASSUME NEW w \in Writers, InsertRawRow(w) PROVE ParentsCommitted'
  BY <1>11 DEF InsertRawRow
<1>12. ASSUME NEW w \in Writers, InsertLakeRow(w) PROVE ParentsCommitted'
  BY <1>12 DEF InsertLakeRow
<1>13. ASSUME NEW w \in Writers, Validate(w) PROVE ParentsCommitted'
  <2>1. CASE Goto(w, "moveRaw")
    BY <1>13, <2>1 DEF Validate
  <2>2. CASE Goto(w, "rejectMove")
    BY <1>13, <2>2 DEF Validate
  <2> QED
    BY <1>13, <2>1, <2>2 DEF Validate
<1>14. ASSUME NEW w \in Writers, MoveRaw(w) PROVE ParentsCommitted'
  BY <1>14 DEF MoveRaw
<1>15. ASSUME NEW w \in Writers, MoveLake(w) PROVE ParentsCommitted'
  BY <1>15 DEF MoveLake
<1>16. ASSUME NEW w \in Writers, ReadParent(w) PROVE ParentsCommitted'
  BY <1>16 DEF ReadParent, Latest, Current
<1>17. ASSUME NEW w \in Writers, Commit(w) PROVE ParentsCommitted'
  BY <1>17 DEF Commit
<1>18. ASSUME NEW w \in Writers, JobDone(w) PROVE ParentsCommitted'
  BY <1>18 DEF JobDone
<1>19. ASSUME NEW w \in Writers, RunSucceeded(w) PROVE ParentsCommitted'
  BY <1>19 DEF RunSucceeded
<1>20. ASSUME NEW w \in Writers, Cleanup(w) PROVE ParentsCommitted'
  BY <1>20 DEF Cleanup
<1>21. ASSUME NEW w \in Writers, RejectMove(w) PROVE ParentsCommitted'
  BY <1>21 DEF RejectMove, QuarantineTree
<1>22. ASSUME NEW w \in Writers, RejectRecord(w) PROVE ParentsCommitted'
  BY <1>22 DEF RejectRecord, RecordQuarantine
<1>23. ASSUME NEW w \in Writers, RejectJob(w) PROVE ParentsCommitted'
  BY <1>23 DEF RejectJob, JobFailed
<1>24. ASSUME NEW w \in Writers, RejectRun(w) PROVE ParentsCommitted'
  BY <1>24 DEF RejectRun, RunFailed
<1>25. ASSUME NEW w \in Writers, Raise(w) PROVE ParentsCommitted'
  <2>1. CASE UNCHANGED tmp
    BY <1>25, <2>1 DEF Raise
  <2>2. CASE /\ pc[w] = "writeRaw"
             /\ tmp' = [tmp EXCEPT ![mine[w]] = @ \union {"dir", "raw"}]
    BY <1>25, <2>2 DEF Raise
  <2>3. CASE /\ pc[w] = "writeLake"
             /\ tmp' = [tmp EXCEPT ![mine[w]] = @ \union {"lake"}]
    BY <1>25, <2>3 DEF Raise
  <2> QED
    BY <1>25, <2>1, <2>2, <2>3 DEF Raise
<1>26. ASSUME NEW w \in Writers, HandleJob(w) PROVE ParentsCommitted'
  BY <1>26 DEF HandleJob, JobFailed
<1>27. ASSUME NEW w \in Writers, HandleRun(w) PROVE ParentsCommitted'
  BY <1>27 DEF HandleRun, RunFailed
<1>28. ASSUME NEW w \in Writers, HandleMove(w) PROVE ParentsCommitted'
  BY <1>28 DEF HandleMove, QuarantineTree
<1>29. ASSUME NEW w \in Writers, HandleNothing(w) PROVE ParentsCommitted'
  BY <1>29 DEF HandleNothing
<1>30. ASSUME NEW w \in Writers, HandleRecord(w) PROVE ParentsCommitted'
  BY <1>30 DEF HandleRecord, RecordQuarantine
<1>31. ASSUME NEW w \in Writers, Die(w) PROVE ParentsCommitted'
  BY <1>31 DEF Die
<1> QED
  BY <1>1, <1>2, <1>3, <1>4, <1>5, <1>6, <1>7, <1>8, <1>9, <1>10, <1>11, <1>12, <1>13, <1>14, <1>15, <1>16, <1>17, <1>18, <1>19, <1>20, <1>21, <1>22, <1>23, <1>24, <1>25, <1>26, <1>27, <1>28, <1>29, <1>30, <1>31 DEF Next, Step

(* Committed files stay where they are; a commit adds only moved ones.     *)
LEMMA SettledStep == PathInv /\ [Next]_vars => SnapshotFilesSettled'
<1> SUFFICES ASSUME PathInv, [Next]_vars PROVE SnapshotFilesSettled'
  OBVIOUS
<1> USE NoneAssumption DEF PathInv, TypeOK, WritersOwn, OwnersDiffer, UnusedClean, WritersMoved, WriterMoved, ParentsCommitted, SnapshotFilesSettled, FileSettled, Committed, Early, Late, Kinds, Entries, JobStatus, RunStatus, RowStatus, SnapshotStatus, PCs, InTry, BeforeMoves, AfterMoves, Rejecting, Failing, runVars, rowVars, snapshotVars, diskVars, locals, Leave, Goto
<1>1. CASE UNCHANGED vars
  BY <1>1 DEF vars
<1>2. CASE NextDay
  BY <1>2 DEF NextDay
<1>3. ASSUME NEW w \in Writers, NEW j \in Jobs, NEW f \in Fetches, Start(w, j, f) PROVE SnapshotFilesSettled'
  <2> SUFFICES ASSUME NEW s \in Committed, NEW g \in members[s] PROVE FileSettled(g)'
    BY <1>3 DEF Start
  <2>1. g \in Fetches /\ FileSettled(g)
    BY PathInv
  <2>2. g # f
    BY <1>3, <2>1 DEF Start
  <2>3. run'[g] = run[g] /\ jobOf'[g] = jobOf[g] /\ dayOf'[g] = dayOf[g]
    BY <1>3, <2>1, <2>2 DEF Start
  <2>4. \A v \in Writers : pc'[v] # "idle" /\ mine'[v] = g => pc'[v] \in Late
    BY <1>3, <2>1, <2>2 DEF Start
  <2> QED
    BY <1>3, <2>1, <2>3, <2>4 DEF Start
<1>4. ASSUME NEW w \in Writers, UpsertJob(w) PROVE SnapshotFilesSettled'
  BY <1>4 DEF UpsertJob
<1>5. ASSUME NEW w \in Writers, QueryRetry(w) PROVE SnapshotFilesSettled'
  BY <1>5 DEF QueryRetry
<1>6. ASSUME NEW w \in Writers, QueryOk(w) PROVE SnapshotFilesSettled'
  BY <1>6 DEF QueryOk
<1>7. ASSUME NEW w \in Writers, WriteRaw(w) PROVE SnapshotFilesSettled'
  BY <1>7 DEF WriteRaw
<1>8. ASSUME NEW w \in Writers, SchemaCompatible(w) PROVE SnapshotFilesSettled'
  BY <1>8 DEF SchemaCompatible
<1>9. ASSUME NEW w \in Writers, SchemaIncompatible(w) PROVE SnapshotFilesSettled'
  BY <1>9 DEF SchemaIncompatible
<1>10. ASSUME NEW w \in Writers, WriteLake(w) PROVE SnapshotFilesSettled'
  BY <1>10 DEF WriteLake
<1>11. ASSUME NEW w \in Writers, InsertRawRow(w) PROVE SnapshotFilesSettled'
  BY <1>11 DEF InsertRawRow
<1>12. ASSUME NEW w \in Writers, InsertLakeRow(w) PROVE SnapshotFilesSettled'
  BY <1>12 DEF InsertLakeRow
<1>13. ASSUME NEW w \in Writers, Validate(w) PROVE SnapshotFilesSettled'
  <2>1. CASE Goto(w, "moveRaw")
    BY <1>13, <2>1 DEF Validate
  <2>2. CASE Goto(w, "rejectMove")
    BY <1>13, <2>2 DEF Validate
  <2> QED
    BY <1>13, <2>1, <2>2 DEF Validate
<1>14. ASSUME NEW w \in Writers, MoveRaw(w) PROVE SnapshotFilesSettled'
  BY <1>14 DEF MoveRaw
<1>15. ASSUME NEW w \in Writers, MoveLake(w) PROVE SnapshotFilesSettled'
  BY <1>15 DEF MoveLake
<1>16. ASSUME NEW w \in Writers, ReadParent(w) PROVE SnapshotFilesSettled'
  BY <1>16 DEF ReadParent
<1>17. ASSUME NEW w \in Writers, Commit(w) PROVE SnapshotFilesSettled'
  BY <1>17 DEF Commit, Inherited
<1>18. ASSUME NEW w \in Writers, JobDone(w) PROVE SnapshotFilesSettled'
  BY <1>18 DEF JobDone
<1>19. ASSUME NEW w \in Writers, RunSucceeded(w) PROVE SnapshotFilesSettled'
  BY <1>19 DEF RunSucceeded
<1>20. ASSUME NEW w \in Writers, Cleanup(w) PROVE SnapshotFilesSettled'
  BY <1>20 DEF Cleanup
<1>21. ASSUME NEW w \in Writers, RejectMove(w) PROVE SnapshotFilesSettled'
  BY <1>21 DEF RejectMove, QuarantineTree
<1>22. ASSUME NEW w \in Writers, RejectRecord(w) PROVE SnapshotFilesSettled'
  BY <1>22 DEF RejectRecord, RecordQuarantine
<1>23. ASSUME NEW w \in Writers, RejectJob(w) PROVE SnapshotFilesSettled'
  BY <1>23 DEF RejectJob, JobFailed
<1>24. ASSUME NEW w \in Writers, RejectRun(w) PROVE SnapshotFilesSettled'
  BY <1>24 DEF RejectRun, RunFailed
<1>25. ASSUME NEW w \in Writers, Raise(w) PROVE SnapshotFilesSettled'
  <2>1. CASE UNCHANGED tmp
    BY <1>25, <2>1 DEF Raise
  <2>2. CASE /\ pc[w] = "writeRaw"
             /\ tmp' = [tmp EXCEPT ![mine[w]] = @ \union {"dir", "raw"}]
    <3>1. \A s \in Committed : mine[w] \notin members[s]
      BY <2>2
    <3> QED
      BY <1>25, <2>2, <3>1 DEF Raise
  <2>3. CASE /\ pc[w] = "writeLake"
             /\ tmp' = [tmp EXCEPT ![mine[w]] = @ \union {"lake"}]
    <3>1. \A s \in Committed : mine[w] \notin members[s]
      BY <2>3
    <3> QED
      BY <1>25, <2>3, <3>1 DEF Raise
  <2> QED
    BY <1>25, <2>1, <2>2, <2>3 DEF Raise
<1>26. ASSUME NEW w \in Writers, HandleJob(w) PROVE SnapshotFilesSettled'
  BY <1>26 DEF HandleJob, JobFailed
<1>27. ASSUME NEW w \in Writers, HandleRun(w) PROVE SnapshotFilesSettled'
  BY <1>27 DEF HandleRun, RunFailed
<1>28. ASSUME NEW w \in Writers, HandleMove(w) PROVE SnapshotFilesSettled'
  BY <1>28 DEF HandleMove, QuarantineTree
<1>29. ASSUME NEW w \in Writers, HandleNothing(w) PROVE SnapshotFilesSettled'
  BY <1>29 DEF HandleNothing
<1>30. ASSUME NEW w \in Writers, HandleRecord(w) PROVE SnapshotFilesSettled'
  BY <1>30 DEF HandleRecord, RecordQuarantine
<1>31. ASSUME NEW w \in Writers, Die(w) PROVE SnapshotFilesSettled'
  BY <1>31 DEF Die
<1> QED
  BY <1>1, <1>2, <1>3, <1>4, <1>5, <1>6, <1>7, <1>8, <1>9, <1>10, <1>11, <1>12, <1>13, <1>14, <1>15, <1>16, <1>17, <1>18, <1>19, <1>20, <1>21, <1>22, <1>23, <1>24, <1>25, <1>26, <1>27, <1>28, <1>29, <1>30, <1>31 DEF Next, Step

-----------------------------------------------------------------------------
(* Nothing is committed and nobody runs at first.                          *)
LEMMA PathInit == Init => PathInv
<1> SUFFICES ASSUME Init PROVE PathInv
  OBVIOUS
<1>1. TypeOK
  <2>1. /\ run \in [Fetches -> RunStatus]
        /\ jobOf \in [Fetches -> Jobs \union {None}]
        /\ dayOf \in [Fetches -> Days \union {None}]
        /\ job \in [Jobs -> JobStatus]
        /\ rawRow \in [Fetches -> RowStatus]
        /\ lakeRow \in [Fetches -> RowStatus]
        /\ snap \in [Fetches -> SnapshotStatus]
    BY DEF Init, RunStatus, JobStatus, RowStatus, SnapshotStatus
  <2>2. /\ seq \in [Fetches -> Nat]
        /\ created \in [Fetches -> Nat]
        /\ members \in [Fetches -> SUBSET Fetches]
        /\ checkpoint \in SUBSET Jobs
        /\ schemaKnown \in BOOLEAN
        /\ quarantined \in SUBSET Fetches
    BY DEF Init
  <2>3. /\ lake \in [Jobs -> Fetches \union {None}]
        /\ raw \in [Jobs \X Days -> Fetches \union {None}]
        /\ tmp \in [Fetches -> SUBSET Entries]
        /\ qdir \in [Fetches -> SUBSET Entries]
        /\ today \in Days
    BY DEF Init
  <2>4. /\ pc \in [Writers -> PCs]
        /\ mine \in [Writers -> Fetches \union {None}]
        /\ parent \in [Writers -> Fetches \union {None}]
        /\ tries \in [Writers -> 0..MaxTries]
    BY TriesAssumption DEF Init, PCs
  <2> QED
    BY <2>1, <2>2, <2>3, <2>4 DEF TypeOK
<1>2. Committed = {}
  BY DEF Init, Committed
<1> QED
  BY <1>1, <1>2
  DEF Init, PathInv, WritersOwn, OwnersDiffer, UnusedClean, WritersMoved, WriterMoved,
      ParentsCommitted, SnapshotFilesSettled, Early, BeforeMoves

(* PathInv is inductive.                                                   *)
LEMMA PathStep == PathInv /\ [Next]_vars => PathInv'
  BY TypeStep, OwnStep, DifferStep, CleanStep, MovedStep, ParentStep, SettledStep
  DEF PathInv

(* In every reachable state the files of a fetch are where PathInv says.   *)
THEOREM PathInvariant == Spec => []PathInv
  BY PathInit, PathStep, PTL DEF Spec

(* Every column, path and local keeps its type, in particular the attempt  *)
(* counter of _query_with_retry never passes max_attempts.                 *)
THEOREM TypeCorrect == Spec => []TypeOK
<1>1. PathInv => TypeOK
  BY DEF PathInv
<1> QED
  BY <1>1, PathInvariant, PTL

(* Whatever dies or raises and however many processes fetch at once, the   *)
(* files of every committed snapshot are at their paths.                   *)
THEOREM FilesExist == Spec => []ActiveFilesExist
<1>1. PathInv => ActiveFilesExist
  BY DEF PathInv, SnapshotFilesSettled, FileSettled, ActiveFilesExist
<1> QED
  BY <1>1, PathInvariant, PTL

(* ... and no handler ever moves one of them to _quarantine.               *)
THEOREM QuarantineSafe == Spec => []QuarantinedNeverActive
<1>1. PathInv => QuarantinedNeverActive
  BY DEF PathInv, SnapshotFilesSettled, FileSettled, QuarantinedNeverActive
<1> QED
  BY <1>1, PathInvariant, PTL

-----------------------------------------------------------------------------
(* The single writer of the layout document: what holds on top of PathInv  *)
(* when no two processes fetch on the root at once.                        *)

SingleWriter == \A v, w \in Writers : v = w

(* One snapshot is current and lists every file that was ever committed.   *)
Chain ==
    /\ \A s, t \in Current : s = t
    /\ \A s \in Current : members[s] = Committed
    /\ Committed # {} => Current # {}

(* Rows are current once their fetch is committed, and not before.         *)
RowsFollow ==
    \A f \in Fetches :
        /\ rawRow[f] = "current" <=> f \in Committed
        /\ lakeRow[f] = "current" <=> f \in Committed

(* A fetch is committed by its own transaction only, ...                   *)
CommitsOwn ==
    /\ \A f \in Fetches : run[f] = "none" => f \notin Committed
    /\ \A w \in Writers :
        /\ pc[w] \in Early => mine[w] \notin Committed
        /\ pc[w] \in {"jobDone", "finishRun", "cleanup"} => mine[w] \in Committed

(* ... upon the snapshot that is current then, ...                         *)
ParentIsCurrent == \A w \in Writers : pc[w] = "commit" => Current = {parent[w]} \ {None}

(* ... while its job is running, and is done afterwards, ...               *)
JobFollows ==
    \A w \in Writers :
        /\ pc[w] \in Early \ {"started"} => job[jobOf[mine[w]]] = "running"
        /\ pc[w] = "finishRun" => job[jobOf[mine[w]]] = "done"

(* ... with the files it has itself moved.                                 *)
MovedOwn ==
    \A w \in Writers :
        /\ pc[w] \in {"moveLake"} \union AfterMoves =>
            raw[<<jobOf[mine[w]], dayOf[mine[w]]>>] = mine[w]
        /\ pc[w] \in AfterMoves => lake[jobOf[mine[w]]] = mine[w]

DoneCovered == \A j \in Jobs : job[j] = "done" => \E f \in Committed : jobOf[f] = j

(* A succeeded fetch has its files in place and its job done: no writer is *)
(* at that job again, since the planner has skipped it.                    *)
SucceededKept ==
    \A f \in Fetches : run[f] = "succeeded" =>
        /\ f \in Committed
        /\ job[jobOf[f]] = "done"
        /\ lake[jobOf[f]] = f /\ raw[<<jobOf[f], dayOf[f]>>] = f
        /\ \A w \in Writers : pc[w] # "idle" =>
            IF mine[w] = f THEN pc[w] = "cleanup" ELSE jobOf[mine[w]] # jobOf[f]

LoneInv ==
    /\ PathInv /\ Chain /\ RowsFollow /\ CommitsOwn /\ ParentIsCurrent
    /\ JobFollows /\ MovedOwn /\ DoneCovered /\ SucceededKept

(* With one current snapshot the latest one is it, and it lists them all.  *)
LEMMA LatestListsAll == TypeOK /\ Chain => Latest = Current /\ LatestFiles = Committed
<1> SUFFICES ASSUME TypeOK, Chain
             PROVE  Latest = Current /\ LatestFiles = Committed
  OBVIOUS
<1>1. Current \subseteq Committed
  BY DEF Current, Committed
<1>2. Latest = Current
  <2>1. \A s \in Current : created[s] \in Nat
    BY DEF TypeOK, Current
  <2> QED
    BY <2>1 DEF Latest, Chain
<1>3. CASE Current = {}
  BY <1>2, <1>3 DEF LatestFiles, Chain
<1>4. ASSUME NEW s \in Current
      PROVE  LatestFiles = Committed
  BY <1>2, <1>4 DEF LatestFiles, Chain
<1> QED
  BY <1>2, <1>3, <1>4

(* The commit supersedes the snapshot that was current and takes over its files. *)
LEMMA ChainStep ==
    TypeOK /\ WritersOwn /\ CommitsOwn /\ ParentIsCurrent /\ Chain
        /\ [Next]_vars => Chain'
<1> SUFFICES ASSUME TypeOK, WritersOwn, CommitsOwn, ParentIsCurrent, Chain,
                    [Next]_vars
             PROVE  Chain'
  OBVIOUS
<1> USE NoneAssumption DEF SingleWriter, TypeOK, WritersOwn, CommitsOwn, ParentIsCurrent, Chain, Committed, Current,
    PCs, InTry, BeforeMoves, AfterMoves, Rejecting, Failing, Early, Late,
    runVars, rowVars, snapshotVars, diskVars, locals, Leave, Goto
<1>1. CASE UNCHANGED vars
  BY <1>1 DEF vars
<1>2. CASE NextDay
  BY <1>2 DEF NextDay
<1>3. ASSUME NEW w \in Writers, NEW j \in Jobs, NEW f \in Fetches, Start(w, j, f)
      PROVE  Chain'
  BY <1>3 DEF Start
<1>4. ASSUME NEW w \in Writers, UpsertJob(w)
      PROVE  Chain'
  BY <1>4 DEF UpsertJob
<1>5. ASSUME NEW w \in Writers, QueryRetry(w)
      PROVE  Chain'
  BY <1>5 DEF QueryRetry
<1>6. ASSUME NEW w \in Writers, QueryOk(w)
      PROVE  Chain'
  BY <1>6 DEF QueryOk
<1>7. ASSUME NEW w \in Writers, WriteRaw(w)
      PROVE  Chain'
  BY <1>7 DEF WriteRaw
<1>8. ASSUME NEW w \in Writers, SchemaCompatible(w)
      PROVE  Chain'
  BY <1>8 DEF SchemaCompatible
<1>9. ASSUME NEW w \in Writers, SchemaIncompatible(w)
      PROVE  Chain'
  BY <1>9 DEF SchemaIncompatible
<1>10. ASSUME NEW w \in Writers, WriteLake(w)
      PROVE  Chain'
  BY <1>10 DEF WriteLake
<1>11. ASSUME NEW w \in Writers, InsertRawRow(w)
      PROVE  Chain'
  BY <1>11 DEF InsertRawRow
<1>12. ASSUME NEW w \in Writers, InsertLakeRow(w)
      PROVE  Chain'
  BY <1>12 DEF InsertLakeRow
<1>13. ASSUME NEW w \in Writers, Validate(w)
      PROVE  Chain'
  <2>1. CASE Goto(w, "moveRaw")
    BY <1>13, <2>1 DEF Validate
  <2>2. CASE Goto(w, "rejectMove")
    BY <1>13, <2>2 DEF Validate
  <2> QED
    BY <1>13, <2>1, <2>2 DEF Validate
<1>14. ASSUME NEW w \in Writers, MoveRaw(w)
      PROVE  Chain'
  BY <1>14 DEF MoveRaw
<1>15. ASSUME NEW w \in Writers, MoveLake(w)
      PROVE  Chain'
  BY <1>15 DEF MoveLake
<1>16. ASSUME NEW w \in Writers, ReadParent(w)
      PROVE  Chain'
  BY <1>16 DEF ReadParent
<1>17. ASSUME NEW w \in Writers, Commit(w)
      PROVE  Chain'
  <2>1. Committed' = Committed \union {mine[w]} /\ Current' = {mine[w]}
    BY <1>17 DEF Commit
  <2>2. members'[mine[w]] = Committed \union {mine[w]}
    BY <1>17 DEF Commit, Inherited
  <2> QED
    BY <2>1, <2>2
<1>18. ASSUME NEW w \in Writers, JobDone(w)
      PROVE  Chain'
  BY <1>18 DEF JobDone
<1>19. ASSUME NEW w \in Writers, RunSucceeded(w)
      PROVE  Chain'
  BY <1>19 DEF RunSucceeded
<1>20. ASSUME NEW w \in Writers, Cleanup(w)
      PROVE  Chain'
  BY <1>20 DEF Cleanup
<1>21. ASSUME NEW w \in Writers, RejectMove(w)
      PROVE  Chain'
  BY <1>21 DEF RejectMove, QuarantineTree
<1>22. ASSUME NEW w \in Writers, RejectRecord(w)
      PROVE  Chain'
  BY <1>22 DEF RejectRecord, RecordQuarantine
<1>23. ASSUME NEW w \in Writers, RejectJob(w)
      PROVE  Chain'
  BY <1>23 DEF RejectJob, JobFailed
<1>24. ASSUME NEW w \in Writers, RejectRun(w)
      PROVE  Chain'
  BY <1>24 DEF RejectRun, RunFailed
<1>25. ASSUME NEW w \in Writers, Raise(w)
      PROVE  Chain'
  BY <1>25 DEF Raise
<1>26. ASSUME NEW w \in Writers, HandleJob(w)
      PROVE  Chain'
  BY <1>26 DEF HandleJob, JobFailed
<1>27. ASSUME NEW w \in Writers, HandleRun(w)
      PROVE  Chain'
  BY <1>27 DEF HandleRun, RunFailed
<1>28. ASSUME NEW w \in Writers, HandleMove(w)
      PROVE  Chain'
  BY <1>28 DEF HandleMove, QuarantineTree
<1>29. ASSUME NEW w \in Writers, HandleNothing(w)
      PROVE  Chain'
  BY <1>29 DEF HandleNothing
<1>30. ASSUME NEW w \in Writers, HandleRecord(w)
      PROVE  Chain'
  BY <1>30 DEF HandleRecord, RecordQuarantine
<1>31. ASSUME NEW w \in Writers, Die(w)
      PROVE  Chain'
  BY <1>31 DEF Die
<1> QED
  BY <1>1, <1>2, <1>3, <1>4, <1>5, <1>6, <1>7, <1>8, <1>9, <1>10, <1>11, <1>12,
     <1>13, <1>14, <1>15, <1>16, <1>17, <1>18, <1>19, <1>20, <1>21, <1>22, <1>23, <1>24,
     <1>25, <1>26, <1>27, <1>28, <1>29, <1>30, <1>31
  DEF Next, Step

(* No other transaction touches the rows of a committed fetch. *)
LEMMA RowsStep ==
    TypeOK /\ WritersOwn /\ CommitsOwn /\ ParentIsCurrent /\ RowsFollow
        /\ [Next]_vars => RowsFollow'
<1> SUFFICES ASSUME TypeOK, WritersOwn, CommitsOwn, ParentIsCurrent, RowsFollow,
                    [Next]_vars
             PROVE  RowsFollow'
  OBVIOUS
<1> USE NoneAssumption DEF SingleWriter, TypeOK, WritersOwn, CommitsOwn, ParentIsCurrent, RowsFollow, Committed, Current, RowStatus, SnapshotStatus,
    PCs, InTry, BeforeMoves, AfterMoves, Rejecting, Failing, Early, Late,
    runVars, rowVars, snapshotVars, diskVars, locals, Leave, Goto
<1>1. CASE UNCHANGED vars
  BY <1>1 DEF vars
<1>2. CASE NextDay
  BY <1>2 DEF NextDay
<1>3. ASSUME NEW w \in Writers, NEW j \in Jobs, NEW f \in Fetches, Start(w, j, f)
      PROVE  RowsFollow'
  BY <1>3 DEF Start
<1>4. ASSUME NEW w \in Writers, UpsertJob(w)
      PROVE  RowsFollow'
  BY <1>4 DEF UpsertJob
<1>5. ASSUME NEW w \in Writers, QueryRetry(w)
      PROVE  RowsFollow'
  BY <1>5 DEF QueryRetry
<1>6. ASSUME NEW w \in Writers, QueryOk(w)
      PROVE  RowsFollow'
  BY <1>6 DEF QueryOk
<1>7. ASSUME NEW w \in Writers, WriteRaw(w)
      PROVE  RowsFollow'
  BY <1>7 DEF WriteRaw
<1>8. ASSUME NEW w \in Writers, SchemaCompatible(w)
      PROVE  RowsFollow'
  BY <1>8 DEF SchemaCompatible
<1>9. ASSUME NEW w \in Writers, SchemaIncompatible(w)
      PROVE  RowsFollow'
  BY <1>9 DEF SchemaIncompatible
<1>10. ASSUME NEW w \in Writers, WriteLake(w)
      PROVE  RowsFollow'
  BY <1>10 DEF WriteLake
<1>11. ASSUME NEW w \in Writers, InsertRawRow(w)
      PROVE  RowsFollow'
  BY <1>11 DEF InsertRawRow
<1>12. ASSUME NEW w \in Writers, InsertLakeRow(w)
      PROVE  RowsFollow'
  BY <1>12 DEF InsertLakeRow
<1>13. ASSUME NEW w \in Writers, Validate(w)
      PROVE  RowsFollow'
  <2>1. CASE Goto(w, "moveRaw")
    BY <1>13, <2>1 DEF Validate
  <2>2. CASE Goto(w, "rejectMove")
    BY <1>13, <2>2 DEF Validate
  <2> QED
    BY <1>13, <2>1, <2>2 DEF Validate
<1>14. ASSUME NEW w \in Writers, MoveRaw(w)
      PROVE  RowsFollow'
  BY <1>14 DEF MoveRaw
<1>15. ASSUME NEW w \in Writers, MoveLake(w)
      PROVE  RowsFollow'
  BY <1>15 DEF MoveLake
<1>16. ASSUME NEW w \in Writers, ReadParent(w)
      PROVE  RowsFollow'
  BY <1>16 DEF ReadParent
<1>17. ASSUME NEW w \in Writers, Commit(w)
      PROVE  RowsFollow'
  BY <1>17 DEF Commit
<1>18. ASSUME NEW w \in Writers, JobDone(w)
      PROVE  RowsFollow'
  BY <1>18 DEF JobDone
<1>19. ASSUME NEW w \in Writers, RunSucceeded(w)
      PROVE  RowsFollow'
  BY <1>19 DEF RunSucceeded
<1>20. ASSUME NEW w \in Writers, Cleanup(w)
      PROVE  RowsFollow'
  BY <1>20 DEF Cleanup
<1>21. ASSUME NEW w \in Writers, RejectMove(w)
      PROVE  RowsFollow'
  BY <1>21 DEF RejectMove, QuarantineTree
<1>22. ASSUME NEW w \in Writers, RejectRecord(w)
      PROVE  RowsFollow'
  BY <1>22 DEF RejectRecord, RecordQuarantine
<1>23. ASSUME NEW w \in Writers, RejectJob(w)
      PROVE  RowsFollow'
  BY <1>23 DEF RejectJob, JobFailed
<1>24. ASSUME NEW w \in Writers, RejectRun(w)
      PROVE  RowsFollow'
  BY <1>24 DEF RejectRun, RunFailed
<1>25. ASSUME NEW w \in Writers, Raise(w)
      PROVE  RowsFollow'
  BY <1>25 DEF Raise
<1>26. ASSUME NEW w \in Writers, HandleJob(w)
      PROVE  RowsFollow'
  BY <1>26 DEF HandleJob, JobFailed
<1>27. ASSUME NEW w \in Writers, HandleRun(w)
      PROVE  RowsFollow'
  BY <1>27 DEF HandleRun, RunFailed
<1>28. ASSUME NEW w \in Writers, HandleMove(w)
      PROVE  RowsFollow'
  BY <1>28 DEF HandleMove, QuarantineTree
<1>29. ASSUME NEW w \in Writers, HandleNothing(w)
      PROVE  RowsFollow'
  BY <1>29 DEF HandleNothing
<1>30. ASSUME NEW w \in Writers, HandleRecord(w)
      PROVE  RowsFollow'
  BY <1>30 DEF HandleRecord, RecordQuarantine
<1>31. ASSUME NEW w \in Writers, Die(w)
      PROVE  RowsFollow'
  BY <1>31 DEF Die
<1> QED
  BY <1>1, <1>2, <1>3, <1>4, <1>5, <1>6, <1>7, <1>8, <1>9, <1>10, <1>11, <1>12,
     <1>13, <1>14, <1>15, <1>16, <1>17, <1>18, <1>19, <1>20, <1>21, <1>22, <1>23, <1>24,
     <1>25, <1>26, <1>27, <1>28, <1>29, <1>30, <1>31
  DEF Next, Step

(* A fetch commits once. *)
LEMMA CommitsStep ==
    TypeOK /\ WritersOwn /\ OwnersDiffer /\ ParentsCommitted /\ CommitsOwn
        /\ [Next]_vars => CommitsOwn'
<1> SUFFICES ASSUME TypeOK, WritersOwn, OwnersDiffer, ParentsCommitted, CommitsOwn,
                    [Next]_vars
             PROVE  CommitsOwn'
  OBVIOUS
<1> USE NoneAssumption DEF SingleWriter, TypeOK, WritersOwn, OwnersDiffer, ParentsCommitted, CommitsOwn, Committed, Current, SnapshotStatus,
    PCs, InTry, BeforeMoves, AfterMoves, Rejecting, Failing, Early, Late,
    runVars, rowVars, snapshotVars, diskVars, locals, Leave, Goto
<1>1. CASE UNCHANGED vars
  BY <1>1 DEF vars
<1>2. CASE NextDay
  BY <1>2 DEF NextDay
<1>3. ASSUME NEW w \in Writers, NEW j \in Jobs, NEW f \in Fetches, Start(w, j, f)
      PROVE  CommitsOwn'
  BY <1>3 DEF Start
<1>4. ASSUME NEW w \in Writers, UpsertJob(w)
      PROVE  CommitsOwn'
  BY <1>4 DEF UpsertJob
<1>5. ASSUME NEW w \in Writers, QueryRetry(w)
      PROVE  CommitsOwn'
  BY <1>5 DEF QueryRetry
<1>6. ASSUME NEW w \in Writers, QueryOk(w)
      PROVE  CommitsOwn'
  BY <1>6 DEF QueryOk
<1>7. ASSUME NEW w \in Writers, WriteRaw(w)
      PROVE  CommitsOwn'
  BY <1>7 DEF WriteRaw
<1>8. ASSUME NEW w \in Writers, SchemaCompatible(w)
      PROVE  CommitsOwn'
  BY <1>8 DEF SchemaCompatible
<1>9. ASSUME NEW w \in Writers, SchemaIncompatible(w)
      PROVE  CommitsOwn'
  BY <1>9 DEF SchemaIncompatible
<1>10. ASSUME NEW w \in Writers, WriteLake(w)
      PROVE  CommitsOwn'
  BY <1>10 DEF WriteLake
<1>11. ASSUME NEW w \in Writers, InsertRawRow(w)
      PROVE  CommitsOwn'
  BY <1>11 DEF InsertRawRow
<1>12. ASSUME NEW w \in Writers, InsertLakeRow(w)
      PROVE  CommitsOwn'
  BY <1>12 DEF InsertLakeRow
<1>13. ASSUME NEW w \in Writers, Validate(w)
      PROVE  CommitsOwn'
  <2>1. CASE Goto(w, "moveRaw")
    BY <1>13, <2>1 DEF Validate
  <2>2. CASE Goto(w, "rejectMove")
    BY <1>13, <2>2 DEF Validate
  <2> QED
    BY <1>13, <2>1, <2>2 DEF Validate
<1>14. ASSUME NEW w \in Writers, MoveRaw(w)
      PROVE  CommitsOwn'
  BY <1>14 DEF MoveRaw
<1>15. ASSUME NEW w \in Writers, MoveLake(w)
      PROVE  CommitsOwn'
  BY <1>15 DEF MoveLake
<1>16. ASSUME NEW w \in Writers, ReadParent(w)
      PROVE  CommitsOwn'
  BY <1>16 DEF ReadParent
<1>17. ASSUME NEW w \in Writers, Commit(w)
      PROVE  CommitsOwn'
  BY <1>17 DEF Commit
<1>18. ASSUME NEW w \in Writers, JobDone(w)
      PROVE  CommitsOwn'
  BY <1>18 DEF JobDone
<1>19. ASSUME NEW w \in Writers, RunSucceeded(w)
      PROVE  CommitsOwn'
  BY <1>19 DEF RunSucceeded
<1>20. ASSUME NEW w \in Writers, Cleanup(w)
      PROVE  CommitsOwn'
  BY <1>20 DEF Cleanup
<1>21. ASSUME NEW w \in Writers, RejectMove(w)
      PROVE  CommitsOwn'
  BY <1>21 DEF RejectMove, QuarantineTree
<1>22. ASSUME NEW w \in Writers, RejectRecord(w)
      PROVE  CommitsOwn'
  BY <1>22 DEF RejectRecord, RecordQuarantine
<1>23. ASSUME NEW w \in Writers, RejectJob(w)
      PROVE  CommitsOwn'
  BY <1>23 DEF RejectJob, JobFailed
<1>24. ASSUME NEW w \in Writers, RejectRun(w)
      PROVE  CommitsOwn'
  BY <1>24 DEF RejectRun, RunFailed
<1>25. ASSUME NEW w \in Writers, Raise(w)
      PROVE  CommitsOwn'
  BY <1>25 DEF Raise
<1>26. ASSUME NEW w \in Writers, HandleJob(w)
      PROVE  CommitsOwn'
  BY <1>26 DEF HandleJob, JobFailed
<1>27. ASSUME NEW w \in Writers, HandleRun(w)
      PROVE  CommitsOwn'
  BY <1>27 DEF HandleRun, RunFailed
<1>28. ASSUME NEW w \in Writers, HandleMove(w)
      PROVE  CommitsOwn'
  BY <1>28 DEF HandleMove, QuarantineTree
<1>29. ASSUME NEW w \in Writers, HandleNothing(w)
      PROVE  CommitsOwn'
  BY <1>29 DEF HandleNothing
<1>30. ASSUME NEW w \in Writers, HandleRecord(w)
      PROVE  CommitsOwn'
  BY <1>30 DEF HandleRecord, RecordQuarantine
<1>31. ASSUME NEW w \in Writers, Die(w)
      PROVE  CommitsOwn'
  BY <1>31 DEF Die
<1> QED
  BY <1>1, <1>2, <1>3, <1>4, <1>5, <1>6, <1>7, <1>8, <1>9, <1>10, <1>11, <1>12,
     <1>13, <1>14, <1>15, <1>16, <1>17, <1>18, <1>19, <1>20, <1>21, <1>22, <1>23, <1>24,
     <1>25, <1>26, <1>27, <1>28, <1>29, <1>30, <1>31
  DEF Next, Step

(* Between the read of the parent and the commit nobody else commits. *)
LEMMA CurrentStep ==
    SingleWriter /\ TypeOK /\ WritersOwn /\ Chain /\ ParentIsCurrent
        /\ [Next]_vars => ParentIsCurrent'
<1> SUFFICES ASSUME SingleWriter, TypeOK, WritersOwn, Chain, ParentIsCurrent,
                    [Next]_vars
             PROVE  ParentIsCurrent'
  OBVIOUS
<1> USE NoneAssumption DEF SingleWriter, TypeOK, WritersOwn, Chain, ParentIsCurrent, Committed, Current,
    PCs, InTry, BeforeMoves, AfterMoves, Rejecting, Failing, Early, Late,
    runVars, rowVars, snapshotVars, diskVars, locals, Leave, Goto
<1>1. CASE UNCHANGED vars
  BY <1>1 DEF vars
<1>2. CASE NextDay
  BY <1>2 DEF NextDay
<1>3. ASSUME NEW w \in Writers, NEW j \in Jobs, NEW f \in Fetches, Start(w, j, f)
      PROVE  ParentIsCurrent'
  BY <1>3 DEF Start
<1>4. ASSUME NEW w \in Writers, UpsertJob(w)
      PROVE  ParentIsCurrent'
  BY <1>4 DEF UpsertJob
<1>5. ASSUME NEW w \in Writers, QueryRetry(w)
      PROVE  ParentIsCurrent'
  BY <1>5 DEF QueryRetry
<1>6. ASSUME NEW w \in Writers, QueryOk(w)
      PROVE  ParentIsCurrent'
  BY <1>6 DEF QueryOk
<1>7. ASSUME NEW w \in Writers, WriteRaw(w)
      PROVE  ParentIsCurrent'
  BY <1>7 DEF WriteRaw
<1>8. ASSUME NEW w \in Writers, SchemaCompatible(w)
      PROVE  ParentIsCurrent'
  BY <1>8 DEF SchemaCompatible
<1>9. ASSUME NEW w \in Writers, SchemaIncompatible(w)
      PROVE  ParentIsCurrent'
  BY <1>9 DEF SchemaIncompatible
<1>10. ASSUME NEW w \in Writers, WriteLake(w)
      PROVE  ParentIsCurrent'
  BY <1>10 DEF WriteLake
<1>11. ASSUME NEW w \in Writers, InsertRawRow(w)
      PROVE  ParentIsCurrent'
  BY <1>11 DEF InsertRawRow
<1>12. ASSUME NEW w \in Writers, InsertLakeRow(w)
      PROVE  ParentIsCurrent'
  BY <1>12 DEF InsertLakeRow
<1>13. ASSUME NEW w \in Writers, Validate(w)
      PROVE  ParentIsCurrent'
  <2>1. CASE Goto(w, "moveRaw")
    BY <1>13, <2>1 DEF Validate
  <2>2. CASE Goto(w, "rejectMove")
    BY <1>13, <2>2 DEF Validate
  <2> QED
    BY <1>13, <2>1, <2>2 DEF Validate
<1>14. ASSUME NEW w \in Writers, MoveRaw(w)
      PROVE  ParentIsCurrent'
  BY <1>14 DEF MoveRaw
<1>15. ASSUME NEW w \in Writers, MoveLake(w)
      PROVE  ParentIsCurrent'
  BY <1>15 DEF MoveLake
<1>16. ASSUME NEW w \in Writers, ReadParent(w)
      PROVE  ParentIsCurrent'
  BY <1>16, LatestListsAll DEF ReadParent
<1>17. ASSUME NEW w \in Writers, Commit(w)
      PROVE  ParentIsCurrent'
  BY <1>17 DEF Commit
<1>18. ASSUME NEW w \in Writers, JobDone(w)
      PROVE  ParentIsCurrent'
  BY <1>18 DEF JobDone
<1>19. ASSUME NEW w \in Writers, RunSucceeded(w)
      PROVE  ParentIsCurrent'
  BY <1>19 DEF RunSucceeded
<1>20. ASSUME NEW w \in Writers, Cleanup(w)
      PROVE  ParentIsCurrent'
  BY <1>20 DEF Cleanup
<1>21. ASSUME NEW w \in Writers, RejectMove(w)
      PROVE  ParentIsCurrent'
  BY <1>21 DEF RejectMove, QuarantineTree
<1>22. ASSUME NEW w \in Writers, RejectRecord(w)
      PROVE  ParentIsCurrent'
  BY <1>22 DEF RejectRecord, RecordQuarantine
<1>23. ASSUME NEW w \in Writers, RejectJob(w)
      PROVE  ParentIsCurrent'
  BY <1>23 DEF RejectJob, JobFailed
<1>24. ASSUME NEW w \in Writers, RejectRun(w)
      PROVE  ParentIsCurrent'
  BY <1>24 DEF RejectRun, RunFailed
<1>25. ASSUME NEW w \in Writers, Raise(w)
      PROVE  ParentIsCurrent'
  BY <1>25 DEF Raise
<1>26. ASSUME NEW w \in Writers, HandleJob(w)
      PROVE  ParentIsCurrent'
  BY <1>26 DEF HandleJob, JobFailed
<1>27. ASSUME NEW w \in Writers, HandleRun(w)
      PROVE  ParentIsCurrent'
  BY <1>27 DEF HandleRun, RunFailed
<1>28. ASSUME NEW w \in Writers, HandleMove(w)
      PROVE  ParentIsCurrent'
  BY <1>28 DEF HandleMove, QuarantineTree
<1>29. ASSUME NEW w \in Writers, HandleNothing(w)
      PROVE  ParentIsCurrent'
  BY <1>29 DEF HandleNothing
<1>30. ASSUME NEW w \in Writers, HandleRecord(w)
      PROVE  ParentIsCurrent'
  BY <1>30 DEF HandleRecord, RecordQuarantine
<1>31. ASSUME NEW w \in Writers, Die(w)
      PROVE  ParentIsCurrent'
  BY <1>31 DEF Die
<1> QED
  BY <1>1, <1>2, <1>3, <1>4, <1>5, <1>6, <1>7, <1>8, <1>9, <1>10, <1>11, <1>12,
     <1>13, <1>14, <1>15, <1>16, <1>17, <1>18, <1>19, <1>20, <1>21, <1>22, <1>23, <1>24,
     <1>25, <1>26, <1>27, <1>28, <1>29, <1>30, <1>31
  DEF Next, Step

(* Nobody else updates the job of a fetch. *)
LEMMA JobStep ==
    SingleWriter /\ TypeOK /\ WritersOwn /\ JobFollows
        /\ [Next]_vars => JobFollows'
<1> SUFFICES ASSUME SingleWriter, TypeOK, WritersOwn, JobFollows,
                    [Next]_vars
             PROVE  JobFollows'
  OBVIOUS
<1> USE NoneAssumption DEF SingleWriter, TypeOK, WritersOwn, JobFollows,
    PCs, InTry, BeforeMoves, AfterMoves, Rejecting, Failing, Early, Late,
    runVars, rowVars, snapshotVars, diskVars, locals, Leave, Goto
<1>1. CASE UNCHANGED vars
  BY <1>1 DEF vars
<1>2. CASE NextDay
  BY <1>2 DEF NextDay
<1>3. ASSUME NEW w \in Writers, NEW j \in Jobs, NEW f \in Fetches, Start(w, j, f)
      PROVE  JobFollows'
  BY <1>3 DEF Start
<1>4. ASSUME NEW w \in Writers, UpsertJob(w)
      PROVE  JobFollows'
  BY <1>4 DEF UpsertJob
<1>5. ASSUME NEW w \in Writers, QueryRetry(w)
      PROVE  JobFollows'
  BY <1>5 DEF QueryRetry
<1>6. ASSUME NEW w \in Writers, QueryOk(w)
      PROVE  JobFollows'
  BY <1>6 DEF QueryOk
<1>7. ASSUME NEW w \in Writers, WriteRaw(w)
      PROVE  JobFollows'
  BY <1>7 DEF WriteRaw
<1>8. ASSUME NEW w \in Writers, SchemaCompatible(w)
      PROVE  JobFollows'
  BY <1>8 DEF SchemaCompatible
<1>9. ASSUME NEW w \in Writers, SchemaIncompatible(w)
      PROVE  JobFollows'
  BY <1>9 DEF SchemaIncompatible
<1>10. ASSUME NEW w \in Writers, WriteLake(w)
      PROVE  JobFollows'
  BY <1>10 DEF WriteLake
<1>11. ASSUME NEW w \in Writers, InsertRawRow(w)
      PROVE  JobFollows'
  BY <1>11 DEF InsertRawRow
<1>12. ASSUME NEW w \in Writers, InsertLakeRow(w)
      PROVE  JobFollows'
  BY <1>12 DEF InsertLakeRow
<1>13. ASSUME NEW w \in Writers, Validate(w)
      PROVE  JobFollows'
  <2>1. CASE Goto(w, "moveRaw")
    BY <1>13, <2>1 DEF Validate
  <2>2. CASE Goto(w, "rejectMove")
    BY <1>13, <2>2 DEF Validate
  <2> QED
    BY <1>13, <2>1, <2>2 DEF Validate
<1>14. ASSUME NEW w \in Writers, MoveRaw(w)
      PROVE  JobFollows'
  BY <1>14 DEF MoveRaw
<1>15. ASSUME NEW w \in Writers, MoveLake(w)
      PROVE  JobFollows'
  BY <1>15 DEF MoveLake
<1>16. ASSUME NEW w \in Writers, ReadParent(w)
      PROVE  JobFollows'
  BY <1>16 DEF ReadParent
<1>17. ASSUME NEW w \in Writers, Commit(w)
      PROVE  JobFollows'
  BY <1>17 DEF Commit
<1>18. ASSUME NEW w \in Writers, JobDone(w)
      PROVE  JobFollows'
  BY <1>18 DEF JobDone
<1>19. ASSUME NEW w \in Writers, RunSucceeded(w)
      PROVE  JobFollows'
  BY <1>19 DEF RunSucceeded
<1>20. ASSUME NEW w \in Writers, Cleanup(w)
      PROVE  JobFollows'
  BY <1>20 DEF Cleanup
<1>21. ASSUME NEW w \in Writers, RejectMove(w)
      PROVE  JobFollows'
  BY <1>21 DEF RejectMove, QuarantineTree
<1>22. ASSUME NEW w \in Writers, RejectRecord(w)
      PROVE  JobFollows'
  BY <1>22 DEF RejectRecord, RecordQuarantine
<1>23. ASSUME NEW w \in Writers, RejectJob(w)
      PROVE  JobFollows'
  BY <1>23 DEF RejectJob, JobFailed
<1>24. ASSUME NEW w \in Writers, RejectRun(w)
      PROVE  JobFollows'
  BY <1>24 DEF RejectRun, RunFailed
<1>25. ASSUME NEW w \in Writers, Raise(w)
      PROVE  JobFollows'
  BY <1>25 DEF Raise
<1>26. ASSUME NEW w \in Writers, HandleJob(w)
      PROVE  JobFollows'
  BY <1>26 DEF HandleJob, JobFailed
<1>27. ASSUME NEW w \in Writers, HandleRun(w)
      PROVE  JobFollows'
  BY <1>27 DEF HandleRun, RunFailed
<1>28. ASSUME NEW w \in Writers, HandleMove(w)
      PROVE  JobFollows'
  BY <1>28 DEF HandleMove, QuarantineTree
<1>29. ASSUME NEW w \in Writers, HandleNothing(w)
      PROVE  JobFollows'
  BY <1>29 DEF HandleNothing
<1>30. ASSUME NEW w \in Writers, HandleRecord(w)
      PROVE  JobFollows'
  BY <1>30 DEF HandleRecord, RecordQuarantine
<1>31. ASSUME NEW w \in Writers, Die(w)
      PROVE  JobFollows'
  BY <1>31 DEF Die
<1> QED
  BY <1>1, <1>2, <1>3, <1>4, <1>5, <1>6, <1>7, <1>8, <1>9, <1>10, <1>11, <1>12,
     <1>13, <1>14, <1>15, <1>16, <1>17, <1>18, <1>19, <1>20, <1>21, <1>22, <1>23, <1>24,
     <1>25, <1>26, <1>27, <1>28, <1>29, <1>30, <1>31
  DEF Next, Step

(* Nobody else moves files to the paths of a fetch. *)
LEMMA MovedOwnStep == SingleWriter /\ TypeOK /\ WritersOwn /\ MovedOwn /\ [Next]_vars => MovedOwn'
<1> SUFFICES ASSUME SingleWriter, TypeOK, WritersOwn, MovedOwn,
                    [Next]_vars
             PROVE  MovedOwn'
  OBVIOUS
<1> USE NoneAssumption DEF SingleWriter, TypeOK, WritersOwn, MovedOwn,
    PCs, InTry, BeforeMoves, AfterMoves, Rejecting, Failing, Early, Late,
    runVars, rowVars, snapshotVars, diskVars, locals, Leave, Goto
<1>1. CASE UNCHANGED vars
  BY <1>1 DEF vars
<1>2. CASE NextDay
  BY <1>2 DEF NextDay
<1>3. ASSUME NEW w \in Writers, NEW j \in Jobs, NEW f \in Fetches, Start(w, j, f)
      PROVE  MovedOwn'
  BY <1>3 DEF Start
<1>4. ASSUME NEW w \in Writers, UpsertJob(w)
      PROVE  MovedOwn'
  BY <1>4 DEF UpsertJob
<1>5. ASSUME NEW w \in Writers, QueryRetry(w)
      PROVE  MovedOwn'
  BY <1>5 DEF QueryRetry
<1>6. ASSUME NEW w \in Writers, QueryOk(w)
      PROVE  MovedOwn'
  BY <1>6 DEF QueryOk
<1>7. ASSUME NEW w \in Writers, WriteRaw(w)
      PROVE  MovedOwn'
  BY <1>7 DEF WriteRaw
<1>8. ASSUME NEW w \in Writers, SchemaCompatible(w)
      PROVE  MovedOwn'
  BY <1>8 DEF SchemaCompatible
<1>9. ASSUME NEW w \in Writers, SchemaIncompatible(w)
      PROVE  MovedOwn'
  BY <1>9 DEF SchemaIncompatible
<1>10. ASSUME NEW w \in Writers, WriteLake(w)
      PROVE  MovedOwn'
  BY <1>10 DEF WriteLake
<1>11. ASSUME NEW w \in Writers, InsertRawRow(w)
      PROVE  MovedOwn'
  BY <1>11 DEF InsertRawRow
<1>12. ASSUME NEW w \in Writers, InsertLakeRow(w)
      PROVE  MovedOwn'
  BY <1>12 DEF InsertLakeRow
<1>13. ASSUME NEW w \in Writers, Validate(w)
      PROVE  MovedOwn'
  <2>1. CASE Goto(w, "moveRaw")
    BY <1>13, <2>1 DEF Validate
  <2>2. CASE Goto(w, "rejectMove")
    BY <1>13, <2>2 DEF Validate
  <2> QED
    BY <1>13, <2>1, <2>2 DEF Validate
<1>14. ASSUME NEW w \in Writers, MoveRaw(w)
      PROVE  MovedOwn'
  BY <1>14 DEF MoveRaw
<1>15. ASSUME NEW w \in Writers, MoveLake(w)
      PROVE  MovedOwn'
  BY <1>15 DEF MoveLake
<1>16. ASSUME NEW w \in Writers, ReadParent(w)
      PROVE  MovedOwn'
  BY <1>16 DEF ReadParent
<1>17. ASSUME NEW w \in Writers, Commit(w)
      PROVE  MovedOwn'
  BY <1>17 DEF Commit
<1>18. ASSUME NEW w \in Writers, JobDone(w)
      PROVE  MovedOwn'
  BY <1>18 DEF JobDone
<1>19. ASSUME NEW w \in Writers, RunSucceeded(w)
      PROVE  MovedOwn'
  BY <1>19 DEF RunSucceeded
<1>20. ASSUME NEW w \in Writers, Cleanup(w)
      PROVE  MovedOwn'
  BY <1>20 DEF Cleanup
<1>21. ASSUME NEW w \in Writers, RejectMove(w)
      PROVE  MovedOwn'
  BY <1>21 DEF RejectMove, QuarantineTree
<1>22. ASSUME NEW w \in Writers, RejectRecord(w)
      PROVE  MovedOwn'
  BY <1>22 DEF RejectRecord, RecordQuarantine
<1>23. ASSUME NEW w \in Writers, RejectJob(w)
      PROVE  MovedOwn'
  BY <1>23 DEF RejectJob, JobFailed
<1>24. ASSUME NEW w \in Writers, RejectRun(w)
      PROVE  MovedOwn'
  BY <1>24 DEF RejectRun, RunFailed
<1>25. ASSUME NEW w \in Writers, Raise(w)
      PROVE  MovedOwn'
  BY <1>25 DEF Raise
<1>26. ASSUME NEW w \in Writers, HandleJob(w)
      PROVE  MovedOwn'
  BY <1>26 DEF HandleJob, JobFailed
<1>27. ASSUME NEW w \in Writers, HandleRun(w)
      PROVE  MovedOwn'
  BY <1>27 DEF HandleRun, RunFailed
<1>28. ASSUME NEW w \in Writers, HandleMove(w)
      PROVE  MovedOwn'
  BY <1>28 DEF HandleMove, QuarantineTree
<1>29. ASSUME NEW w \in Writers, HandleNothing(w)
      PROVE  MovedOwn'
  BY <1>29 DEF HandleNothing
<1>30. ASSUME NEW w \in Writers, HandleRecord(w)
      PROVE  MovedOwn'
  BY <1>30 DEF HandleRecord, RecordQuarantine
<1>31. ASSUME NEW w \in Writers, Die(w)
      PROVE  MovedOwn'
  BY <1>31 DEF Die
<1> QED
  BY <1>1, <1>2, <1>3, <1>4, <1>5, <1>6, <1>7, <1>8, <1>9, <1>10, <1>11, <1>12,
     <1>13, <1>14, <1>15, <1>16, <1>17, <1>18, <1>19, <1>20, <1>21, <1>22, <1>23, <1>24,
     <1>25, <1>26, <1>27, <1>28, <1>29, <1>30, <1>31
  DEF Next, Step

(* A job is set to done after the commit, and its fetch stays committed. *)
LEMMA DoneStep == TypeOK /\ WritersOwn /\ CommitsOwn /\ DoneCovered /\ [Next]_vars => DoneCovered'
<1> SUFFICES ASSUME TypeOK, WritersOwn, CommitsOwn, DoneCovered,
                    [Next]_vars
             PROVE  DoneCovered'
  OBVIOUS
<1> USE NoneAssumption DEF SingleWriter, TypeOK, WritersOwn, CommitsOwn, DoneCovered, Committed, Current,
    PCs, InTry, BeforeMoves, AfterMoves, Rejecting, Failing, Early, Late,
    runVars, rowVars, snapshotVars, diskVars, locals, Leave, Goto
<1>1. CASE UNCHANGED vars
  BY <1>1 DEF vars
<1>2. CASE NextDay
  BY <1>2 DEF NextDay
<1>3. ASSUME NEW w \in Writers, NEW j \in Jobs, NEW f \in Fetches, Start(w, j, f)
      PROVE  DoneCovered'
  BY <1>3 DEF Start
<1>4. ASSUME NEW w \in Writers, UpsertJob(w)
      PROVE  DoneCovered'
  BY <1>4 DEF UpsertJob
<1>5. ASSUME NEW w \in Writers, QueryRetry(w)
      PROVE  DoneCovered'
  BY <1>5 DEF QueryRetry
<1>6. ASSUME NEW w \in Writers, QueryOk(w)
      PROVE  DoneCovered'
  BY <1>6 DEF QueryOk
<1>7. ASSUME NEW w \in Writers, WriteRaw(w)
      PROVE  DoneCovered'
  BY <1>7 DEF WriteRaw
<1>8. ASSUME NEW w \in Writers, SchemaCompatible(w)
      PROVE  DoneCovered'
  BY <1>8 DEF SchemaCompatible
<1>9. ASSUME NEW w \in Writers, SchemaIncompatible(w)
      PROVE  DoneCovered'
  BY <1>9 DEF SchemaIncompatible
<1>10. ASSUME NEW w \in Writers, WriteLake(w)
      PROVE  DoneCovered'
  BY <1>10 DEF WriteLake
<1>11. ASSUME NEW w \in Writers, InsertRawRow(w)
      PROVE  DoneCovered'
  BY <1>11 DEF InsertRawRow
<1>12. ASSUME NEW w \in Writers, InsertLakeRow(w)
      PROVE  DoneCovered'
  BY <1>12 DEF InsertLakeRow
<1>13. ASSUME NEW w \in Writers, Validate(w)
      PROVE  DoneCovered'
  <2>1. CASE Goto(w, "moveRaw")
    BY <1>13, <2>1 DEF Validate
  <2>2. CASE Goto(w, "rejectMove")
    BY <1>13, <2>2 DEF Validate
  <2> QED
    BY <1>13, <2>1, <2>2 DEF Validate
<1>14. ASSUME NEW w \in Writers, MoveRaw(w)
      PROVE  DoneCovered'
  BY <1>14 DEF MoveRaw
<1>15. ASSUME NEW w \in Writers, MoveLake(w)
      PROVE  DoneCovered'
  BY <1>15 DEF MoveLake
<1>16. ASSUME NEW w \in Writers, ReadParent(w)
      PROVE  DoneCovered'
  BY <1>16 DEF ReadParent
<1>17. ASSUME NEW w \in Writers, Commit(w)
      PROVE  DoneCovered'
  BY <1>17 DEF Commit
<1>18. ASSUME NEW w \in Writers, JobDone(w)
      PROVE  DoneCovered'
  BY <1>18 DEF JobDone
<1>19. ASSUME NEW w \in Writers, RunSucceeded(w)
      PROVE  DoneCovered'
  BY <1>19 DEF RunSucceeded
<1>20. ASSUME NEW w \in Writers, Cleanup(w)
      PROVE  DoneCovered'
  BY <1>20 DEF Cleanup
<1>21. ASSUME NEW w \in Writers, RejectMove(w)
      PROVE  DoneCovered'
  BY <1>21 DEF RejectMove, QuarantineTree
<1>22. ASSUME NEW w \in Writers, RejectRecord(w)
      PROVE  DoneCovered'
  BY <1>22 DEF RejectRecord, RecordQuarantine
<1>23. ASSUME NEW w \in Writers, RejectJob(w)
      PROVE  DoneCovered'
  BY <1>23 DEF RejectJob, JobFailed
<1>24. ASSUME NEW w \in Writers, RejectRun(w)
      PROVE  DoneCovered'
  BY <1>24 DEF RejectRun, RunFailed
<1>25. ASSUME NEW w \in Writers, Raise(w)
      PROVE  DoneCovered'
  BY <1>25 DEF Raise
<1>26. ASSUME NEW w \in Writers, HandleJob(w)
      PROVE  DoneCovered'
  BY <1>26 DEF HandleJob, JobFailed
<1>27. ASSUME NEW w \in Writers, HandleRun(w)
      PROVE  DoneCovered'
  BY <1>27 DEF HandleRun, RunFailed
<1>28. ASSUME NEW w \in Writers, HandleMove(w)
      PROVE  DoneCovered'
  BY <1>28 DEF HandleMove, QuarantineTree
<1>29. ASSUME NEW w \in Writers, HandleNothing(w)
      PROVE  DoneCovered'
  BY <1>29 DEF HandleNothing
<1>30. ASSUME NEW w \in Writers, HandleRecord(w)
      PROVE  DoneCovered'
  BY <1>30 DEF HandleRecord, RecordQuarantine
<1>31. ASSUME NEW w \in Writers, Die(w)
      PROVE  DoneCovered'
  BY <1>31 DEF Die
<1> QED
  BY <1>1, <1>2, <1>3, <1>4, <1>5, <1>6, <1>7, <1>8, <1>9, <1>10, <1>11, <1>12,
     <1>13, <1>14, <1>15, <1>16, <1>17, <1>18, <1>19, <1>20, <1>21, <1>22, <1>23, <1>24,
     <1>25, <1>26, <1>27, <1>28, <1>29, <1>30, <1>31
  DEF Next, Step

(* A job with a succeeded fetch is skipped by the planner, so that no later
   fetch writes its paths or takes back that it is done. *)
LEMMA SucceededStep ==
    SingleWriter /\ TypeOK /\ WritersOwn /\ Chain /\ CommitsOwn /\ JobFollows /\ MovedOwn /\ SucceededKept
        /\ [Next]_vars => SucceededKept'
<1> SUFFICES ASSUME SingleWriter, TypeOK, WritersOwn, Chain, CommitsOwn, JobFollows, MovedOwn, SucceededKept,
                    [Next]_vars
             PROVE  SucceededKept'
  OBVIOUS
<1> USE NoneAssumption DEF SingleWriter, TypeOK, WritersOwn, Chain, CommitsOwn, JobFollows, MovedOwn, SucceededKept, Committed, Current,
    PCs, InTry, BeforeMoves, AfterMoves, Rejecting, Failing, Early, Late,
    runVars, rowVars, snapshotVars, diskVars, locals, Leave, Goto
<1>1. CASE UNCHANGED vars
  BY <1>1 DEF vars
<1>2. CASE NextDay
  BY <1>2 DEF NextDay
<1>3. ASSUME NEW w \in Writers, NEW j \in Jobs, NEW f \in Fetches, Start(w, j, f)
      PROVE  SucceededKept'
  BY <1>3, LatestListsAll DEF Start, ExistingActiveData
<1>4. ASSUME NEW w \in Writers, UpsertJob(w)
      PROVE  SucceededKept'
  BY <1>4 DEF UpsertJob
<1>5. ASSUME NEW w \in Writers, QueryRetry(w)
      PROVE  SucceededKept'
  BY <1>5 DEF QueryRetry
<1>6. ASSUME NEW w \in Writers, QueryOk(w)
      PROVE  SucceededKept'
  BY <1>6 DEF QueryOk
<1>7. ASSUME NEW w \in Writers, WriteRaw(w)
      PROVE  SucceededKept'
  BY <1>7 DEF WriteRaw
<1>8. ASSUME NEW w \in Writers, SchemaCompatible(w)
      PROVE  SucceededKept'
  BY <1>8 DEF SchemaCompatible
<1>9. ASSUME NEW w \in Writers, SchemaIncompatible(w)
      PROVE  SucceededKept'
  BY <1>9 DEF SchemaIncompatible
<1>10. ASSUME NEW w \in Writers, WriteLake(w)
      PROVE  SucceededKept'
  BY <1>10 DEF WriteLake
<1>11. ASSUME NEW w \in Writers, InsertRawRow(w)
      PROVE  SucceededKept'
  BY <1>11 DEF InsertRawRow
<1>12. ASSUME NEW w \in Writers, InsertLakeRow(w)
      PROVE  SucceededKept'
  BY <1>12 DEF InsertLakeRow
<1>13. ASSUME NEW w \in Writers, Validate(w)
      PROVE  SucceededKept'
  <2>1. CASE Goto(w, "moveRaw")
    BY <1>13, <2>1 DEF Validate
  <2>2. CASE Goto(w, "rejectMove")
    BY <1>13, <2>2 DEF Validate
  <2> QED
    BY <1>13, <2>1, <2>2 DEF Validate
<1>14. ASSUME NEW w \in Writers, MoveRaw(w)
      PROVE  SucceededKept'
  BY <1>14 DEF MoveRaw
<1>15. ASSUME NEW w \in Writers, MoveLake(w)
      PROVE  SucceededKept'
  BY <1>15 DEF MoveLake
<1>16. ASSUME NEW w \in Writers, ReadParent(w)
      PROVE  SucceededKept'
  BY <1>16 DEF ReadParent
<1>17. ASSUME NEW w \in Writers, Commit(w)
      PROVE  SucceededKept'
  BY <1>17 DEF Commit
<1>18. ASSUME NEW w \in Writers, JobDone(w)
      PROVE  SucceededKept'
  BY <1>18 DEF JobDone
<1>19. ASSUME NEW w \in Writers, RunSucceeded(w)
      PROVE  SucceededKept'
  BY <1>19 DEF RunSucceeded
<1>20. ASSUME NEW w \in Writers, Cleanup(w)
      PROVE  SucceededKept'
  BY <1>20 DEF Cleanup
<1>21. ASSUME NEW w \in Writers, RejectMove(w)
      PROVE  SucceededKept'
  BY <1>21 DEF RejectMove, QuarantineTree
<1>22. ASSUME NEW w \in Writers, RejectRecord(w)
      PROVE  SucceededKept'
  BY <1>22 DEF RejectRecord, RecordQuarantine
<1>23. ASSUME NEW w \in Writers, RejectJob(w)
      PROVE  SucceededKept'
  BY <1>23 DEF RejectJob, JobFailed
<1>24. ASSUME NEW w \in Writers, RejectRun(w)
      PROVE  SucceededKept'
  BY <1>24 DEF RejectRun, RunFailed
<1>25. ASSUME NEW w \in Writers, Raise(w)
      PROVE  SucceededKept'
  BY <1>25 DEF Raise
<1>26. ASSUME NEW w \in Writers, HandleJob(w)
      PROVE  SucceededKept'
  BY <1>26 DEF HandleJob, JobFailed
<1>27. ASSUME NEW w \in Writers, HandleRun(w)
      PROVE  SucceededKept'
  BY <1>27 DEF HandleRun, RunFailed
<1>28. ASSUME NEW w \in Writers, HandleMove(w)
      PROVE  SucceededKept'
  BY <1>28 DEF HandleMove, QuarantineTree
<1>29. ASSUME NEW w \in Writers, HandleNothing(w)
      PROVE  SucceededKept'
  BY <1>29 DEF HandleNothing
<1>30. ASSUME NEW w \in Writers, HandleRecord(w)
      PROVE  SucceededKept'
  BY <1>30 DEF HandleRecord, RecordQuarantine
<1>31. ASSUME NEW w \in Writers, Die(w)
      PROVE  SucceededKept'
  BY <1>31 DEF Die
<1> QED
  BY <1>1, <1>2, <1>3, <1>4, <1>5, <1>6, <1>7, <1>8, <1>9, <1>10, <1>11, <1>12,
     <1>13, <1>14, <1>15, <1>16, <1>17, <1>18, <1>19, <1>20, <1>21, <1>22, <1>23, <1>24,
     <1>25, <1>26, <1>27, <1>28, <1>29, <1>30, <1>31
  DEF Next, Step

(* Nothing is committed and no job is done at first.                       *)
LEMMA LoneInit == Init => LoneInv
<1> SUFFICES ASSUME Init
             PROVE  LoneInv
  OBVIOUS
<1>1. Committed = {} /\ Current = {}
  BY DEF Init, Committed, Current
<1>2. Chain /\ RowsFollow /\ CommitsOwn /\ ParentIsCurrent /\ DoneCovered
  BY <1>1 DEF Init, Chain, RowsFollow, CommitsOwn, ParentIsCurrent, DoneCovered
<1>3. JobFollows /\ MovedOwn /\ SucceededKept
  BY DEF Init, JobFollows, MovedOwn, SucceededKept, Early, BeforeMoves, AfterMoves
<1> QED
  BY <1>2, <1>3, PathInit DEF LoneInv

(* LoneInv is inductive when one process writes.                           *)
LEMMA LoneStep == SingleWriter /\ LoneInv /\ [Next]_vars => LoneInv'
  BY PathStep, ChainStep, RowsStep, CommitsStep, CurrentStep, JobStep, MovedOwnStep,
     DoneStep, SucceededStep
  DEF LoneInv, PathInv

(* In every state a single writer can reach, LoneInv holds.                *)
THEOREM LoneInvariant == SingleWriter => (Spec => []LoneInv)
<1> SUFFICES ASSUME SingleWriter
             PROVE  Spec => []LoneInv
  OBVIOUS
<1>1. LoneInv /\ [Next]_vars => LoneInv'
  BY LoneStep
<1> QED
  BY <1>1, LoneInit, PTL DEF Spec

(* With a single writer the checksums that the catalog holds of a          *)
(* succeeded fetch match its files for ever: for any number of jobs, later *)
(* fetches, deaths and errors.                                             *)
THEOREM SucceededStaysIntact == SingleWriter => (Spec => []SucceededFetchIntact)
<1> SUFFICES ASSUME SingleWriter
             PROVE  Spec => []SucceededFetchIntact
  OBVIOUS
<1>1. LoneInv => SucceededFetchIntact
  <2> SUFFICES ASSUME LoneInv, NEW f \in LatestFiles, run[f] = "succeeded"
               PROVE  lake[jobOf[f]] = f /\ raw[<<jobOf[f], dayOf[f]>>] = f
    BY DEF SucceededFetchIntact
  <2>1. f \in Fetches
    BY LatestListsAll DEF LoneInv, PathInv, Committed
  <2> QED
    BY <2>1 DEF LoneInv, SucceededKept
<1> QED
  BY <1>1, LoneInvariant, PTL

(* With a single writer no update is lost: the snapshots form one chain,   *)
(* whose end lists every row that any transaction has activated.           *)
THEOREM ChainUnbroken == SingleWriter => (Spec => []SnapshotChain)
<1> SUFFICES ASSUME SingleWriter
             PROVE  Spec => []SnapshotChain
  OBVIOUS
<1>1. LoneInv => SnapshotChain
  <2> SUFFICES ASSUME LoneInv
               PROVE  SnapshotChain
    OBVIOUS
  <2>1. Cardinality(Current) <= 1
    <3>1. CASE Current = {}
      BY <3>1, FS_EmptySet
    <3>2. ASSUME NEW s \in Current
          PROVE  Cardinality(Current) <= 1
      <4>1. Current = {s}
        BY DEF LoneInv, Chain
      <4> QED
        BY <4>1, FS_Singleton
    <3> QED
      BY <3>1, <3>2
  <2>2. LatestFiles = {f \in Fetches : "current" \in {rawRow[f], lakeRow[f]}}
    <3>1. LatestFiles = Committed
      BY LatestListsAll DEF LoneInv, PathInv
    <3> QED
      BY <3>1 DEF LoneInv, RowsFollow, Committed
  <2> QED
    BY <2>1, <2>2 DEF SnapshotChain
<1> QED
  BY <1>1, LoneInvariant, PTL

(* With a single writer a job that the planner skips has its data in the   *)
(* latest snapshot, whatever failed or died before.                        *)
THEOREM DoneIsActive == SingleWriter => (Spec => []DoneMeansActive)
<1> SUFFICES ASSUME SingleWriter
             PROVE  Spec => []DoneMeansActive
  OBVIOUS
<1>1. LoneInv => DoneMeansActive
  BY LatestListsAll DEF LoneInv, PathInv, DoneCovered, DoneMeansActive
<1> QED
  BY <1>1, LoneInvariant, PTL

-----------------------------------------------------------------------------
(* The refinement of DatasetLog by a single writer *)

(* What a reader of the latest snapshot meets, what was ever committed,    *)
(* and the done jobs.                                                      *)
LogTable == {<<jobOf[f], f>> : f \in LatestFiles}
Table == {<<jobOf[f], f>> : f \in Committed}
DoneJobs == {j \in Jobs : job[j] = "done"}

(* The latest snapshot lists all that was committed, ...                   *)
LEMMA LogIs == LoneInv => LogTable = Table
  BY LatestListsAll DEF LoneInv, PathInv, LogTable, Table

(* ... also after the step.                                                *)
LEMMA LogIsNext == LoneInv' => (LogTable = Table)'
  BY LogIs, PTL

(* A step is one of the log as soon as it is one on what was committed.    *)
LEMMA LogNext ==
    ASSUME LoneInv, LoneInv',
           \/ UNCHANGED <<Table, checkpoint, DoneJobs>>
           \/ \E j \in Jobs :
                \/ \E f \in Fetches :
                     /\ j \notin DoneJobs
                     /\ \A k \in Jobs : <<k, f>> \notin Table
                     /\ Table' = Table \union {<<j, f>>}
                     /\ checkpoint' = checkpoint \union {j}
                     /\ DoneJobs' = DoneJobs
                \/ /\ \E f \in Fetches : <<j, f>> \in Table
                   /\ DoneJobs' = DoneJobs \union {j}
                   /\ Table' = Table /\ checkpoint' = checkpoint
                \/ /\ DoneJobs' = DoneJobs \ {j}
                   /\ Table' = Table /\ checkpoint' = checkpoint
    PROVE  [Log!Next]_(Log!logVars)
<1>1. LogTable = Table /\ LogTable' = Table'
  BY LogIs, LogIsNext
<1> QED
  BY <1>1
  DEF LogTable, Log!Next, Log!Append, Log!Acknowledge, Log!Retract, Log!Covered,
      Log!logVars, DoneJobs

(* A fetch is appended by its commit, a job acknowledged by the update     *)
(* after it and taken back when it starts or fails again; nothing else     *)
(* shows in the log.                                                       *)
LEMMA LogStep == SingleWriter /\ LoneInv /\ LoneInv' /\ [Next]_vars => [Log!Next]_(Log!logVars)
<1> SUFFICES ASSUME SingleWriter, LoneInv, LoneInv', [Next]_vars
             PROVE  [Log!Next]_(Log!logVars)
  OBVIOUS
<1> USE DEF runVars, rowVars, snapshotVars, diskVars, locals, Leave, Goto
<1>a. TypeOK /\ WritersOwn
  BY DEF LoneInv, PathInv
<1>b. ASSUME UNCHANGED <<jobOf, snap, checkpoint, job>>
      PROVE  [Log!Next]_(Log!logVars)
  <2>1. UNCHANGED <<Table, checkpoint, DoneJobs>>
    BY <1>b DEF Table, DoneJobs, Committed
  <2> QED
    BY <2>1, LogNext
<1>c. ASSUME NEW j \in Jobs, NEW s \in {"running", "failed"},
             job' = [job EXCEPT ![j] = s], UNCHANGED <<jobOf, snap, checkpoint>>
      PROVE  [Log!Next]_(Log!logVars)
  <2>1. Table' = Table
    BY <1>c DEF Table, Committed
  <2>2. DoneJobs' = DoneJobs \ {j}
    BY <1>a, <1>c DEF DoneJobs, TypeOK
  <2> QED
    BY <1>c, <2>1, <2>2, LogNext
<1>1. CASE UNCHANGED vars
  BY <1>1, <1>b DEF vars
<1>2. CASE NextDay
  BY <1>2, <1>b DEF NextDay
<1>3. ASSUME NEW w \in Writers, NEW j \in Jobs, NEW f \in Fetches, Start(w, j, f)
      PROVE  [Log!Next]_(Log!logVars)
  <2>1. f \notin Committed
    BY <1>3 DEF Start, LoneInv, CommitsOwn
  <2>2. Committed' = Committed /\ \A g \in Committed : jobOf'[g] = jobOf[g]
    BY <1>a, <1>3, <2>1 DEF Start, Committed, TypeOK
  <2>3. UNCHANGED <<Table, checkpoint, DoneJobs>>
    BY <1>3, <2>2 DEF Start, Table, DoneJobs
  <2> QED
    BY <2>3, LogNext
<1>4. ASSUME NEW w \in Writers, UpsertJob(w)
      PROVE  [Log!Next]_(Log!logVars)
  <2>1. jobOf[mine[w]] \in Jobs
    BY <1>a, <1>4 DEF WritersOwn, UpsertJob
  <2> QED
    BY <1>4, <2>1, <1>c DEF UpsertJob
<1>5. ASSUME NEW w \in Writers, QueryRetry(w)
      PROVE  [Log!Next]_(Log!logVars)
  BY <1>5, <1>b DEF QueryRetry
<1>6. ASSUME NEW w \in Writers, QueryOk(w)
      PROVE  [Log!Next]_(Log!logVars)
  BY <1>6, <1>b DEF QueryOk
<1>7. ASSUME NEW w \in Writers, WriteRaw(w)
      PROVE  [Log!Next]_(Log!logVars)
  BY <1>7, <1>b DEF WriteRaw
<1>8. ASSUME NEW w \in Writers, SchemaCompatible(w)
      PROVE  [Log!Next]_(Log!logVars)
  BY <1>8, <1>b DEF SchemaCompatible
<1>9. ASSUME NEW w \in Writers, SchemaIncompatible(w)
      PROVE  [Log!Next]_(Log!logVars)
  BY <1>9, <1>b DEF SchemaIncompatible
<1>10. ASSUME NEW w \in Writers, WriteLake(w)
      PROVE  [Log!Next]_(Log!logVars)
  BY <1>10, <1>b DEF WriteLake
<1>11. ASSUME NEW w \in Writers, InsertRawRow(w)
      PROVE  [Log!Next]_(Log!logVars)
  BY <1>11, <1>b DEF InsertRawRow
<1>12. ASSUME NEW w \in Writers, InsertLakeRow(w)
      PROVE  [Log!Next]_(Log!logVars)
  BY <1>12, <1>b DEF InsertLakeRow
<1>13. ASSUME NEW w \in Writers, Validate(w)
      PROVE  [Log!Next]_(Log!logVars)
  BY <1>13, <1>b DEF Validate
<1>14. ASSUME NEW w \in Writers, MoveRaw(w)
      PROVE  [Log!Next]_(Log!logVars)
  BY <1>14, <1>b DEF MoveRaw
<1>15. ASSUME NEW w \in Writers, MoveLake(w)
      PROVE  [Log!Next]_(Log!logVars)
  BY <1>15, <1>b DEF MoveLake
<1>16. ASSUME NEW w \in Writers, ReadParent(w)
      PROVE  [Log!Next]_(Log!logVars)
  BY <1>16, <1>b DEF ReadParent
<1>17. ASSUME NEW w \in Writers, Commit(w)
      PROVE  [Log!Next]_(Log!logVars)
  <2> DEFINE g == mine[w]
  <2>1. /\ g \in Fetches /\ jobOf[g] \in Jobs
        /\ g \notin Committed
        /\ job[jobOf[g]] = "running"
    BY <1>a, <1>17 DEF Commit, WritersOwn, LoneInv, CommitsOwn, JobFollows, Early
  <2>2. Committed' = Committed \union {g}
    <3>1. parent[w] = None \/ parent[w] \in Committed
      BY <1>a DEF LoneInv, PathInv, ParentsCommitted
    <3> QED
      BY <1>a, <1>17, <2>1, <3>1, NoneAssumption DEF Commit, Committed, TypeOK
  <2>3. Table' = Table \union {<<jobOf[g], g>>}
    BY <1>17, <2>2 DEF Commit, Table
  <2>4. \A k \in Jobs : <<k, g>> \notin Table
    BY <2>1 DEF Table
  <2>5. jobOf[g] \notin DoneJobs /\ DoneJobs' = DoneJobs
    BY <1>17, <2>1 DEF Commit, DoneJobs
  <2>6. checkpoint' = checkpoint \union {jobOf[g]}
    BY <1>17 DEF Commit
  <2> HIDE DEF g
  <2> QED
    BY <2>1, <2>3, <2>4, <2>5, <2>6, LogNext
<1>18. ASSUME NEW w \in Writers, JobDone(w)
      PROVE  [Log!Next]_(Log!logVars)
  <2> DEFINE g == mine[w]
  <2>1. g \in Committed /\ jobOf[g] \in Jobs
    BY <1>a, <1>18 DEF JobDone, WritersOwn, LoneInv, CommitsOwn
  <2>2. g \in Fetches /\ <<jobOf[g], g>> \in Table
    BY <2>1 DEF Table, Committed
  <2>3. DoneJobs' = DoneJobs \union {jobOf[g]}
    BY <1>a, <1>18, <2>1 DEF JobDone, DoneJobs, TypeOK
  <2>4. Table' = Table /\ checkpoint' = checkpoint
    BY <1>18 DEF JobDone, Table, Committed
  <2> HIDE DEF g
  <2> QED
    BY <2>1, <2>2, <2>3, <2>4, LogNext
<1>19. ASSUME NEW w \in Writers, RunSucceeded(w)
      PROVE  [Log!Next]_(Log!logVars)
  BY <1>19, <1>b DEF RunSucceeded
<1>20. ASSUME NEW w \in Writers, Cleanup(w)
      PROVE  [Log!Next]_(Log!logVars)
  BY <1>20, <1>b DEF Cleanup
<1>21. ASSUME NEW w \in Writers, RejectMove(w)
      PROVE  [Log!Next]_(Log!logVars)
  BY <1>21, <1>b DEF RejectMove, QuarantineTree
<1>22. ASSUME NEW w \in Writers, RejectRecord(w)
      PROVE  [Log!Next]_(Log!logVars)
  BY <1>22, <1>b DEF RejectRecord, RecordQuarantine
<1>23. ASSUME NEW w \in Writers, RejectJob(w)
      PROVE  [Log!Next]_(Log!logVars)
  <2>1. jobOf[mine[w]] \in Jobs
    BY <1>a, <1>23 DEF WritersOwn, RejectJob
  <2> QED
    BY <1>23, <2>1, <1>c DEF RejectJob, JobFailed
<1>24. ASSUME NEW w \in Writers, RejectRun(w)
      PROVE  [Log!Next]_(Log!logVars)
  BY <1>24, <1>b DEF RejectRun, RunFailed
<1>25. ASSUME NEW w \in Writers, Raise(w)
      PROVE  [Log!Next]_(Log!logVars)
  BY <1>25, <1>b DEF Raise
<1>26. ASSUME NEW w \in Writers, HandleJob(w)
      PROVE  [Log!Next]_(Log!logVars)
  <2>1. jobOf[mine[w]] \in Jobs
    BY <1>a, <1>26 DEF WritersOwn, HandleJob
  <2> QED
    BY <1>26, <2>1, <1>c DEF HandleJob, JobFailed
<1>27. ASSUME NEW w \in Writers, HandleRun(w)
      PROVE  [Log!Next]_(Log!logVars)
  BY <1>27, <1>b DEF HandleRun, RunFailed
<1>28. ASSUME NEW w \in Writers, HandleMove(w)
      PROVE  [Log!Next]_(Log!logVars)
  BY <1>28, <1>b DEF HandleMove, QuarantineTree
<1>29. ASSUME NEW w \in Writers, HandleNothing(w)
      PROVE  [Log!Next]_(Log!logVars)
  BY <1>29, <1>b DEF HandleNothing
<1>30. ASSUME NEW w \in Writers, HandleRecord(w)
      PROVE  [Log!Next]_(Log!logVars)
  BY <1>30, <1>b DEF HandleRecord, RecordQuarantine
<1>31. ASSUME NEW w \in Writers, Die(w)
      PROVE  [Log!Next]_(Log!logVars)
  BY <1>31, <1>b DEF Die
<1> QED
  BY <1>1, <1>2, <1>3, <1>4, <1>5, <1>6, <1>7, <1>8, <1>9, <1>10, <1>11, <1>12,
     <1>13, <1>14, <1>15, <1>16, <1>17, <1>18, <1>19, <1>20, <1>21, <1>22, <1>23, <1>24,
     <1>25, <1>26, <1>27, <1>28, <1>29, <1>30, <1>31
  DEF Next, Step

(* With a single writer the write path implements the log of DatasetLog:   *)
(* for a reader the data of a fetch, its cursor and its place in the table *)
(* appear at once, and a job is acknowledged only when it is in the table. *)
THEOREM RefinesDatasetLog == SingleWriter => (Spec => ImplementsDatasetLog)
<1> SUFFICES ASSUME SingleWriter
             PROVE  Spec => ImplementsDatasetLog
  OBVIOUS
<1>1. Init => Log!Init
  <2> SUFFICES ASSUME Init
               PROVE  Log!Init
    OBVIOUS
  <2>1. Current = {} /\ DoneJobs = {}
    BY DEF Init, Current, DoneJobs
  <2>2. LatestFiles = {}
    BY <2>1 DEF LatestFiles, Latest
  <2> QED
    BY <2>1, <2>2 DEF Init, Log!Init, DoneJobs
<1>2. LoneInv /\ LoneInv' /\ [Next]_vars => [Log!Next]_(Log!logVars)
  BY LogStep
<1> QED
  BY <1>1, <1>2, LoneInvariant, PTL DEF Spec, ImplementsDatasetLog, Log!Spec
=============================================================================
