------------------------------ MODULE FileLake ------------------------------
(***************************************************************************)
(* The write path of the file lake: FileLakeStore.fetch (store.py) with    *)
(* the catalog transactions it issues (catalog.py), the skip decision of   *)
(* JobPlanner.plan_single_fetch (planner.py) and the moves on disk         *)
(* (io_utils.py), for the jobs of one api.                                 *)
(*                                                                         *)
(* A fetch is one call of FileLakeStore.fetch that got past the skip test. *)
(* It owns a run, a raw and a lake file row and, when it commits, one      *)
(* snapshot; these are fresh uuids in the code and are all named by the    *)
(* fetch here.  What a fetch writes contains its run id and its time, so   *)
(* the bytes of two fetches never agree: the content of a file is the      *)
(* fetch that wrote it.                                                    *)
(*                                                                         *)
(* One action is one catalog transaction, one file operation or one read   *)
(* of the catalog.  The process may die between any two of them, and any   *)
(* of them may raise.                                                      *)
(***************************************************************************)
EXTENDS Naturals, FiniteSets

CONSTANTS
    Writers,   \* processes that call fetch on this root
    Jobs,      \* job keys of the api
    Fetches,   \* identities of fetches; their number bounds a behaviour
    Days,      \* calendar days, in the ingest_date of a raw path
    MaxTries,  \* the max_attempts argument of fetch
    None       \* no fetch, no job, no day

ASSUME NoneAssumption == None \notin Fetches /\ None \notin Jobs /\ None \notin Days
ASSUME FetchesAssumption == IsFiniteSet(Fetches)
ASSUME DaysAssumption == Days \subseteq Nat
ASSUME TriesAssumption == MaxTries \in Nat \ {0}

VARIABLES
    \* the catalog
    run,          \* ingestion_runs: status of the run of a fetch
    jobOf, dayOf, \* the job and the day a fetch was planned with
    job,          \* jobs: status of a job key
    rawRow,       \* files: status of the raw row of a fetch
    lakeRow,      \* files: status of the lake row of a fetch
    snap,         \* snapshots: status of the snapshot a fetch committed
    seq,          \* ... its sequence number
    created,      \* ... its place in the order of creation
    members,      \* snapshot_files: the fetches whose rows it lists
    checkpoint,   \* checkpoint_state: job keys with a committed cursor
    schemaKnown,  \* schemas: whether the api has a registered schema
    quarantined,  \* quarantine_files: fetches with a quarantine row
    \* the disk
    lake,         \* lake/.../part-<key>.parquet: who wrote the file of a job
    raw,          \* raw/.../ingest_date=<day>/<key>.jsonl.zst: who wrote it
    tmp,          \* _tmp/run_id=<fetch>: the directory and what it holds
    qdir,         \* _quarantine/run_id=<fetch>/...: likewise
    today,        \* the wall clock's day
    \* the writers
    pc,           \* where a writer is in fetch
    mine,         \* its fetch
    parent,       \* the parent snapshot commit_snapshot has read
    tries         \* attempts of _query_with_retry

runVars == <<run, jobOf, dayOf>>
rowVars == <<rawRow, lakeRow>>
snapshotVars == <<snap, seq, created, members, checkpoint>>
diskVars == <<lake, raw, tmp, qdir>>
locals == <<mine, parent, tries>>
vars == <<run, jobOf, dayOf, job, rawRow, lakeRow, snap, seq, created, members,
          checkpoint, schemaKnown, quarantined, lake, raw, tmp, qdir, today,
          pc, mine, parent, tries>>

-----------------------------------------------------------------------------
(* Types *)

Kinds == {"raw", "lake"}
Entries == {"dir", "raw", "lake"}
JobStatus == {"none", "running", "failed", "done"}
RunStatus == {"none", "running", "succeeded", "failed"}
RowStatus == {"none", "staged", "current"}
SnapshotStatus == {"none", "current", "superseded"}

BeforeMoves == {"query", "writeRaw", "prepare", "writeLake", "insertRaw",
                "insertLake", "validate", "moveRaw"}
AfterMoves == {"readParent", "commit", "jobDone", "finishRun"}
Rejecting == {"rejectMove", "rejectRecord", "rejectJob", "rejectRun"}
Failing == {"failJob", "failRun", "failMove", "failRecord"}
InTry == BeforeMoves \union {"moveLake"} \union AfterMoves \union Rejecting
PCs == {"idle", "started", "cleanup"} \union InTry \union Failing

(* Every variable holds a value of its column, path or local.              *)
TypeOK ==
    /\ run \in [Fetches -> RunStatus]
    /\ jobOf \in [Fetches -> Jobs \union {None}]
    /\ dayOf \in [Fetches -> Days \union {None}]
    /\ job \in [Jobs -> JobStatus]
    /\ rawRow \in [Fetches -> RowStatus]
    /\ lakeRow \in [Fetches -> RowStatus]
    /\ snap \in [Fetches -> SnapshotStatus]
    /\ seq \in [Fetches -> Nat]
    /\ created \in [Fetches -> Nat]
    /\ members \in [Fetches -> SUBSET Fetches]
    /\ checkpoint \in SUBSET Jobs
    /\ schemaKnown \in BOOLEAN
    /\ quarantined \in SUBSET Fetches
    /\ lake \in [Jobs -> Fetches \union {None}]
    /\ raw \in [Jobs \X Days -> Fetches \union {None}]
    /\ tmp \in [Fetches -> SUBSET Entries]
    /\ qdir \in [Fetches -> SUBSET Entries]
    /\ today \in Days
    /\ pc \in [Writers -> PCs]
    /\ mine \in [Writers -> Fetches \union {None}]
    /\ parent \in [Writers -> Fetches \union {None}]
    /\ tries \in [Writers -> 0..MaxTries]

-----------------------------------------------------------------------------
(* Catalog queries *)

Committed == {f \in Fetches : snap[f] # "none"}
Current == {f \in Fetches : snap[f] = "current"}

(* latest_snapshot: status current, by sequence, then by creation time.    *)
Latest ==
    {s \in Current : \A t \in Current :
        \/ seq[t] < seq[s]
        \/ seq[t] = seq[s] /\ created[t] <= created[s]}

LatestFiles == UNION {members[s] : s \in Latest}

(* Mutant: forgets that a done job need not be fetched again.              *)
ExistingActiveDataNever(j) == FALSE

(* plan_single_fetch: the job is done and the latest snapshot holds a lake *)
(* row of it.  No code of the mirror gives a row a blocked status.         *)
ExistingActiveData(j) ==
    /\ job[j] = "done"
    /\ \E f \in LatestFiles : jobOf[f] = j

-----------------------------------------------------------------------------
Init ==
    /\ run = [f \in Fetches |-> "none"]
    /\ jobOf = [f \in Fetches |-> None]
    /\ dayOf = [f \in Fetches |-> None]
    /\ job = [j \in Jobs |-> "none"]
    /\ rawRow = [f \in Fetches |-> "none"]
    /\ lakeRow = [f \in Fetches |-> "none"]
    /\ snap = [f \in Fetches |-> "none"]
    /\ seq = [f \in Fetches |-> 0]
    /\ created = [f \in Fetches |-> 0]
    /\ members = [f \in Fetches |-> {}]
    /\ checkpoint = {}
    /\ schemaKnown = FALSE
    /\ quarantined = {}
    /\ lake = [j \in Jobs |-> None]
    /\ raw = [p \in Jobs \X Days |-> None]
    /\ tmp = [f \in Fetches |-> {}]
    /\ qdir = [f \in Fetches |-> {}]
    /\ today \in {d \in Days : \A e \in Days : d <= e}
    /\ pc = [w \in Writers |-> "idle"]
    /\ mine = [w \in Writers |-> None]
    /\ parent = [w \in Writers |-> None]
    /\ tries = [w \in Writers |-> 0]

Goto(w, next) == pc' = [pc EXCEPT ![w] = next]

(* The call is over or the process is gone: nothing local is left.         *)
Leave(w) ==
    /\ pc' = [pc EXCEPT ![w] = "idle"]
    /\ mine' = [mine EXCEPT ![w] = None]
    /\ parent' = [parent EXCEPT ![w] = None]
    /\ tries' = [tries EXCEPT ![w] = 0]

-----------------------------------------------------------------------------
(* Starting a fetch *)

(* The plan reads the catalog and fixes the paths; create_run inserts a    *)
(* row nobody else knows.  A fetch of a job with existing active data      *)
(* returns at once and changes nothing.                                    *)
Start(w, j, f) ==
    /\ pc[w] = "idle"
    /\ run[f] = "none"
    /\ ~ExistingActiveData(j)
    /\ run' = [run EXCEPT ![f] = "running"]
    /\ jobOf' = [jobOf EXCEPT ![f] = j]
    /\ dayOf' = [dayOf EXCEPT ![f] = today]
    /\ mine' = [mine EXCEPT ![w] = f]
    /\ Goto(w, "started")
    /\ UNCHANGED <<job, rowVars, snapshotVars, schemaKnown, quarantined, diskVars,
                   today, parent, tries>>

UpsertJob(w) ==
    /\ pc[w] = "started"
    /\ job' = [job EXCEPT ![jobOf[mine[w]]] = "running"]
    /\ tries' = [tries EXCEPT ![w] = 1]
    /\ Goto(w, "query")
    /\ UNCHANGED <<runVars, rowVars, snapshotVars, schemaKnown, quarantined,
                   diskVars, today, mine, parent>>

-----------------------------------------------------------------------------
(* The body of the try block *)

(* Mutant: the retry loop never gives up.                                  *)
QueryRetryForever(w) ==
    /\ pc[w] = "query"
    /\ tries' = [tries EXCEPT ![w] = @ + 1]
    /\ UNCHANGED <<runVars, job, rowVars, snapshotVars, schemaKnown, quarantined,
                   diskVars, today, pc, mine, parent>>

(* A retryable error of the api, with attempts left.                       *)
QueryRetry(w) ==
    /\ pc[w] = "query"
    /\ tries[w] < MaxTries
    /\ tries' = [tries EXCEPT ![w] = @ + 1]
    /\ UNCHANGED <<runVars, job, rowVars, snapshotVars, schemaKnown, quarantined,
                   diskVars, today, pc, mine, parent>>

QueryOk(w) ==
    /\ pc[w] = "query"
    /\ tries' = [tries EXCEPT ![w] = 0]
    /\ Goto(w, "writeRaw")
    /\ UNCHANGED <<runVars, job, rowVars, snapshotVars, schemaKnown, quarantined,
                   diskVars, today, mine, parent>>

WriteRaw(w) ==
    /\ pc[w] = "writeRaw"
    /\ tmp' = [tmp EXCEPT ![mine[w]] = @ \union {"dir", "raw"}]
    /\ Goto(w, "prepare")
    /\ UNCHANGED <<runVars, job, rowVars, snapshotVars, schemaKnown, quarantined,
                   lake, raw, qdir, today, locals>>

(* SchemaRegistry.prepare and, for a compatible schema, commit.            *)
SchemaCompatible(w) ==
    /\ pc[w] = "prepare"
    /\ schemaKnown' = TRUE
    /\ Goto(w, "writeLake")
    /\ UNCHANGED <<runVars, job, rowVars, snapshotVars, quarantined, diskVars,
                   today, locals>>

(* Only against a schema already registered; the change is recorded.       *)
SchemaIncompatible(w) ==
    /\ pc[w] = "prepare"
    /\ schemaKnown
    /\ Goto(w, "rejectMove")
    /\ UNCHANGED <<runVars, job, rowVars, snapshotVars, schemaKnown, quarantined,
                   diskVars, today, locals>>

WriteLake(w) ==
    /\ pc[w] = "writeLake"
    /\ tmp' = [tmp EXCEPT ![mine[w]] = @ \union {"lake"}]
    /\ Goto(w, "insertRaw")
    /\ UNCHANGED <<runVars, job, rowVars, snapshotVars, schemaKnown, quarantined,
                   lake, raw, qdir, today, locals>>

InsertRawRow(w) ==
    /\ pc[w] = "insertRaw"
    /\ rawRow' = [rawRow EXCEPT ![mine[w]] = "staged"]
    /\ Goto(w, "insertLake")
    /\ UNCHANGED <<runVars, job, lakeRow, snapshotVars, schemaKnown, quarantined,
                   diskVars, today, locals>>

InsertLakeRow(w) ==
    /\ pc[w] = "insertLake"
    /\ lakeRow' = [lakeRow EXCEPT ![mine[w]] = "staged"]
    /\ Goto(w, "validate")
    /\ UNCHANGED <<runVars, job, rawRow, snapshotVars, schemaKnown, quarantined,
                   diskVars, today, locals>>

(* validate_file_rows on the staged files, either verdict.                 *)
Validate(w) ==
    /\ pc[w] = "validate"
    /\ Goto(w, "moveRaw") \/ Goto(w, "rejectMove")
    /\ UNCHANGED <<runVars, job, rowVars, snapshotVars, schemaKnown, quarantined,
                   diskVars, today, locals>>

(* atomic_move is os.replace: whatever was at the path is overwritten.     *)
MoveRaw(w) ==
    /\ pc[w] = "moveRaw"
    /\ raw' = [raw EXCEPT ![<<jobOf[mine[w]], dayOf[mine[w]]>>] = mine[w]]
    /\ tmp' = [tmp EXCEPT ![mine[w]] = @ \ {"raw"}]
    /\ Goto(w, "moveLake")
    /\ UNCHANGED <<runVars, job, rowVars, snapshotVars, schemaKnown, quarantined,
                   lake, qdir, today, locals>>

(* Mutant: goes on to the commit without moving the parquet file.          *)
MoveLakeForgotten(w) ==
    /\ pc[w] = "moveLake"
    /\ Goto(w, "readParent")
    /\ UNCHANGED <<runVars, job, rowVars, snapshotVars, schemaKnown, quarantined,
                   diskVars, today, locals>>

(* The move, and the two updates of staged_path that follow it: the rows   *)
(* stay staged.                                                            *)
MoveLake(w) ==
    /\ pc[w] = "moveLake"
    /\ lake' = [lake EXCEPT ![jobOf[mine[w]]] = mine[w]]
    /\ tmp' = [tmp EXCEPT ![mine[w]] = @ \ {"lake"}]
    /\ Goto(w, "readParent")
    /\ UNCHANGED <<runVars, job, rowVars, snapshotVars, schemaKnown, quarantined,
                   raw, qdir, today, locals>>

(* Mutant: marks the job done before the snapshot is committed.            *)
ReadParentMarksDone(w) ==
    /\ pc[w] = "readParent"
    /\ job' = [job EXCEPT ![jobOf[mine[w]]] = "done"]
    /\ \E p \in IF Current = {} THEN {None} ELSE Latest :
         parent' = [parent EXCEPT ![w] = p]
    /\ Goto(w, "commit")
    /\ UNCHANGED <<runVars, rowVars, snapshotVars, schemaKnown, quarantined,
                   diskVars, today, mine, tries>>

(* commit_snapshot reads the parent before it opens its transaction.       *)
ReadParent(w) ==
    /\ pc[w] = "readParent"
    /\ \E p \in IF Current = {} THEN {None} ELSE Latest :
         parent' = [parent EXCEPT ![w] = p]
    /\ Goto(w, "commit")
    /\ UNCHANGED <<runVars, job, rowVars, snapshotVars, schemaKnown, quarantined,
                   diskVars, today, mine, tries>>

(* Mutant: the new snapshot does not inherit the files of its parent.      *)
InheritedNothing(p) == {}

(* The files and the sequence number a snapshot takes over from a parent.  *)
Inherited(p) == IF p = None THEN {} ELSE members[p]
NextSeq(p) == IF p = None THEN 1 ELSE seq[p] + 1

(* Mutant: the checkpoint is not part of the commit.                       *)
CommitWithoutCursor(w) ==
    /\ pc[w] = "commit"
    /\ snap' = [s \in Fetches |-> IF s = mine[w] THEN "current"
                                  ELSE IF s = parent[w] THEN "superseded" ELSE snap[s]]
    /\ seq' = [seq EXCEPT ![mine[w]] = NextSeq(parent[w])]
    /\ created' = [created EXCEPT ![mine[w]] = Cardinality(Committed)]
    /\ members' = [members EXCEPT ![mine[w]] = Inherited(parent[w]) \union {mine[w]}]
    /\ rawRow' = [rawRow EXCEPT ![mine[w]] = "current"]
    /\ lakeRow' = [lakeRow EXCEPT ![mine[w]] = "current"]
    /\ parent' = [parent EXCEPT ![w] = None]
    /\ Goto(w, "jobDone")
    /\ UNCHANGED <<runVars, job, checkpoint, schemaKnown, quarantined, diskVars,
                   today, mine, tries>>

(* The one transaction that supersedes the parent, adds the snapshot with  *)
(* the parent's files, activates the rows and moves the checkpoint.        *)
Commit(w) ==
    /\ pc[w] = "commit"
    /\ snap' = [s \in Fetches |-> IF s = mine[w] THEN "current"
                                  ELSE IF s = parent[w] THEN "superseded" ELSE snap[s]]
    /\ seq' = [seq EXCEPT ![mine[w]] = NextSeq(parent[w])]
    /\ created' = [created EXCEPT ![mine[w]] = Cardinality(Committed)]
    /\ members' = [members EXCEPT ![mine[w]] = Inherited(parent[w]) \union {mine[w]}]
    /\ rawRow' = [rawRow EXCEPT ![mine[w]] = "current"]
    /\ lakeRow' = [lakeRow EXCEPT ![mine[w]] = "current"]
    /\ checkpoint' = checkpoint \union {jobOf[mine[w]]}
    /\ parent' = [parent EXCEPT ![w] = None]
    /\ Goto(w, "jobDone")
    /\ UNCHANGED <<runVars, job, schemaKnown, quarantined, diskVars, today, mine,
                   tries>>

JobDone(w) ==
    /\ pc[w] = "jobDone"
    /\ job' = [job EXCEPT ![jobOf[mine[w]]] = "done"]
    /\ Goto(w, "finishRun")
    /\ UNCHANGED <<runVars, rowVars, snapshotVars, schemaKnown, quarantined,
                   diskVars, today, locals>>

RunSucceeded(w) ==
    /\ pc[w] = "finishRun"
    /\ run' = [run EXCEPT ![mine[w]] = "succeeded"]
    /\ Goto(w, "cleanup")
    /\ UNCHANGED <<jobOf, dayOf, job, rowVars, snapshotVars, schemaKnown,
                   quarantined, diskVars, today, locals>>

(* rmtree of the temporary directory, then the result is returned.         *)
Cleanup(w) ==
    /\ pc[w] = "cleanup"
    /\ tmp' = [tmp EXCEPT ![mine[w]] = {}]
    /\ Leave(w)
    /\ UNCHANGED <<runVars, job, rowVars, snapshotVars, schemaKnown, quarantined,
                   lake, raw, qdir, today>>

-----------------------------------------------------------------------------
(* The two early returns, for an incompatible schema and for a failed      *)
(* validation, and the exception handler; they differ in their order.      *)

(* _quarantine and the handler move the whole temporary directory.         *)
QuarantineTree(w) ==
    /\ qdir' = [qdir EXCEPT ![mine[w]] = @ \union tmp[mine[w]]]
    /\ tmp' = [tmp EXCEPT ![mine[w]] = {}]
    /\ UNCHANGED <<runVars, job, rowVars, snapshotVars, schemaKnown, quarantined,
                   lake, raw, today>>

RecordQuarantine(w) ==
    /\ quarantined' = quarantined \union {mine[w]}
    /\ UNCHANGED <<runVars, job, rowVars, snapshotVars, schemaKnown, diskVars, today>>

(* Mutant: the failure paths report the job as done.                       *)
JobFailedAsDone(w) ==
    /\ job' = [job EXCEPT ![jobOf[mine[w]]] = "done"]
    /\ UNCHANGED <<runVars, rowVars, snapshotVars, schemaKnown, quarantined,
                   diskVars, today>>

JobFailed(w) ==
    /\ job' = [job EXCEPT ![jobOf[mine[w]]] = "failed"]
    /\ UNCHANGED <<runVars, rowVars, snapshotVars, schemaKnown, quarantined,
                   diskVars, today>>

RunFailed(w) ==
    /\ run' = [run EXCEPT ![mine[w]] = "failed"]
    /\ UNCHANGED <<jobOf, dayOf, job, rowVars, snapshotVars, schemaKnown,
                   quarantined, diskVars, today>>

RejectMove(w) ==
    pc[w] = "rejectMove" /\ QuarantineTree(w) /\ Goto(w, "rejectRecord") /\ UNCHANGED locals
RejectRecord(w) ==
    pc[w] = "rejectRecord" /\ RecordQuarantine(w) /\ Goto(w, "rejectJob") /\ UNCHANGED locals
RejectJob(w) ==
    pc[w] = "rejectJob" /\ JobFailed(w) /\ Goto(w, "rejectRun") /\ UNCHANGED locals
RejectRun(w) ==
    pc[w] = "rejectRun" /\ RunFailed(w) /\ Leave(w)

(* Any step of the try block may raise; a write of a temporary file may    *)
(* leave a part of the file behind, which is then quarantined as written.  *)
Raise(w) ==
    /\ pc[w] \in InTry
    /\ \/ UNCHANGED tmp
       \/ /\ pc[w] = "writeRaw"
          /\ tmp' = [tmp EXCEPT ![mine[w]] = @ \union {"dir", "raw"}]
       \/ /\ pc[w] = "writeLake"
          /\ tmp' = [tmp EXCEPT ![mine[w]] = @ \union {"lake"}]
    /\ parent' = [parent EXCEPT ![w] = None]
    /\ tries' = [tries EXCEPT ![w] = 0]
    /\ Goto(w, "failJob")
    /\ UNCHANGED <<runVars, job, rowVars, snapshotVars, schemaKnown, quarantined,
                   lake, raw, qdir, today, mine>>

HandleJob(w) ==
    pc[w] = "failJob" /\ JobFailed(w) /\ Goto(w, "failRun") /\ UNCHANGED locals
HandleRun(w) ==
    pc[w] = "failRun" /\ RunFailed(w) /\ Goto(w, "failMove") /\ UNCHANGED locals

(* Only a tree that existed leaves a directory to record; without one the  *)
(* handler re-raises at once.                                              *)
HandleMove(w) ==
    /\ pc[w] = "failMove"
    /\ "dir" \in tmp[mine[w]]
    /\ QuarantineTree(w)
    /\ Goto(w, "failRecord")
    /\ UNCHANGED locals
HandleNothing(w) ==
    /\ pc[w] = "failMove"
    /\ "dir" \notin tmp[mine[w]]
    /\ Leave(w)
    /\ UNCHANGED <<runVars, job, rowVars, snapshotVars, schemaKnown, quarantined,
                   diskVars, today>>
HandleRecord(w) ==
    pc[w] = "failRecord" /\ RecordQuarantine(w) /\ Leave(w)

(* The process dies, or a step outside the try block raises: the locals    *)
(* are lost, the catalog and the disk keep what was written.               *)
Die(w) ==
    /\ pc[w] # "idle"
    /\ Leave(w)
    /\ UNCHANGED <<runVars, job, rowVars, snapshotVars, schemaKnown, quarantined,
                   diskVars, today>>

NextDay ==
    /\ \E d \in Days : today < d /\ today' = d
    /\ UNCHANGED <<runVars, job, rowVars, snapshotVars, schemaKnown, quarantined,
                   diskVars, pc, locals>>

-----------------------------------------------------------------------------
Step(w) ==
    \/ \E j \in Jobs, f \in Fetches : Start(w, j, f)
    \/ UpsertJob(w)
    \/ QueryRetry(w) \/ QueryOk(w)
    \/ WriteRaw(w)
    \/ SchemaCompatible(w) \/ SchemaIncompatible(w)
    \/ WriteLake(w)
    \/ InsertRawRow(w) \/ InsertLakeRow(w)
    \/ Validate(w)
    \/ MoveRaw(w) \/ MoveLake(w)
    \/ ReadParent(w) \/ Commit(w)
    \/ JobDone(w) \/ RunSucceeded(w) \/ Cleanup(w)
    \/ RejectMove(w) \/ RejectRecord(w) \/ RejectJob(w) \/ RejectRun(w)
    \/ Raise(w)
    \/ HandleJob(w) \/ HandleRun(w)
    \/ HandleMove(w) \/ HandleNothing(w) \/ HandleRecord(w)
    \/ Die(w)

Next == NextDay \/ \E w \in Writers : Step(w)

Spec == Init /\ [][Next]_vars

-----------------------------------------------------------------------------
(* Safety for any number of writers *)

(* "Catalog-active files must always exist": a file of any snapshot, of    *)
(* the latest one or of one read by its id, is at its path in raw/ and in  *)
(* lake/, whatever died or raised, and however writers interleave.         *)
ActiveFilesExist ==
    \A s \in Committed : \A f \in members[s] :
        /\ lake[jobOf[f]] # None
        /\ raw[<<jobOf[f], dayOf[f]>>] # None

(* "Quarantined files never enter active snapshots": what was moved to     *)
(* _quarantine belongs to no snapshot, although the handler also runs for  *)
(* failures that come after the commit.                                    *)
QuarantinedNeverActive ==
    \A s \in Committed : \A f \in members[s] : qdir[f] \intersect Kinds = {}

-----------------------------------------------------------------------------
(* Safety for the single writer the layout document prescribes *)

(* The bytes of a fetch whose run is recorded as succeeded are never       *)
(* replaced while the catalog lists them, by any later run of any job: the *)
(* checksums of its rows go on matching.                                   *)
SucceededFetchIntact ==
    \A f \in LatestFiles :
        run[f] = "succeeded" =>
            lake[jobOf[f]] = f /\ raw[<<jobOf[f], dayOf[f]>>] = f

(* No update is lost: one snapshot is current, and it holds every file any *)
(* transaction ever activated, although the parent is read outside the     *)
(* transaction.                                                            *)
SnapshotChain ==
    /\ Cardinality(Current) <= 1
    /\ LatestFiles = {f \in Fetches : "current" \in {rawRow[f], lakeRow[f]}}

(* A job the planner skips for ever really has its data in the latest      *)
(* snapshot: done is never the trace of a write that failed or vanished.   *)
DoneMeansActive ==
    \A j \in Jobs : job[j] = "done" => \E f \in LatestFiles : jobOf[f] = j

(* The write path implements the log of DatasetLog: the table is what the  *)
(* latest snapshot lists, the cursor its checkpoints, and the done jobs    *)
(* are the acknowledged ones.                                              *)
Log == INSTANCE DatasetLog WITH
           table <- {<<jobOf[f], f>> : f \in LatestFiles},
           cursor <- checkpoint,
           acked <- {j \in Jobs : job[j] = "done"}
ImplementsDatasetLog == Log!Spec

(* "Same job rerun is idempotent" (docs/tushare-file-lake-layout.md, the   *)
(* FileLakeStore tests): a reader of the latest snapshot meets the data of *)
(* a job once.  A run that ends between the commit and the job update      *)
(* breaks it.                                                              *)
RerunIsIdempotent ==
    \A f, g \in LatestFiles : jobOf[f] = jobOf[g] => f = g
=============================================================================
