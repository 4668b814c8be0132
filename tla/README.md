# A TLA+ project for deep-value-rs

The repository holds two systems. `tushare_mirror/` (Python) mirrors the
Tushare API into a *file lake*: raw responses and parquet files on disk, with a
SQLite catalog that says which of them are active. `src/` (Rust, `deep-value`)
keeps a PostgreSQL cache of the same API and computes a value portfolio from
it. Line numbers below refer to the source; `T/` stands for
`tushare_mirror/`.

## 1. The system and its components

| Component | State it keeps | Operations | Talks to |
|---|---|---|---|
| File lake write path (`T/store.py`, `catalog.py`, `planner.py`, `validation.py`, `io_utils.py`) | catalog tables `ingestion_runs`, `jobs`, `files`, `snapshots`, `snapshot_files`, `schemas`, `checkpoint_state`, `quarantine_files`; directories `raw/`, `lake/`, `_tmp/`, `_quarantine/` | `FileLakeStore.fetch`: plan, request, stage, validate, move, commit, or quarantine | API client, schema registry, catalog |
| Auto-sync loop (`T/mirror.py` 6263-6983) | the state file (checkpoint), its temporary file, the lock file | `create(execute=True)`: resume, gate, windows, retries | orchestrator, lock, writer detector |
| Orchestrator (`T/mirror.py` 8584-9041) | the items and summary of one mirror run | probe, calendar, references, daily and periodic backfills, validation, backup | backfill, store, backup |
| Date backfill and coverage (`T/backfill.py`, `coverage.py`, `missing_backfill.py`) | a backfill run and its jobs | plan dates, execute, count | store, catalog |
| Backup (`T/backup.py`) | staging and target directories, manifest | plan, copy, replace, restore-check, status | catalog, files |
| Operator gates (the reports of `T/mirror.py`) | bundles, scripts and certificates on disk | next-batch, bundle, final-gate, execute-script, certificate and what they read | catalog, backup |
| A-share financial data (`T/a_share_financial.py`) | its jobs in the catalog | plan, run, point-in-time availability | store, policy |
| Policy (`T/policy.py`, `capabilities.py`, `enablement.py`, `pit.py`) | none | decides what may be asked for | endpoint records |
| Planners (`T/*_planner.py`, `code_universe.py`, `periods.py`, ...) | none | bounded plans that are not executed | catalog (read-only), policy |
| Financial and disclosure reports (`T/financial_*.py`, `disclosure*.py`, `source_metadata.py`) | none | gates, estimates, coverage, evidence of dates of disclosure | catalog, source map |
| Schema registry (`T/schema.py`) | `schemas`, `schema_changes` | infer, coerce, compare, commit | store |
| API client, errors (`T/client.py`, `errors.py`) | none | request, paginate, classify, retry delay | Tushare |
| Readers, CLI (`T/reader.py`, `cli.py`) | none | queries; arguments and printing | all of it |
| Rust client and cache (`src/tushare/`) | rate limiter, raw responses, typed tables | query, paginate, cache | PostgreSQL, Tushare |
| Rust sync (`src/data/sync.rs`, job table in `pg_cache.rs`) | `tushare_sync_jobs` | incremental loops over dates, periods, codes | client |
| Rust strategy and backtest | dataframes | score, screen, weigh, returns | typed tables |

How they interact: auto-sync cuts a date range into windows and calls the
orchestrator for each; the orchestrator calls `fetch` for calendars and
reference data and the backfill executor for the daily endpoints, which calls
`fetch` once per date; then it validates, backs up and restore-checks. An
operator does the same month by month: a report names the month, a bundle and a
gate say whether it may be run, a script holds the command, a certificate
closes the month. Financial periods are planned, gated and fetched by a command
of their own. `fetch` is the only writer of data files and asks the policy
first. The two systems share nothing but the API.

What is hard, by component:

* *Write path.* A fetch is some fifteen catalog transactions and file
  operations; it may die or raise between any two, and a rerun of the same job
  writes to the same paths. The parent of a snapshot is read outside the commit
  transaction. The exception handler runs for failures after the commit too.
  Correct means: listed files exist; quarantined ones are not listed; no commit
  is lost; `done` means that the data is active; what succeeded stays intact.
* *Auto-sync.* Two processes, kills, exceptions, a lock made of a file, a state
  that is written after the lock is released through a shared temporary name, a
  window size that differs from call to call, resumption of a window in
  progress. Correct means: the checkpoint never passes days that were not
  verified; calls that come one after the other neither skip nor repeat a
  window; the lock is given back, and taken from nobody; calls end and make
  progress.
* *Orchestrator and backfill.* One failing item among many decides whether a
  window counts as succeeded, as retryable or as failed for good; a limit of
  jobs cuts plans; a killed job is neither missing nor failed; a job whose data
  was committed without the job being done is fetched again, and then nothing
  validates any more; weeks and months are cut by windows. Correct means: the checkpoint stands for data; what a
  plan announces is done; a range is complete only when it is covered.
* *Backup.* The plan, the copy of the catalog and the copies of the files are
  taken at different moments; the replacement of the target is two operations,
  and the handler of an error in the second deletes the new copy too. Correct
  means: a copy survives whatever dies, and any error before the replacement;
  what is called ready is what was put there.
* *Gates.* Reports that look at the catalog when they are called, papers that
  stay, two definitions of a complete month, and answers that are final though
  they are empty. Correct means: months are done in order; a certificate stays
  true; a month can be finished, and it is known what prevents it.
* *Financial data.* An answer that comes too early is never asked for again;
  the same records are judged by a planner, by `fetch` and by three reports.
  Correct means: a period is called safe only after the last disclosure; the
  gates agree; the planners agree on what is left.

`PROJECT.json` lists every hazard at its line with the properties that watch
it, or why none does.

## 2. Modules

| Module | Models | Runs and proofs |
|---|---|---|
| `FileLake` | one api's write path, any number of writers | `MCFileLake`, `FileLakeProofs` |
| `DatasetLog` | what the write path promises: an append-only table with a cursor and acknowledgements | refined by `FileLake` (`ImplementsDatasetLog`) |
| `Schema` | what the schema registry makes of an answer, what its file holds, whether readers unite files | `MCSchema`, `SchemaProofs` |
| `Client` | the pages of a query, the classes of errors, attempts and delays | `MCSchema`, `SchemaProofs` |
| `AutoSync` | the window loop of `mirror-auto-sync --execute` | `MCAutoSync`, `AutoSyncProofs` |
| `MirrorRun` | a mirror run with its items, backfills and retries, and the window loop around it | `MCMirrorRun`, `MirrorRunProofs` |
| `Backup` | backups of one root to one target, next to fetches | `MCBackup`, `BackupProofs` |
| `Workflow` | the operator's months: reports, bundle, gate, script, run, certificate | `MCWorkflow`, `WorkflowProofs` |
| `Policy` | the decision of the execution policy, point-in-time metadata, the gates of HK and US financial endpoints | used by the next four; `PlansProofs`, `FinancialProofs` |
| `Plans` | the planners and what is reported on their plans | `MCPlans`, `PlansProofs` |
| `Disclosure` | evidence of dates of disclosure, its matching and the reports on it | `MCPlans`, `PlansProofs` |
| `Financial` | planner, executor and availability report of the A-share financial data | `MCFinancial`, `FinancialProofs` |
| `FinancialPlans` | `Plans` over the lake `Financial` writes | `MCFinancial` |

`DatasetLog`, `AutoSync`, `MirrorRun`, `Backup` and `Workflow` look at one system at
five depths: a step of one is a run of many of another. A fetch of `FileLake`
is one step in `MirrorRun`, `Backup` and `Financial`; a run of `MirrorRun` is a
verdict in `AutoSync`, and a run over one month in `Workflow`. What such a step
may leave behind is what the finer module shows it can: `done` with active
data, also when the answer was empty; `failed` with or without a quarantine row;
after a kill `running`, with or without a staged row; and both of the latter with
the files moved, or with active data, when the end came after the commit.

### FileLake

A *fetch* is one call of `FileLakeStore.fetch` past the skip test. Its run id,
its two file ids and its snapshot id are fresh uuids in the code, so all are
named by the fetch; `jobOf` and `dayOf` are the job key and the `ingest_date`
its plan fixed. What a fetch writes holds its run id and time, so contents of
different fetches differ: `lake` and `raw` map a path to the fetch whose bytes
are there. `rawRow`, `lakeRow`, `snap`, `seq`, `created`, `members`, `job`,
`run`, `checkpoint`, `quarantined` are the catalog's columns. `pc`, `mine`,
`parent`, `tries` are a writer's locals.

One action is one catalog transaction or one file operation, in the order of
`fetch` (store.py 78-212): `Start`, `UpsertJob`, `QueryRetry`/`QueryOk`,
`WriteRaw`, `SchemaCompatible`/`SchemaIncompatible`, `WriteLake`,
`InsertRawRow`, `InsertLakeRow`, `Validate`, `MoveRaw`, `MoveLake`,
`ReadParent`, `Commit`, `JobDone`, `RunSucceeded`, `Cleanup`. The early returns
are `RejectMove`..`RejectRun`, the handler `HandleJob`..`HandleRecord`. `Raise`
may happen at every step of the try block; `Die` loses the locals at any step
and stands for a kill as well as for a statement outside the try block that
raises. `SchemaIncompatible` needs a registered schema; the comparison itself
is abstracted to its verdict, as is the validation.

Runs:

* `lake` - one writer (the layout document prescribes a single writer), two
  jobs, three fetches, one day. Three fetches of two jobs are enough for a
  fetch, a failed or killed rerun of it and a commit on top by another job.
  `SucceededFetchIntact`: the bytes of a fetch recorded as succeeded are never
  replaced while listed. `SnapshotChain`: one current snapshot, and it lists
  every row that was ever activated. `DoneMeansActive`: a job the planner skips
  has its data in the latest snapshot. `ImplementsDatasetLog`: refinement, with
  the table read off the latest snapshot, the cursor off `checkpoint_state` and
  the acknowledged jobs off `jobs`.
* `lake_writers` - two writers on one job and two days: the properties that do
  not need the single writer. `ActiveFilesExist` ("Catalog-active files must
  always exist") and `QuarantinedNeverActive` ("Quarantined files never enter
  active snapshots"), for *every* snapshot, superseded and forked ones too.
* `lake_rerun` - a finding: "Same job rerun is idempotent" (layout document,
  line 1127) fails when a run ends between `commit_snapshot` and
  `update_job_done`.

The number of fetches bounds a behaviour; when all are used up the system may
stop, so deadlock is not checked. Fetches, jobs and writers are symmetric.

### Schema and Client

Algorithms without state, as operators. Values are classes (integer, whole and
fractional float, texts by what they spell, ...): those that no conversion tells
apart are one. `Prepare` reads an answer against the latest schema (`Coerce`),
infers a type per column (`ColumnType`, a fold of `Widen` over the rows, whose
order matters once booleans meet numbers) and is compared with it
(`ChangeType`, `Accepts`); `Register` adds what is new; `FileOf` is what pyarrow
writes, `Readable` what a reader can unite. `Query` is the loop over pages,
`Classify` and `ErrorType` the classes of errors, `Attempts` the retries.

`MCSchema`, which `MCFileLake` extends, holds named assumptions that TLC evaluates
in every run of `FileLake`, over all values and small answers and services. Some
say what the code promises: `CoercionSettles`, `TextFitsNumbers`, `OrderOfRows`,
`AcceptedFileFits`, `ChangeIsNamed`, `AllOrError`, `RetriesStop`. The others show
what it allows, and a maintainer should know:

* `ReturnsAsOtherPossible`, `WideningUnreadablePossible`, `FirstAnswersRacePossible`:
  a column that is missing once, the accepted widening of integers to floats, or
  two first answers at a time leave files of an api that `LakeReader` cannot
  unite, as `concat_tables` with `promote_options="default"` promotes nulls only.
  `docs/tushare-file-lake-layout.md:704` asks that "Readers must support
  union-by-name across schema versions";
* `NullsBecomeTextPossible`: a column that is null throughout the first answer is
  text from then on; `LatestBehindPossible`: a schema that returns is not the
  latest; `RegisteredUnwrittenPossible`: a schema outlives the failure of its file;
* `UnpagedCutPossible`, `EmptyPageEndsPossible`: `has_more` is not looked at for an
  endpoint that is not paged, or on an empty page;
* `LimitRetriedPossible`: too many pages is a retryable error, as it carries a
  response with code 0; `RateIsDeniedPossible`: a message on the rate that also
  speaks of permissions is final.

### AutoSync

Days are `1..LastDay`; every call asks from day 1. A call (`p`) picks its
window size and the day its to-date resolves to, reads the state
(`ReadState`), passes the gate or is refused (`PassGate`, `Refused`), and then
for each window: asks for the lock (`SeeNoLock`), creates it (`OpenLock`, or
`LockTorn`, when the write into the new file raises) or
meets it (`LockMet`, then `Blocked` or `LockGone`), for a version 2 state
writes the window down, runs it (`RunPasses`, `RunRetried`, `RunFails`),
releases the lock and writes the outcome (`ReleaseSucceeded`,
`ReleaseFailed`). A write of the state is three steps: `OpenTmp` truncates the
temporary file, `FillTmp` writes through the open descriptor, which may by then
name the state file or a deleted file, and the rename. `Raise` is an exception
at any step (of the gate, the acquisition, the run or a write, also `os.replace`
finding the temporary file gone); the `finally` that releases the lock surrounds
the steps after its acquisition. `ReleaseRaises` is an `unlink` that fails. `Die`
is a kill; `RemoveStaleLock` is the operator, who deletes a lock only when no
living call holds it. `left` says that the lock file was left by a kill or by an
error of its own creation or release.

The version is that of the scope (1 for A-share, 2 for HK and US) and never
changes. For version
2 the gate also refuses next to another writer or to a quarantined file. The
detector of writers searches command lines for the resolved root; the model
takes every call to be visible to it, which holds for commands that give the
root as an absolute path. The gate is no barrier between calls: it is passed
with a state read before it, and what refuses a call whose state has been
replaced meanwhile is only that files changed in the last 300 seconds
(mirror.py:1380), which depends on the clock. The model has it as a refusal that
may happen or not.

Abstractions: one state file and one scope; days are numbers; a window's run is
a verdict (`MirrorRun` has its items). History variables are `verified`, the days
of windows whose run succeeded and passed its post-checks; `overlap`, that a call
has written the state file while another was under way; and `recorded`, the days
of the windows that the state file listed as completed before that.

Runs (two processes, `LastDay = 3`, window sizes 1 and 2, two attempts: windows
that agree, overlap and nest, a retry and its exhaustion, resumption with
another size):

* `autosync` - either version, one kill, errors at every step. `CheckpointCovered`: no readable state
  file has a `next_start_date` past unverified days. `OneLockHolder`: the lock
  file belongs to the call that created it and is there until it releases it.
  `LockHasOwner`: a lock file has a living owner, unless a kill, a write that
  failed after the exclusive creation or an `unlink` that failed has left it.
  `CompletedNotRerun` ("completed window not rerun"): calls that come one after
  the other, of either version, in whatever way each ended, never run a day again
  that the state file has once recorded. Calls that overlap may: one that read the
  state earlier passes gate and lock with it and repeats what another has done
  since. `StatusAnnouncesStart` relates the status report to the start
  the next call computes. A state file that does not parse blocks every later
  call, so the system may stop: deadlock is not checked.
* `autosync_live` - one process, either version, one kill: `EveryCallEnds` and
  `EventuallySynced`. The exception of the latter is a quarantine row in the HK and
  US scopes: it closes the gate for good.
* `autosync_unlocked` - a finding: "Lock acquisition is required before any
  auto-sync execution window starts" (guardrails document, line 272). `acquire`
  answers a `FileExistsError` with the status it asks for afterwards; if the
  lock is gone by then, that status has no blocking errors, and the window runs
  without a lock. `CheckpointCovered` and `OneLockHolder` hold in spite of it:
  they are checked and proved with these steps in the model.
* `autosync_torn` - a finding: "atomically update completed/failed windows"
  (guardrails document, line 483). Two processes write the same temporary file
  after their locks are released; the state file ends up empty or garbled.

Fairness. `FairSpec` has weak fairness of the steps of a call that has started:
a process that is not killed goes on running, whatever the api answers. That is
all `EveryCallEnds` needs. `EventuallySynced` has the rest as a hypothesis of
its own, `Driven`: calls are started again and again with the last day as
to-date, a run that is possible again and again passes in the end, writes fail
(`Lapse`) only finitely often, and the operator removes a stale lock, which the
code never does. The code does not promise these; without them nothing is synced
because nothing is called or the api never answers.

### MirrorRun

Days are `1..LastDay`. A call (`caller`) is a window of auto-sync, a `mirror-run`
in pilot mode (`"direct"`) or smoke mode, or `backfill-missing`. A run probes
every endpoint (`ProbeAll`), then takes them in stages (`Turn`): calendar,
references, daily endpoints over the open days the local calendar knows,
periodic ones over week and month ends. An endpoint is blocked (`BlockedItem`),
fetched (`FetchItem...`) or backfilled: `PlanBackfill` fixes the first
`max_jobs` dates, `JobSkipped`, `JobSucceeds` and `JobFails` take them one by
one. The end of the items gives the run its status, and the window loop passes
the window, retries it or gives up (`PassLast`, `PassToNext`, `RetryWindow`,
`FailWindow`, `CheckFails`). `Die` is a kill, in the middle of a fetch too.
`active`, `row`, `staged`, `quarantined` are what the catalog has of a job;
`hollow` are calendar jobs whose answer was empty. A fetch that fails or is killed
has come to one of three `Steps`: before its move, after it, or after the commit
of its snapshot, which leaves the job in `half`, listed but not done. The next
fetch of that job moves its files over the listed ones (`spoiled`), and from
then on validation, which compares each row with its file, fails in every run
(`Valid`). `excused` and `announced` are
history: what a window was passed without since a probe had refused the
endpoint or the calendar did not know the day, and what the plan shown before a
`mirror-run` had announced.

Run `mirror` - three days of which the second is a holiday, one endpoint of each
kind, both scopes, limits of one and two jobs, two attempts, and two faults,
kills or calls of other kinds (`MaxTrouble`): enough for a truncated direct run
before a window, a failure and its retry, a quarantined or a killed job met by a
later window. A limit on trouble also means that requests stop failing, which
`EventuallySynced` needs.

* `CheckpointComplete`: each open day before the checkpoint has active data of
  every daily endpoint, but for `excused`. The exception is the content of two
  hazards: a blocked item does not fail a run, and neither does a calendar that
  came empty.
* `SettledPeriodsKept`: splitting a range into windows loses no Friday and no
  natural month end. For a period that closes on another day the code has no
  such promise, and a window boundary can lose it.
* `OpenDaysOnly` ("no natural-day fallback"), `PlanKept`, and
  `CompleteUnlessKilled`: coverage calls a range complete only if its days have
  active data. With kills it does not hold: a job left `running` or staged is in
  none of the three counts.
* `EventuallySynced`: in `FairSpec` a run goes on (weak fairness) and the
  operator calls auto-sync again until the range is in (strong fairness, since
  other calls come in between). There are two exceptions, which nothing in the
  code ends: the gate of the HK and US scopes next to a quarantine row, and a
  job of `half` that was fetched again.

When everything is in, nothing need happen: deadlock is not checked.

### Backup

A job has one data file at a fixed path; its bytes are the version the last
fetch of the job wrote, and a catalog row records the version it speaks of.
`Move`, `Commit` and `FetchDies` are what fetches do meanwhile. A backup is
`Start` (the plan and the guards), `CopyCatalog`, `CopyFile` for each file, which
compares size and checksum with the row, `WriteManifest`, `CheckStaging`,
`RemoveTarget`, `Removed`, `Replace`, and `Raise`, which deletes the staging
directory, also one that passed the check. A removal in progress can be
seen by others (`Remnant`); of two that remove at once one raises. `DiskError` is
a read or a write that fails at any of these steps; `broken` says that it ended a
removal or a rename. `Die` leaves the staging directory behind. `Damage` is a write to the backup, by a command
that opens it as a root or by hand. `Ready` is what `backup-status` says.

Run `backup` - two jobs of two apis fetched up to twice, an auto-sync that
always overwrites, an operator with any flags who calls once, and one kill,
failed commit, disk error or damage. `ManifestInCatalog`: every file of the manifest is
listed by the copy of the catalog beside it, whatever commits meanwhile.
`CopySurvives`: once there was a backup, a copy that passes the restore check is
on the disk, at the target or in a staging directory, whatever dies and whatever
failed before the removal. The exception is `broken`: after an error in the
removal or in the rename the handler deletes the verified staging directory,
when the target is gone or in part. `ReadyMeansPlaced`: what
`backup-status` calls ready is what a backup has put there. `BackedUpAgain`:
under weak fairness of fetches, of backup steps and of the auto-sync that starts
them, the target holds the whole root again and again, unless a committed job
was fetched once more: then the catalog has two rows for one file, the copy
never matches both, and no backup can be made any more.

### Workflow

Months are `1..LastMonth`; the first is January 2025, the pilot of the runbook.
The daily jobs of a month are a *head*, as many open days as a run may take, and
for a long month a *tail*. The reports are conditions on catalog, backup and
bundle (`NextMonth`, `MatrixComplete`, `Readiness`, `ChecklistReady`, `Promotion`,
`Verified`, `Rehearsed`, `GateReady`, ...), each the conjunction of what the
report blocks on. The bundle is written in five steps between which other
commands may run or the builder may die. Scripts and certificates stay. Runs
are the pilot, a reviewed script, the command `mirror-next-batch` shows and
`backfill-missing`; their jobs succeed, fail, are quarantined or killed. The
calendar of a month may come empty, which is a success that is never asked for
again (`CalendarEmpty`, `hollow`), or be committed by a fetch that fails or is
killed before the job is done (`redo`); when it, or a job whose fetch was killed
after its commit, is fetched again, a listed file is overwritten and the latest
snapshots validate no more (`sound`).

* `workflow` - three months, the second long, two faults. `InOrder`: once a
  month was touched, no open day of an earlier one was left out, but for a calendar
  that was overwritten afterwards. `GateWithinNextBatch`: the gate lets no month pass beyond the recommended one.
  `CertificateStaysTrue`, as long as the lake validates. `EmbeddedGateBlocked`: the
  gate report inside a bundle was computed on the bundle that lacks it and never
  says ready. The two that depend on coverage hold unless a run was killed, for the
  reason given at `CompleteUnlessKilled`. `EveryMonthComplete`: an operator who does
  what the reports name (`FairSpec`) completes every month, unless it is `Stuck`: a
  quarantine row, or a lost or overwritten file, closes the gates for good; the
  calendar of a month came empty; or a job beyond the limit was killed.
* `workflow_unfinished` - a finding: a confirmed month is run with the existing
  backup as its target, the backup raises, and the run is never finished.

### Policy, Plans, Disclosure

These have no state: each operator is a function of the code, with wording left
out. `Policy` has `EndpointExecutionPolicy.decide` and the gates that decide from
the same records elsewhere. `Plans` has periods, code universes, limits and the
items and statuses of each planner, the estimate, the coverage matrix and the
bundle of commands. `Disclosure` has the matching of dates, the probes and their
verdicts. `MCPlans` holds facts about them as named assumptions, which TLC
evaluates over small inputs when run `financial` starts: planned periods are the
earliest and within the limit; a plan has the items it states; the contract
report allows a period only with a filing within a week of the notice; evidence
never weakens a match; a probe passes only with rows. Three of them show a
hazard rather than a promise and end in `Possible`: a plan that is neither
blocked nor has an item, a bundle directory that may be the parent of the mirror
it removes, and a match by a filing that came after the notice date.

### Financial, FinancialPlans

A job is an api and a reporting period. The disclosures of a period grow from
empty to partial to full (`Announce`), and what a job holds is the answer at the
time of its fetch (`Answer`): the disclosure api lists what has been disclosed, a
statement api has that or less, as figures may follow later. An answer is final
whatever it holds. `StartRun` is `a-share-financial-run` with any
apis, periods and limit, and fixes the items the planner allows; `Commit`,
`Refuse`, `QueryFails`, `Rejected`, `Breaks` and `Kill` are the outcomes of an
item, `FinishRun` the end. `EditCatalog` and `RestoreCatalog` change the records
of the endpoints under a run. `PitSafe` is `a-share-pit-availability`.
`FinancialPlans` reads the same jobs as codes and quarters and asks the planners
of `Plans` about them.

Run `financial` - the disclosure api and one more, two periods, limits of one and
two, one fault or edit: a plan that is cut, a fetch too early, a failure and its
retry. (Two faults give ten times the states and no new case.) Everything may be
fetched, so deadlock is not checked.

* `SafeMeansDisclosed`: a period is called safe only when no disclosure of it is
  left to be announced. It says nothing of the statements: the report looks for
  a file of each (a_share_financial.py:409), and one that was fetched early, with
  no or few figures, is never fetched again. `SafeStaysSafe`: no later failure,
  kill or fetch takes it back.
* `RunTellsTruth`: a run that is called succeeded leaves each job of its plan done
  or in quarantine; a rejected fetch counts as executed, hence the second.
* `GatesAgree`: what one gate lets pass the next does not refuse.
* `PlannersAgree`: planner, code-period plan, coverage matrix and estimate speak
  of the same jobs, after whatever runs, failures and kills have made of them.
* `SafeUnlessStuck`: with the documented command given again and again (strong
  fairness), a catalog that is repaired and runs that go on (weak fairness), every
  period becomes safe, unless it is stuck: quarantined, staged, or asked for
  too early.

## 3. Proofs

All proofs are checked by TLAPS for every value of the constants that satisfies
their assumptions (named `...Assumption` in the modules, evaluated by TLC in
every run). They assume of the constants what the code fixes: finite sets of
jobs, days from 1, limits and attempts of at least one, a placeholder that is
not one of the things it stands in for (`NoneAssumption`, `AbsentAssumption`),
endpoints of one kind each (`EndpointsAssumption`).

Every state machine has one inductive invariant. TLC has checked it on the
instance of its run, or a smaller one, before it was proved; its parts are
what the properties lack to be inductive, and are defined at the head of the proofs.
A step of the proof that preserves it takes one part and goes through
the actions of `Next`.

* `FileLakeProofs` - `PathInv` is the inductive invariant of the write path. The
  properties are not inductive by themselves: that the parent a writer has read
  is a committed snapshot, that fetches of different writers differ, that a
  snapshot's members were moved (`lake` and `raw` hold something at their
  paths and their temporary directory holds no data any more) and that what is
  past the moves has nothing left to quarantine are its parts. `PathInvariant`
  proves it; `TypeCorrect`, `FilesExist` and `QuarantineSafe` follow. They hold
  for any number of writers, jobs, fetches and days.

  The rest needs the layout document's rule of a single writer, and says so: its
  theorems are of the form `SingleWriter => (Spec => ...)`. `LoneInv` adds to
  `PathInv` that the snapshots form one chain and the parent a writer has read
  is still its end; that rows are current exactly for committed fetches; that
  past its moves a fetch has its own bytes at its paths; and that no fetch works
  on the job of a succeeded one, since the planner has skipped it.
  `LoneInvariant` proves it; `SucceededStaysIntact`, `ChainUnbroken` and
  `DoneIsActive` follow. `RefinesDatasetLog` is the refinement: the commit
  transaction is `Append`, the update of the job is `Acknowledge`, a start or a failure
  of the job is `Retract`, and every other step leaves table, cursor and
  acknowledgements alone.
* `AutoSyncProofs` - `SyncInv`: types; a call that is past the gate has a window
  that ends by its to-date; every payload, in a file or in memory, and every
  window starts where verified days end, and a call that records a success has
  verified its window; the lock file stays with its creator. `SyncInvariant`
  proves it for both versions, and `SyncTypeCorrect`, `CheckpointSafe` and
  `LockIsHeldOnce` follow. The argument does not use the lock: two calls that
  run at once, torn writes and all, cannot move the checkpoint past a day that
  was not verified. `LockOwned` follows from where a call that holds the lock can be
  (`HolderWorks`): past the steps that the `finally` surrounds it holds none.
  `StatusIsStart` needs that completed windows end before the one in progress
  starts, in every file and payload. `CompletedStaysDone` needs that, until two
  calls meet over the state file, the file, the payload and the window of every
  call start past the recorded days (`Remembered`), for which one call writes at a
  time (`OneWriter`).
* `BackupProofs` - `BackupInv`: what a process has planned is in the catalog, and
  so in the copy it takes of it afterwards, which gives `ManifestAlwaysInCatalog`;
  who is at the target has a staging directory that passed the restore check, and
  neither a removal nor damage changes what the manifest says of the
  files, which gives `ReadyAlwaysPlaced`. For `CopyAlwaysSurvives` the
  invariant names the place of the copy: the target, what a dead process has left,
  the process that removes the target, or one that found none and is about to rename;
  a process whose removal or rename fails sets `broken` and ends the claim.
* `MirrorRunProofs` - `RunInv`. At the end of its items a run without problems
  has data of every date that was planned (`ItemsDone`, `JobsDone`); one that passes
  with problems has blocked items only, and those were refused by a probe or for want
  of a calendar (`BlockedWhy`), which is what `excused` records. The window loop
  passes windows no longer than the limit of jobs, so no plan is cut, and the window it
  runs is the one that comes next (`SyncWindow`): hence `CheckpointStandsForData`.
  `WindowsKeepPeriods` adds that the last trading day of a week or month that ends by itself
  is planned by the window that has it, wherever the windows are cut.
  A fetch that ends after its commit teaches the calendar but leaves its job to be
  done; what was announced is planned again as long as nothing listed was overwritten
  (`AnnouncedPlanned`).
  `NoNaturalDayFallback`, `AnnouncedIsDone` and `CompleteIsCovered` follow too; the
  last from the fact that without kills a job has data, a failure, or no row.
* `WorkflowProofs` - `WorkInv`. The gate looks back one month only, and a script does not
  look back at all when it is run, so order has to be carried by the invariant: of each month that a run has touched, works on, or that a script may still
  start, *all* earlier months had their turn, and are complete unless a run was killed
  or the lake has ceased to validate. `WrittenFacts` and `CalendarStep` say that the
  calendar of a month that was known is lost only by the fetch that spoils the lake.
  `MonthsInOrder`, `GateNotAhead`, `CertificatesStayTrue` and `BundledGateBlocks`
  follow for any number of months.
* `FinancialProofs` - `FinancialInv` has the types, that a job of the disclosure
  api holds a full answer only if everything is published, and that a job of the
  batch that is dealt with without an error is done or in quarantine.
  `FinancialInvariant` proves it; `SafePeriodsDisclosed`, `SafePeriodsStaySafe` and
  `RunsTellTruth` follow, for any apis, periods, limits and records.
  `GatesAlwaysAgree` proves `GatesAgree` for any records from the definitions of
  the policy, through a lemma per gate. `PlannersAlwaysAgree` proves `PlannersAgree`
  and `PlansAlwaysAgree` the same for every budget from 1 to 100, for as many codes
  and quarters as a planner takes (`LimitsAssumption` of `FinancialPlans`): lemmas
  give what is left of a range that is cut (`First`), the sizes of the matrix and of
  the report, and that a job is asked for by the one planner just if it is by the other.
* `PlansProofs` - `MatrixKeepsBudget`: a plan of the matrix keeps its budget of
  jobs; `PlanOnlyNeverFetched`: an endpoint of a plan-only kind is never allowed
  to an ordinary fetch; `StrengthNeedsEvidence` and `ContractIsClose`: nothing
  counts as verified without a reconciled document, nor as available without a
  filing near the notice. For every input, where `MCPlans` has small ones.
* `SchemaProofs` - `RegistryHasTypes`: no column is ever registered without a
  type; `TypesOnlyWiden`: an accepted answer keeps the type of each column that
  stays, or turns integers into floats; `QueryIsWhole`: a paged query gives the
  items of all pages or an error, for any service and limit. That there is a
  last request follows from the well-foundedness of the numbers. What
  `ColumnType` makes of a column of any length is a fold, and stays with TLC.

With these, every invariant and every action property a run checks is stated by a
theorem, and so is the refinement. Only model-checked: the liveness properties, which
are out of the prover's reach, as is everything about fairness; and the facts of
`MCPlans` and `MCSchema` that no theorem above states, many of which are about folds or
say that something is possible.

## 4. Not modelled, and the plan

Not modelled:

* the registry of schemas as state: `Schema` has its algorithm, `FileLake` and its
  users have the verdict at the step where it falls; two fetches that register at
  the same moment are the fact `FirstAnswersRacePossible`, not an interleaving;
* the words a message of the service is searched for; the filters of the
  readers; SQL text, formatting, logging, the layout of reports;
* the fetches of one run sharing a run id and a temporary directory
  (`finish_run=False`): the fetches of `MirrorRun` are single steps;
* the child scopes of the global scope, sub-ranges of a month in `Workflow`, and
  checks of paths, token and disk in the gates;
* concurrency beyond `FileLake`, `AutoSync` and `Backup`: `MirrorRun`, `Workflow`
  and `Financial` have one writing process, which the documents ask for;
* the Rust program, a system of its own that shares only the API with the
  mirror: its SQL and its floating-point dataframes are out of reach, its job
  table, cache and rate limiter are not. Their hazards are listed.

What would come next: theorems for the facts of `MCPlans` and `MCSchema` that have
none; the registry of `Schema` as state of `FileLake`, with an answer in place of a
verdict; the job table of the Rust program with concurrent and killed syncs.
