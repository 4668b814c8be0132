------------------------------ MODULE Workflow ------------------------------
(***************************************************************************)
(* The operator's monthly workflow (mirror.py): mirror-next-batch names    *)
(* the month to do, mirror-batch-bundle writes its review bundle,          *)
(* mirror-final-gate and the reports it reads say whether the month may be *)
(* run, mirror-execute-script writes the command, the operator runs it and *)
(* asks for a certificate.  The reports are read-only and look at the root *)
(* and the backup when they are called; a script stays.                    *)
(*                                                                         *)
(* The scope is low-risk-a-share, the only one the gate lets pass.  The    *)
(* daily jobs of a month are represented by one job of its first           *)
(* MAX_JOBS open days (the head) and, in a month with more open days, one  *)
(* of the rest (the tail).  MirrorRun has the run in detail, Backup the    *)
(* backup.  Paths, token and disk are taken to be in order.                *)
(***************************************************************************)
EXTENDS Naturals, FiniteSets

CONSTANTS
    LastMonth,   \* the months 1..LastMonth, from FIRST_CONTROLLED_MONTH on
    LongMonths,  \* months with more open days than max-jobs-per-api may be
    MaxTrouble   \* bound on what goes wrong: failures, kills, damage

(* The first month is January 2025, which has 18 open days.                *)
ASSUME MonthsAssumption ==
    LastMonth \in Nat \ {0} /\ LongMonths \subseteq 2..LastMonth
ASSUME TroubleAssumption == MaxTrouble \in Nat

Months == 1..LastMonth
Parts == (Months \X {"head"}) \union (LongMonths \X {"tail"})
PartsOf(m) == {p \in Parts : p[1] = m}

(* What the catalog says of a job: "killed" stands for a row that is       *)
(* running, or staged, with nobody at work on it.                          *)
Statuses == {"missing", "failed", "quarantined", "killed", "covered"}

VARIABLES
    calendar,   \* months whose days the local trading calendar has
    hollow,     \* months whose calendar answer was empty
    redo,       \* months whose calendar is listed and will be fetched again
    cover,      \* the status of each part
    dirty,      \* there are quarantine rows
    sound,      \* validation of the latest snapshots passes
    backup,     \* "none", "good" or "damaged"
    bundle,     \* how far the bundle has been written, see Stages
    building,   \* whether it is being written
    embedded,   \* what the final_gate.json in it says
    scripts,    \* months there is an execute script for
    certs,      \* months there is a certificate for
    run,        \* the current run
    killed,     \* some run was killed
    trouble

calendars == <<calendar, hollow, redo>>
catalog == <<calendars, cover, dirty>>
bundling == <<bundle, building, embedded>>
papers == <<scripts, certs>>
vars == <<calendar, hollow, redo, cover, dirty, sound, backup, bundle, building,
          embedded, scripts, certs, run, killed, trouble>>

(* Files of a bundle in the order they are written: the reports and        *)
(* commands.sh, a manifest of these, final_gate.json, the script preview   *)
(* and the summary, a manifest of all.                                     *)
Stages == {"none", "reports", "manifest", "gate", "preview", "final"}

Steps == {"idle", "calendar", "jobs", "backup", "raised"}
Idle == [step |-> "idle", month |-> 1, backs |-> FALSE, plan |-> {}]

TypeOK ==
    /\ calendar \subseteq Months /\ hollow \subseteq Months /\ redo \subseteq Months
    /\ cover \in [Parts -> Statuses]
    /\ dirty \in BOOLEAN /\ sound \in BOOLEAN
    /\ backup \in {"none", "good", "damaged"}
    /\ bundle \in Stages /\ building \in BOOLEAN
    /\ embedded \in {"none", "ready", "blocked"}
    /\ scripts \subseteq Months /\ certs \subseteq Months
    /\ run \in [step : Steps, month : Months, backs : BOOLEAN, plan : SUBSET Parts]
    /\ killed \in BOOLEAN
    /\ trouble \in 0..MaxTrouble

Init ==
    /\ calendar = {} /\ hollow = {} /\ redo = {}
    /\ dirty = FALSE /\ sound = TRUE
    /\ cover = [p \in Parts |-> "missing"]
    /\ backup = "none"
    /\ bundle = "none" /\ building = FALSE /\ embedded = "none"
    /\ scripts = {} /\ certs = {}
    /\ run = Idle /\ killed = FALSE
    /\ trouble = 0

Trouble == trouble < MaxTrouble /\ trouble' = trouble + 1

-----------------------------------------------------------------------------
(* The reports *)

(* MirrorBatchPlanner: without the calendar of the month its daily         *)
(* endpoints are blocked, and the plan is one for the dependency stage.    *)
CalendarCovered(m) == m \in calendar

(* mirror-next-batch: a month is complete when each of its open days is    *)
(* covered; the first one that is not is recommended.                      *)
MonthComplete(m) ==
    CalendarCovered(m) /\ \A p \in PartsOf(m) : cover[p] = "covered"

NextMonth ==
    CHOOSE m \in 1..(LastMonth + 1) :
        /\ \A k \in 1..(m - 1) : MonthComplete(k)
        /\ m <= LastMonth => ~MonthComplete(m)

(* Mutant: quarantined days are not counted either.                        *)
Counted(m, uncounted) ==
    CalendarCovered(m) /\ \A p \in PartsOf(m) : cover[p] \in {"covered"} \union uncounted
MatrixForgiving(m) == Counted(m, {"killed", "quarantined", "failed"})

(* mirror-coverage-matrix: no day is missing, failed or quarantined.       *)
MatrixComplete(m) == Counted(m, {"killed"})

(* mirror-review of January: the catalog validates, the coverage of the    *)
(* daily endpoints can be computed, the backup is fine.                    *)
ReviewClear == sound /\ calendar \union hollow # {} /\ backup = "good"

(* mirror-readiness adds the coverage of January.                          *)
ReadinessChecks == MatrixComplete(1)
Readiness == ReviewClear /\ ReadinessChecks

(* MirrorOperatorChecklistReporter._catalog_quality_flags, schema-status   *)
NoQuarantine == ~dirty
SchemaClear == ~dirty

(* mirror-operator-checklist: the backup is checked again.                 *)
ChecklistReady == backup = "good" /\ Readiness /\ NoQuarantine

(* mirror-status and mirror-audit block on what the review blocks on, and  *)
(* on the backup; failed jobs and runs are only listed.                    *)
StatusClear == ReviewClear /\ Readiness
AuditClear == backup = "good"

(* Mutant: the coverage of the month before is not looked at.              *)
PromotionAnyway(m) ==
    IF backup = "good" /\ SchemaClear /\ ChecklistReady
    THEN (IF CalendarCovered(m) THEN "ready" ELSE "staged")
    ELSE "blocked"

(* monthly-promotion-checklist from the month before: "staged" when the    *)
(* run will have to fetch the calendar first.  The month before the first  *)
(* has no data.                                                            *)
Promotion(m) ==
    IF /\ m > 1 /\ MatrixComplete(m - 1)
       /\ backup = "good" /\ SchemaClear /\ ChecklistReady
    THEN (IF CalendarCovered(m) THEN "ready" ELSE "staged")
    ELSE "blocked"

(* mirror-ops-report: every section, the promotion among them.             *)
OpsClear(m) == StatusClear /\ AuditClear /\ SchemaClear /\ ChecklistReady /\ Promotion(m) # "blocked"

(* Mutant: a gate report that is not there is not missed.                  *)
VerifiedLoosely == bundle \in {"manifest", "gate", "preview", "final"}

(* mirror-batch-bundle-verify: there is a manifest, and what it lists, and *)
(* all reports, final_gate.json among them.                                *)
Verified == bundle \in {"gate", "preview", "final"}

(* mirror-batch-rehearse, with the dates of the bundle                     *)
Rehearsed == Verified /\ ReviewClear /\ Readiness /\ ChecklistReady

(* mirror-final-gate.  That the bundle is one of the month is not checked. *)
GateReady(m) ==
    /\ Verified /\ Rehearsed
    /\ Promotion(m) # "blocked" /\ OpsClear(m)
    /\ backup = "good" /\ SchemaClear /\ ChecklistReady

-----------------------------------------------------------------------------
(* The bundle *)

(* mirror-batch-bundle, with --overwrite: the reports are computed, the    *)
(* old bundle is removed, the reports and commands.sh are written.         *)
BuildBundle ==
    /\ ~building
    /\ backup # "none"
    /\ bundle' = "reports" /\ embedded' = "none" /\ building' = TRUE
    /\ UNCHANGED <<catalog, sound, backup, papers, run, killed, trouble>>

WriteBaseManifest ==
    /\ building /\ bundle = "reports"
    /\ bundle' = "manifest"
    /\ UNCHANGED <<catalog, sound, backup, building, embedded, papers, run, killed, trouble>>

(* The gate, asked about the half-written bundle, and its report.          *)
EmbedGate(m) ==
    /\ building /\ bundle = "manifest"
    /\ embedded' = IF GateReady(m) THEN "ready" ELSE "blocked"
    /\ bundle' = "gate"
    /\ UNCHANGED <<catalog, sound, backup, building, papers, run, killed, trouble>>

WritePreview ==
    /\ building /\ bundle = "gate"
    /\ bundle' = "preview"
    /\ UNCHANGED <<catalog, sound, backup, building, embedded, papers, run, killed, trouble>>

WriteManifest ==
    /\ building /\ bundle = "preview"
    /\ bundle' = "final" /\ building' = FALSE
    /\ UNCHANGED <<catalog, sound, backup, embedded, papers, run, killed, trouble>>

(* The bundle stays as far as it got.                                      *)
BuilderDies ==
    /\ building /\ Trouble
    /\ building' = FALSE
    /\ UNCHANGED <<catalog, sound, backup, bundle, embedded, papers, run, killed>>

-----------------------------------------------------------------------------
(* What the gate and the certificate put on paper *)

(* mirror-execute-script writes the command only when the gate, asked      *)
(* now, lets it pass.                                                      *)
WriteScript(m) ==
    /\ GateReady(m)
    /\ scripts' = scripts \union {m}
    /\ UNCHANGED <<catalog, sound, backup, bundling, certs, run, killed, trouble>>

(* Mutant: the matrix is not looked at.                                    *)
CertifyAnyway(m) ==
    /\ backup = "good"
    /\ certs' = certs \union {m}
    /\ UNCHANGED <<catalog, sound, backup, bundling, scripts, run, killed, trouble>>

(* mirror-batch-certificate: the daily endpoints are complete, the backup  *)
(* is valid and passes the restore check.  What is in the backup is not    *)
(* looked at.                                                              *)
Certify(m) ==
    /\ backup = "good" /\ MatrixComplete(m)
    /\ certs' = certs \union {m}
    /\ UNCHANGED <<catalog, sound, backup, bundling, scripts, run, killed, trouble>>

-----------------------------------------------------------------------------
(* Runs *)

Begin(step, m, backs, plan) ==
    /\ run.step = "idle"
    /\ run' = [step |-> step, month |-> m, backs |-> backs, plan |-> plan]
    /\ UNCHANGED <<catalog, sound, backup, bundling, papers, killed, trouble>>

(* A mirror-run over a month takes the first MAX_JOBS open days, whatever  *)
(* is there of them already, and leaves the rest out.                      *)
MonthRun(m, backs) == Begin("calendar", m, backs, {<<m, "head">>})

(* The January pilot of the runbook, and the reviewed script.              *)
StartPilot == MonthRun(1, TRUE)
StartConfirmed(m) == m \in scripts /\ MonthRun(m, TRUE)

(* The command mirror-next-batch shows has no --backup-target.             *)
StartRecommended(m) == m = NextMonth /\ MonthRun(m, FALSE)

(* Mutant: a failed day is not taken up again.                             *)
StartMissingOnly(m) ==
    LET open == {p \in PartsOf(m) : cover[p] = "missing"} IN
        /\ CalendarCovered(m) /\ open # {}
        /\ Begin("jobs", m, FALSE, open)

(* backfill-missing --retry-failed over the open days of a month plans     *)
(* those that are missing or failed.                                       *)
StartMissing(m) ==
    LET open == {p \in PartsOf(m) : cover[p] \in {"missing", "failed"}} IN
        /\ CalendarCovered(m) /\ open # {}
        /\ Begin("jobs", m, FALSE, open)

(* Mutant: the run goes on with the month after it.                        *)
AfterItemsOn == [run EXCEPT !.step = "calendar", !.month = @ + 1, !.plan = {}]

(* The end of the items: validation, which only gets recorded, then the    *)
(* backup if there is a --backup-target.                                   *)
AfterItems == IF run.backs THEN [run EXCEPT !.step = "backup", !.plan = {}] ELSE Idle

(* The calendar job of a month is done, also when its answer was empty.    *)
CalendarDone(m) == m \in (calendar \union hollow) \ redo

(* Its answer reaches the lake.  When it is there already, committed by a  *)
(* fetch that ended before the job was done, the listed file is            *)
(* overwritten and no validation passes any more.                          *)
CalendarWritten(m, empty, finished) ==
    /\ calendar' = IF empty THEN calendar \ {m} ELSE calendar \union {m}
    /\ hollow' = IF empty THEN hollow \union {m} ELSE hollow \ {m}
    /\ redo' = IF finished THEN redo \ {m} ELSE redo \union {m}
    /\ sound' = (sound /\ m \notin redo)

FetchCalendar ==
    /\ run.step = "calendar"
    /\ IF CalendarDone(run.month) THEN UNCHANGED <<calendars, sound>>
       ELSE CalendarWritten(run.month, FALSE, TRUE)
    /\ run' = [run EXCEPT !.step = "jobs",
                          !.plan = IF run.month \in calendar' THEN @ ELSE {}]
    /\ UNCHANGED <<cover, dirty, backup, bundling, papers, killed, trouble>>

(* An empty answer is a success: the run plans no day of the month, and    *)
(* its calendar is never fetched again.                                    *)
CalendarEmpty ==
    /\ run.step = "calendar" /\ ~CalendarDone(run.month)
    /\ Trouble
    /\ CalendarWritten(run.month, TRUE, TRUE)
    /\ run' = [run EXCEPT !.step = "jobs", !.plan = {}]
    /\ UNCHANGED <<cover, dirty, backup, bundling, papers, killed>>

(* Daily endpoints are blocked without the calendar fetch of this run.     *)
CalendarFails ==
    /\ run.step = "calendar" /\ ~CalendarDone(run.month)
    /\ Trouble
    /\ \/ UNCHANGED <<calendars, sound>> /\ dirty' \in {dirty, TRUE}
       \/ \E empty \in BOOLEAN : CalendarWritten(run.month, empty, FALSE) /\ dirty' = TRUE
    /\ run' = AfterItems
    /\ UNCHANGED <<cover, backup, bundling, papers, killed>>

(* A quarantined job is not retried by these commands.                     *)
Fetches(p) == p \in run.plan /\ cover[p] \notin {"covered", "quarantined"}

(* A job whose fetch was killed may have committed its file, which is then *)
(* overwritten while it is listed.                                         *)
Overwrites(p) == sound' \in {sound} \union (IF cover[p] = "killed" THEN {FALSE} ELSE {})

JobSucceeds(p) ==
    /\ run.step = "jobs" /\ Fetches(p) /\ Overwrites(p)
    /\ cover' = [cover EXCEPT ![p] = "covered"]
    /\ run' = [run EXCEPT !.plan = @ \ {p}]
    /\ UNCHANGED <<calendars, dirty, backup, bundling, papers, killed, trouble>>

JobFails(p) ==
    /\ run.step = "jobs" /\ Fetches(p) /\ Overwrites(p)
    /\ Trouble
    /\ \E s \in {"failed", "quarantined"} :
           cover' = [cover EXCEPT ![p] = s] /\ dirty' = (dirty \/ s = "quarantined")
    /\ run' = [run EXCEPT !.plan = @ \ {p}]
    /\ UNCHANGED <<calendars, backup, bundling, papers, killed>>

EndJobs ==
    /\ run.step = "jobs" /\ ~\E p \in run.plan : Fetches(p)
    /\ run' = AfterItems
    /\ UNCHANGED <<catalog, sound, backup, bundling, papers, killed, trouble>>

(* mirror-run passes no --overwrite: the executor raises when there is a   *)
(* backup, or when a file does not match the catalog, and nothing catches  *)
(* it before the row of the run is finished.                               *)
BackUp ==
    /\ run.step = "backup"
    /\ IF backup = "none" /\ sound
       THEN backup' = "good" /\ run' = Idle
       ELSE run' = [run EXCEPT !.step = "raised"] /\ UNCHANGED backup
    /\ UNCHANGED <<catalog, sound, bundling, papers, killed, trouble>>

(* The process ends; the row of the run says "running" for good.           *)
Traceback ==
    /\ run.step = "raised"
    /\ run' = Idle
    /\ UNCHANGED <<catalog, sound, backup, bundling, papers, killed, trouble>>

RunDies ==
    /\ run.step \notin {"idle", "raised"} /\ Trouble
    /\ killed' = TRUE
    /\ \/ UNCHANGED <<calendars, cover, sound>>
       \/ /\ run.step = "calendar" /\ ~CalendarDone(run.month)
          /\ \E empty \in BOOLEAN : CalendarWritten(run.month, empty, FALSE)
          /\ UNCHANGED cover
       \/ /\ run.step = "jobs"
          /\ \E p \in run.plan :
                 Fetches(p) /\ Overwrites(p) /\ cover' = [cover EXCEPT ![p] = "killed"]
          /\ UNCHANGED calendars
    /\ run' = Idle
    /\ UNCHANGED <<dirty, backup, bundling, papers>>

(* backup --overwrite; Backup has its steps.                               *)
RenewBackup ==
    /\ sound /\ run.step = "idle" /\ backup # "good"
    /\ backup' = "good"
    /\ UNCHANGED <<catalog, sound, bundling, papers, run, killed, trouble>>

(* Files that get lost, a backup that is written to, or removed.           *)
Damage ==
    /\ Trouble
    /\ \/ sound' = FALSE /\ UNCHANGED backup
       \/ backup # "none" /\ backup' \in {"none", "damaged"} /\ UNCHANGED sound
    /\ UNCHANGED <<catalog, bundling, papers, run, killed>>

-----------------------------------------------------------------------------
ContinueRun == FetchCalendar \/ EndJobs \/ BackUp \/ Traceback \/ \E p \in Parts : JobSucceeds(p)
ContinueBundle ==
    WriteBaseManifest \/ WritePreview \/ WriteManifest \/ \E m \in Months : EmbedGate(m)

Next ==
    \/ ContinueRun \/ ContinueBundle
    \/ CalendarEmpty \/ CalendarFails \/ RunDies \/ BuilderDies \/ Damage
    \/ \E p \in Parts : JobFails(p)
    \/ StartPilot \/ BuildBundle \/ RenewBackup
    \/ \E m \in Months :
           StartConfirmed(m) \/ StartRecommended(m) \/ StartMissing(m) \/ WriteScript(m) \/ Certify(m)

Spec == Init /\ [][Next]_vars

(* Commands go on; the operator does the month mirror-next-batch names,    *)
(* January by the runbook's pilot, the others with a fresh bundle and a    *)
(* script, takes up what is missing or failed of it, and keeps a good      *)
(* backup.  Nothing asks for the commands next-batch shows.                *)
Current == Months \intersect {NextMonth}
FairSpec ==
    /\ Spec
    /\ WF_vars(ContinueRun) /\ WF_vars(ContinueBundle)
    /\ SF_vars(RenewBackup)
    /\ SF_vars(BuildBundle /\ ~Verified)
    /\ SF_vars(\E m \in Current \ scripts : WriteScript(m))
    /\ SF_vars(\E m \in Current : StartConfirmed(m) \/ (m = 1 /\ StartPilot))
    /\ SF_vars(\E m \in Current : StartMissing(m))

-----------------------------------------------------------------------------
(* Safety *)

Touched(m) == m \in calendar \/ \E p \in PartsOf(m) : cover[p] # "missing"

(* Months are done in order: once a run has touched a month, no open day   *)
(* of an earlier one was left out, although a script may be used long      *)
(* after its gate, the gate looks at one month back only, and a month      *)
(* longer than max-jobs-per-api is not finished by its own run.  Its       *)
(* calendar may be lost later by a fetch that overwrites it, which the     *)
(* validation shows.                                                       *)
InOrder ==
    \A m \in Months : Touched(m) =>
        \A k \in 1..(m - 1) :
            /\ k \in calendar \/ ~sound
            /\ \A p \in PartsOf(k) : cover[p] # "missing"

(* The gate (coverage matrix, promotion) and mirror-next-batch judge       *)
(* coverage with code of their own: the gate never lets a month pass that  *)
(* is beyond the recommended one, unless a run was killed.                 *)
GateWithinNextBatch == ~killed => \A m \in Months : GateReady(m) => m <= NextMonth

(* A certificate stays true whatever runs later, unless a run was killed   *)
(* or the latest snapshots have ceased to validate.                        *)
CertificateStaysTrue == ~killed /\ sound => \A m \in certs : MonthComplete(m)

(* The gate report in a bundle never says that a month may be run: it was  *)
(* computed on a bundle that still lacked this report.                     *)
EmbeddedGateBlocked == embedded # "ready"

(* "If --backup-target is provided, run local backup and restore-check":   *)
(* a run that nobody killed does not end in an exception, unfinished.      *)
RunsFinish == run.step # "raised"

-----------------------------------------------------------------------------
(* Liveness *)

(* Every month is completed in the end, whatever failed before, unless a   *)
(* quarantine row or a lost or overwritten file has closed the gates for   *)
(* good, the calendar answer of a month was empty, which nothing asks for  *)
(* again, or a job beyond max-jobs-per-api was killed: the month's run     *)
(* does not reach it and backfill-missing does not call it missing.        *)
Stuck ==
    \/ dirty \/ ~sound \/ hollow # {}
    \/ \E m \in LongMonths : cover[<<m, "tail">>] = "killed"
EveryMonthComplete == <>(Stuck \/ \A m \in Months : MonthComplete(m))
=============================================================================
