----------------------------- MODULE MirrorRun ------------------------------
(***************************************************************************)
(* A mirror run (MirrorOrchestrator in mirror.py): probe every endpoint,   *)
(* fetch the trading calendar, then the references, backfill the daily     *)
(* endpoints over the open days of the local calendar and the periodic     *)
(* ones over period ends, validate, back up.  It is called by the window   *)
(* loop of mirror-auto-sync, by mirror-run and, for the jobs of one        *)
(* endpoint alone, by backfill-missing.                                    *)
(*                                                                         *)
(* One process writes, as the documents ask; AutoSync has what two of them *)
(* do to the checkpoint, FileLake what a fetch does to the files.  Here a  *)
(* fetch is one step with the outcomes FileLake allows it.  Days are       *)
(* 1..LastDay.  Endpoints of one stage do not depend on each other: a run  *)
(* takes them in any order.                                                *)
(***************************************************************************)
EXTENDS Naturals, FiniteSets

CONSTANTS
    Cal,         \* the calendar endpoint of the scope
    Refs,        \* reference endpoints
    Dailies,     \* daily-like endpoints
    Weeklies, Monthlies, \* periodic endpoints, of the A-share scope only
    LastDay,
    OpenDays,    \* the days on which the exchange is open
    Fridays,
    WeekEnds, MonthEnds, \* the last natural days of weeks and months
    PilotDays,   \* January 2025, whose period dates are a fixed list
    PilotDates,  \* that list
    SmokeDays,   \* the last day of the window of the smoke mode
    Caps,        \* values of --max-jobs-per-api
    MaxAttempts, \* --max-attempts of mirror-auto-sync
    MaxTrouble   \* bound on requests and checks that go wrong, kills, and
                 \* calls that are not of the window loop

ASSUME DaysAssumption ==
    /\ LastDay \in Nat \ {0} /\ OpenDays \subseteq 1..LastDay
    /\ Fridays \subseteq 1..LastDay /\ SmokeDays \in 1..LastDay
    /\ PilotDates \subseteq PilotDays /\ PilotDays \subseteq 1..LastDay
    /\ \A d \in 1..LastDay : \A ends \in {WeekEnds, MonthEnds} :
           \E x \in ends : x \in Nat /\ x >= d
ASSUME EndpointsAssumption ==
    /\ Cal \notin Refs \union Dailies \union Weeklies \union Monthlies
    /\ Refs \intersect (Dailies \union Weeklies \union Monthlies) = {}
    /\ Dailies \intersect (Weeklies \union Monthlies) = {}
ASSUME BoundsAssumption ==
    /\ Caps \subseteq Nat \ {0} /\ MaxAttempts \in Nat \ {0} /\ MaxTrouble \in Nat

Days == 1..LastDay
Windows == {w \in Days \X Days : w[1] <= w[2]}
Span(w) == w[1]..w[2]
Periodics == Weeklies \union Monthlies
Endpoints == {Cal} \union Refs \union Dailies \union Periodics

VARIABLES
    scope,       \* "a_share" or "hk_us"
    active,      \* jobs that are done and have active data
    half,        \* jobs with active data that are not done
    spoiled,     \* a file with a row in a latest snapshot has been overwritten
    row,         \* status in the catalog of each job of a backfill
    staged,      \* those with a file row left staged
    quarantined, \* those with a quarantine row
    dirty,       \* some job of the scope has a quarantine row
    hollow,      \* calendar jobs whose answer was empty
    next,        \* next_start_date of the checkpoint
    excused,     \* <<endpoint, day>> a window was passed without, see PassWindow
    announced,   \* jobs the plan shown before a mirror-run promised to fetch
    trouble,     \* counts what MaxTrouble bounds
    killed,      \* a process has been killed
    caller,      \* "none", "sync", "direct", "smoke" or "missing"
    win,         \* the window
    cap,         \* max_jobs_per_api
    attempt,     \* attempts on the window
    pc,          \* "idle", "probe", "items", "jobs" or "check"
    refused,     \* endpoints whose probe failed, with the reason
    pending,     \* endpoints without an item in the run's summary yet
    problems,    \* items with status failed or blocked
    api,         \* endpoint of the current backfill
    plan         \* days of its jobs that are left

catalog == <<active, half, spoiled, row, staged, quarantined, dirty, hollow>>
history == <<next, excused, announced>>
bounds == <<trouble, killed>>
call == <<caller, win, cap>>
backfill == <<api, plan>>
vars == <<scope, catalog, history, bounds, call, attempt, pc, refused, pending,
          problems, backfill>>

-----------------------------------------------------------------------------
(* Jobs: one per endpoint and parameters. *)
DateJob(e, d) == <<e, d, d>>
CalendarJob(w) == <<Cal, w[1], w[2]>>
ReferenceJob(e) == <<e, 0, 0>>
FetchJob(e, w) == IF e = Cal THEN CalendarJob(w) ELSE ReferenceJob(e)
DateJobs == {DateJob(e, d) : e \in Dailies \union Periodics, d \in Days}
Jobs == {CalendarJob(w) : w \in Windows} \union {ReferenceJob(e) : e \in Refs}
        \union DateJobs

Reasons == {"transient", "permanent", "missing_calendar"}
Item(e, status, reason) == [endpoint |-> e, status |-> status, reason |-> reason]
Items == [endpoint : Endpoints, status : {"failed", "blocked"}, reason : Reasons]

(* Jobs with files in the latest snapshot of their endpoint.               *)
Listed == active \union half

(* The days the latest calendar snapshot knows; a calendar of the HK and   *)
(* US scopes lists open days only.                                         *)
HasCalendar == \E w \in Windows : CalendarJob(w) \in Listed
KnownDays == UNION {Span(w) : w \in {v \in Windows :
                        CalendarJob(v) \in Listed \ hollow}}
KnownOpen == KnownDays \intersect OpenDays

(* Mutant: days are planned whether the exchange is open or not.           *)
AllDaysOf(w) == Span(w)

(* DatePlanner with trading_days_only.                                     *)
TradingDays(w) == Span(w) \intersect KnownOpen

(* plan_date_backfill takes the first n of the sorted dates.               *)
Cut(days, n) == {d \in days : Cardinality({x \in days : x < d}) < n}

(* Mutant: the status of a failed job is taken for that of a running one.  *)
StatusFailedUnknown(j) ==
    CASE j \in active -> "active_exists"
      [] j \in quarantined \ active -> "quarantined_exists"
      [] j \in staged \ (active \union quarantined) -> "staged_exists"
      [] OTHER -> IF row[j] = "none" THEN "missing" ELSE "unknown"

(* _existing_status_and_action                                             *)
ExistingStatus(j) ==
    CASE j \in active -> "active_exists"
      [] j \in quarantined \ active -> "quarantined_exists"
      [] j \in staged \ (active \union quarantined) -> "staged_exists"
      [] OTHER -> CASE row[j] = "failed" -> "failed_exists"
                    [] row[j] = "none" -> "missing"
                    [] OTHER -> "unknown"

(* The days CoverageReporter counts under a status.                        *)
StatusDays(e, w, s) == {d \in TradingDays(w) : ExistingStatus(DateJob(e, d)) = s}

-----------------------------------------------------------------------------
(* Period dates *)

Ends(e) == IF e \in Weeklies THEN WeekEnds ELSE MonthEnds
PeriodEnd(e, d) == CHOOSE x \in Ends(e) : x >= d /\ \A y \in Ends(e) : y >= d => x <= y
SamePeriod(e, c, d) == PeriodEnd(e, c) = PeriodEnd(e, d)

(* A Friday ends its week, and a natural month end its month.              *)
Settled(e, d) == IF e \in Weeklies THEN d \in Fridays ELSE d = PeriodEnd(e, d)

(* Mutant: a Friday waits for the end of the week too.                     *)
CompleteAtEnd(e, d, last) == last >= PeriodEnd(e, d)

(* _period_candidate_is_complete                                           *)
CandidateComplete(e, d, last) == Settled(e, d) \/ last >= PeriodEnd(e, d)

LastIn(e, days) == {d \in days : \A x \in days : SamePeriod(e, x, d) => x <= d}

(* _trade_calendar_period_dates, over the periods the window touches.      *)
CalendarPeriodDates(e, w) ==
    LET touched == {d \in Days : \E x \in Span(w) : SamePeriod(e, d, x)}
    IN  {d \in LastIn(e, touched \intersect KnownOpen) \intersect Span(w) :
             CandidateComplete(e, d, w[2])}

(* _calendar_weekly_dates, _calendar_monthly_dates                         *)
NaturalPeriodDates(e, w) ==
    IF e \in Weeklies THEN Span(w) \intersect Fridays ELSE LastIn(e, Span(w))

(* _pilot_compatible_period_dates                                          *)
PeriodDates(e, w) ==
    LET found == IF KnownDays \intersect Span(w) = {}
                 THEN NaturalPeriodDates(e, w) ELSE CalendarPeriodDates(e, w)
    IN  (found \ PilotDays) \union (PilotDates \intersect Span(w))

(* What the items of a run, a plan and the coverage matrix range over; the *)
(* smoke mode lists its period dates.                                      *)
DatesOf(e, w) ==
    IF e \in Dailies THEN TradingDays(w)
    ELSE IF caller = "smoke" THEN PilotDates ELSE PeriodDates(e, w)

-----------------------------------------------------------------------------
Init ==
    /\ scope \in {"a_share", "hk_us"}
    /\ active = {} /\ half = {} /\ staged = {} /\ quarantined = {} /\ hollow = {}
    /\ spoiled = FALSE
    /\ row = [j \in DateJobs |-> "none"] /\ dirty = FALSE
    /\ next = 1 /\ excused = {} /\ announced = {}
    /\ trouble = 0 /\ killed = FALSE
    /\ caller = "none" /\ win = <<1, 1>> /\ cap = 1
    /\ attempt = 0 /\ pc = "idle"
    /\ refused = {} /\ pending = {} /\ problems = {}
    /\ api = Cal /\ plan = {}

(* Every local and every part of the catalog holds what it may.            *)
TypeOK ==
    /\ scope \in {"a_share", "hk_us"}
    /\ active \subseteq Jobs /\ staged \subseteq DateJobs /\ quarantined \subseteq DateJobs
    /\ half \subseteq Jobs /\ spoiled \in BOOLEAN /\ dirty \in BOOLEAN
    /\ hollow \subseteq {CalendarJob(w) : w \in Windows}
    /\ row \in [DateJobs -> {"none", "running", "failed", "done"}]
    /\ next \in 1..(LastDay + 1)
    /\ excused \subseteq (Dailies \union Periodics) \X Days
    /\ announced \subseteq Jobs
    /\ trouble \in 0..MaxTrouble /\ killed \in BOOLEAN
    /\ caller \in {"none", "sync", "direct", "smoke", "missing"}
    /\ win \in Windows /\ cap \in Caps \union {1}
    /\ attempt \in 0..MaxAttempts
    /\ pc \in {"idle", "probe", "items", "jobs", "check"}
    /\ refused \subseteq [endpoint : Endpoints, reason : Reasons]
    /\ pending \subseteq Endpoints
    /\ problems \subseteq Items
    /\ api \in Endpoints /\ plan \subseteq Days

ScopeEndpoints ==
    {Cal} \union Refs \union Dailies \union (IF scope = "a_share" THEN Periodics ELSE {})

Trouble == trouble < MaxTrouble /\ trouble' = trouble + 1
Fault == Trouble /\ UNCHANGED killed
NoFault == UNCHANGED bounds

Begin(who, w, n) ==
    /\ pc = "idle"
    /\ caller' = who /\ win' = w /\ cap' = n
    /\ pc' = "probe"

(* The call is over, whatever its outcome.                                 *)
Idle ==
    /\ caller' = "none" /\ win' = <<1, 1>> /\ cap' = 1
    /\ attempt' = 0 /\ pc' = "idle"
    /\ refused' = {} /\ pending' = {} /\ problems' = {}
    /\ api' = Cal /\ plan' = {}

(* Mutant: the size of a window is not compared with max_jobs_per_api.     *)
WindowAllowed(n, c) == n <= LastDay

(* "so no endpoint window can be silently truncated" (mirror.py:6321)      *)
WindowFits(n, c) == n <= c

WindowFrom(d, n) == <<d, IF d + n - 1 < LastDay THEN d + n - 1 ELSE LastDay>>

(* A call of mirror-auto-sync starts with a window of n days; HK and US    *)
(* scopes are refused next to a quarantine row.                            *)
StartWindow(n, c) ==
    /\ WindowFits(n, c)
    /\ scope = "hk_us" => ~dirty
    /\ next <= LastDay
    /\ Begin("sync", WindowFrom(next, n), c)
    /\ attempt' = 1
    /\ UNCHANGED <<scope, catalog, history, bounds, refused, pending, problems, backfill>>

(* Jobs mirror-plan names for a window; daily endpoints are planned once   *)
(* there is a calendar, with what it knows then.                           *)
PlannedJobs(w, n) ==
    IF HasCalendar
    THEN {j \in {DateJob(e, d) : e \in Dailies, d \in Cut(TradingDays(w), n)} :
              ExistingStatus(j) \notin {"active_exists", "quarantined_exists"}}
    ELSE {}

(* mirror-plan, then mirror-run in pilot mode over any window.             *)
StartDirect(w, n) ==
    /\ Trouble /\ UNCHANGED killed
    /\ Begin("direct", w, n)
    /\ announced' = IF Cardinality(Span(w)) <= n THEN PlannedJobs(w, n) ELSE {}
    /\ UNCHANGED <<scope, catalog, next, excused, attempt, refused, pending, problems,
                   backfill>>

(* mirror-run in smoke mode.                                               *)
StartSmoke(n) ==
    /\ Trouble /\ UNCHANGED killed
    /\ Begin("smoke", <<1, SmokeDays>>, n)
    /\ UNCHANGED <<scope, catalog, history, attempt, refused, pending, problems, backfill>>

(* backfill-missing of one daily endpoint: the first n dates coverage      *)
(* calls missing, and the failed ones with --retry-failed.                 *)
StartMissing(e, w, n, retryFailed) ==
    /\ Trouble /\ UNCHANGED killed
    /\ pc = "idle" /\ HasCalendar
    /\ LET failed == IF retryFailed THEN StatusDays(e, w, "failed_exists") ELSE {}
           days == Cut(StatusDays(e, w, "missing") \union failed, n)
       IN  days # {} /\ plan' = days
    /\ caller' = "missing" /\ win' = w /\ cap' = n
    /\ pc' = "jobs" /\ api' = e
    /\ UNCHANGED <<scope, catalog, history, attempt, refused, pending, problems>>

(* _probe_all: an endpoint whose probe fails, for a transient reason after *)
(* three attempts, is blocked for the whole run.                           *)
ProbeAll ==
    /\ pc = "probe"
    /\ \/ refused' = {} /\ NoFault
       \/ \E e \in ScopeEndpoints, r \in {"transient", "permanent"} :
              refused' = {[endpoint |-> e, reason |-> r]} /\ Fault
    /\ pending' = ScopeEndpoints
    /\ pc' = "items"
    /\ UNCHANGED <<scope, catalog, history, call, attempt, problems, backfill>>

Refused(e) == \E p \in refused : p.endpoint = e
ProbeReason(e) == (CHOOSE p \in refused : p.endpoint = e).reason

(* Calendar first, then references, daily endpoints, periodic ones.        *)
Turn(e) ==
    /\ pc = "items" /\ e \in pending
    /\ e \in Refs => Cal \notin pending
    /\ e \in Dailies => pending \intersect ({Cal} \union Refs) = {}
    /\ e \in Periodics => pending \subseteq Periodics

Report(e, found) ==
    /\ pending' = pending \ {e}
    /\ problems' = problems \union found

CalendarFailed == \E i \in problems : i.endpoint = Cal

(* Daily endpoints need a calendar and this run's fetch of it; the others  *)
(* are blocked by their own probe only.                                    *)
MissesCalendar(e) == e \in Dailies /\ (~HasCalendar \/ CalendarFailed)

BlockedItem(e) ==
    /\ Turn(e)
    /\ MissesCalendar(e) \/ Refused(e)
    /\ Report(e, {Item(e, "blocked", IF MissesCalendar(e) THEN "missing_calendar"
                                     ELSE ProbeReason(e))})
    /\ UNCHANGED <<scope, catalog, history, bounds, call, attempt, pc, refused, backfill>>

-----------------------------------------------------------------------------
(* What a fetch of FileLakeStore leaves in the catalog.  The rows of        *)
(* calendar and reference jobs, which decide nothing, are left out.        *)

Record(j, status) == row' = [k \in DateJobs |-> IF k = j THEN status ELSE row[k]]

(* How far the files of a fetch that does not succeed have come: nowhere,  *)
(* moved to their places, or committed to a snapshot with the job not yet  *)
(* done.  A later fetch of that job moves its files to the same places,    *)
(* over files that stay listed with their old size and hash.               *)
Steps == {"nowhere", "moved", "committed"}
Reaches(j, far) ==
    /\ half' = IF far = "committed" THEN half \union {j} ELSE half
    /\ spoiled' = (spoiled \/ (j \in half /\ far # "nowhere"))

(* A calendar answer that is in the lake may be empty.                     *)
MayBeHollow(j, far) ==
    \/ UNCHANGED hollow
    \/ /\ \E w \in Windows : j = CalendarJob(w)
       /\ far = "committed" \/ (far = "moved" /\ j \in half)
       /\ hollow' \in {hollow \ {j}, hollow \union {j}}

FetchSucceeds(j) ==
    /\ active' = active \union {j}
    /\ half' = half \ {j}
    /\ spoiled' = (spoiled \/ j \in half)
    /\ Record(j, "done")
    /\ UNCHANGED <<staged, quarantined, dirty>>

(* A request that fails leaves nothing behind; a rejected answer, a         *)
(* failure to write or one after the commit leaves a quarantine row.       *)
FetchFails(j, far, leavesQuarantine) ==
    /\ far # "nowhere" => leavesQuarantine
    /\ Record(j, "failed")
    /\ Reaches(j, far) /\ MayBeHollow(j, far)
    /\ quarantined' = quarantined \union (IF leavesQuarantine THEN {j} \intersect DateJobs ELSE {})
    /\ dirty' = (dirty \/ leavesQuarantine)
    /\ Fault
    /\ UNCHANGED <<active, staged>>

(* _execute_fetch of the calendar or of a reference.                       *)
CanFetch(e) == Turn(e) /\ e \in {Cal} \union Refs /\ ~Refused(e)
Fetched(e) == FetchJob(e, win) \in active

FetchItemSkipped(e) ==
    /\ CanFetch(e) /\ Fetched(e)
    /\ Report(e, {})
    /\ UNCHANGED <<scope, catalog, history, bounds, call, attempt, pc, refused, backfill>>

FetchItemSucceeds(e) ==
    /\ CanFetch(e) /\ ~Fetched(e)
    /\ FetchSucceeds(FetchJob(e, win))
    /\ hollow' = hollow \ {FetchJob(e, win)}
    /\ NoFault
    /\ Report(e, {})
    /\ UNCHANGED <<scope, history, call, attempt, pc, refused, backfill>>

(* An empty answer is a success; a calendar without rows opens no day.     *)
FetchItemEmpty ==
    /\ CanFetch(Cal) /\ ~Fetched(Cal)
    /\ FetchSucceeds(CalendarJob(win))
    /\ hollow' = hollow \union {CalendarJob(win)}
    /\ Fault
    /\ Report(Cal, {})
    /\ UNCHANGED <<scope, history, call, attempt, pc, refused, backfill>>

(* An exception carries its type; a rejected answer ends without one and   *)
(* so without an error_type, which later counts as unknown_error, as does  *)
(* any error after the commit.                                             *)
FetchItemFails(e) ==
    /\ CanFetch(e) /\ ~Fetched(e)
    /\ \E r \in {"transient", "permanent"}, far \in Steps, q \in BOOLEAN :
           /\ far = "committed" => r = "transient"
           /\ FetchFails(FetchJob(e, win), far, q)
           /\ Report(e, {Item(e, "failed", r)})
    /\ UNCHANGED <<scope, history, call, attempt, pc, refused, backfill>>

-----------------------------------------------------------------------------
(* BackfillExecutor *)

CanBackfill(e) ==
    Turn(e) /\ e \in Dailies \union Periodics /\ ~Refused(e) /\ ~MissesCalendar(e)

(* Mutant: the run leaves the last date of the plan out.                   *)
PlannedDatesShort(e) == Cut(DatesOf(e, win), cap - 1)

PlannedDates(e) == Cut(DatesOf(e, win), cap)

PlanBackfill(e) ==
    /\ CanBackfill(e)
    /\ LET days == PlannedDates(e) IN
           IF days = {} THEN Report(e, {}) /\ UNCHANGED <<pc, backfill>>
           ELSE /\ api' = e /\ plan' = days /\ pc' = "jobs"
                /\ UNCHANGED <<pending, problems>>
    /\ UNCHANGED <<scope, catalog, history, bounds, call, attempt, refused>>

Day == CHOOSE d \in plan : \A x \in plan : d <= x
Job == DateJob(api, Day)

(* The next job; the last one ends the item, or the call of                *)
(* backfill-missing.  Items of a backfill carry no error_type.             *)
ToNextJob(found) ==
    IF plan # {Day}
    THEN /\ plan' = plan \ {Day} /\ problems' = problems \union found
         /\ UNCHANGED <<call, attempt, pc, refused, pending, api>>
    ELSE IF caller = "missing" THEN Idle
    ELSE /\ plan' = {} /\ api' = Cal /\ pc' = "items"
         /\ Report(api, found)
         /\ UNCHANGED <<call, attempt, refused>>
Failure == {Item(api, "failed", "transient")}

(* Mutant: the window loop does not retry quarantined jobs.                *)
NeverRetryQuarantined == FALSE

(* Only the window loop passes allow_quarantined_retry.                    *)
RetryQuarantined == caller = "sync"

JobBlocked == ExistingStatus(Job) = "quarantined_exists" /\ ~RetryQuarantined

JobSkipped ==
    /\ pc = "jobs" /\ (Job \in active \/ JobBlocked)
    /\ ToNextJob(IF JobBlocked THEN Failure ELSE {})
    /\ UNCHANGED <<scope, catalog, history, bounds>>

JobSucceeds ==
    /\ pc = "jobs" /\ Job \notin active /\ ~JobBlocked
    /\ FetchSucceeds(Job)
    /\ NoFault
    /\ ToNextJob({})
    /\ UNCHANGED <<scope, hollow, history>>

JobFails ==
    /\ pc = "jobs" /\ Job \notin active /\ ~JobBlocked
    /\ \E far \in Steps, q \in BOOLEAN : FetchFails(Job, far, q)
    /\ ToNextJob(Failure)
    /\ UNCHANGED <<scope, history>>

-----------------------------------------------------------------------------
(* The end of a run *)

EndItems ==
    /\ pc = "items" /\ pending = {}
    /\ pc' = "check"
    /\ UNCHANGED <<scope, catalog, history, bounds, call, attempt, refused, pending,
                   problems, backfill>>

(* The run's status: blocked items other than the calendar do not fail it. *)
RunSucceeded ==
    /\ \A i \in problems : i.status # "failed"
    /\ ~CalendarFailed

(* validate_latest_snapshots compares every listed file with its row.      *)
Valid == ~spoiled

(* _retryable_result: the checks pass, and every failed or blocked item    *)
(* has a transient reason.                                                 *)
Retryable == Valid /\ problems # {} /\ \A i \in problems : i.reason = "transient"

(* Validation, backup and restore check pass.  The window counts as done,  *)
(* also without what its blocked items or its calendar kept out.           *)
PassWindow ==
    /\ pc = "check" /\ caller = "sync" /\ RunSucceeded /\ Valid
    /\ next' = win[2] + 1
    /\ excused' = excused \union {x \in (Dailies \union Periodics) \X Span(win) :
                                      Refused(x[1]) \/ x[2] \notin KnownDays}
    /\ UNCHANGED <<scope, catalog, announced, bounds>>

(* The to-date of the call is reached, or its next window starts.          *)
PassLast == PassWindow /\ Idle

PassToNext ==
    /\ PassWindow
    /\ win[2] < LastDay
    /\ win' = WindowFrom(win[2] + 1, Cardinality(Span(win)))
    /\ attempt' = 1 /\ pc' = "probe"
    /\ refused' = {} /\ problems' = {}
    /\ UNCHANGED <<caller, cap, pending, backfill>>

(* Mutant: the limit on attempts is not tested.                            *)
RetryBeyond ==
    /\ pc = "check" /\ caller = "sync"
    /\ ~RunSucceeded /\ Retryable
    /\ attempt' = attempt + 1
    /\ pc' = "probe"
    /\ refused' = {} /\ problems' = {}
    /\ UNCHANGED <<scope, catalog, history, bounds, call, pending, backfill>>

RetryWindow ==
    /\ pc = "check" /\ caller = "sync"
    /\ ~RunSucceeded /\ Retryable /\ attempt < MaxAttempts
    /\ attempt' = attempt + 1
    /\ pc' = "probe"
    /\ refused' = {} /\ problems' = {}
    /\ UNCHANGED <<scope, catalog, history, bounds, call, pending, backfill>>

FailWindow ==
    /\ pc = "check" /\ caller = "sync"
    /\ ~RunSucceeded /\ (~Retryable \/ attempt = MaxAttempts)
    /\ Idle
    /\ UNCHANGED <<scope, catalog, history, bounds>>

(* A check fails or raises: the window is neither passed nor retried.  The *)
(* validation fails in every run once a listed file has been overwritten.  *)
CheckFails ==
    /\ pc = "check" /\ caller = "sync"
    /\ (RunSucceeded /\ ~Valid /\ NoFault) \/ Fault
    /\ Idle
    /\ UNCHANGED <<scope, catalog, history>>

EndDirect ==
    /\ pc = "check" /\ caller # "sync"
    /\ announced' = {}
    /\ Idle
    /\ UNCHANGED <<scope, catalog, next, excused, bounds>>

(* A kill, perhaps in the middle of a fetch, with a staged row or after    *)
(* the commit of its snapshot.                                             *)
InFlight ==
    IF pc = "jobs" THEN IF Job \notin active /\ ~JobBlocked THEN {Job} ELSE {}
    ELSE {FetchJob(e, win) : e \in {x \in {Cal} \union Refs : CanFetch(x) /\ ~Fetched(x)}}
Die ==
    /\ pc # "idle"
    /\ Trouble /\ killed' = TRUE
    /\ \/ UNCHANGED <<half, spoiled, hollow, row, staged>>
       \/ \E j \in InFlight, far \in Steps :
              /\ Record(j, "running")
              /\ Reaches(j, far) /\ MayBeHollow(j, far)
              /\ staged' \in {staged, staged \union
                                  (IF far = "committed" THEN {} ELSE {j} \intersect DateJobs)}
    /\ announced' = {}
    /\ Idle
    /\ UNCHANGED <<scope, active, quarantined, dirty, next, excused>>

-----------------------------------------------------------------------------
Continue ==
    \/ ProbeAll
    \/ \E e \in Endpoints :
           \/ BlockedItem(e) \/ PlanBackfill(e)
           \/ FetchItemSkipped(e) \/ FetchItemSucceeds(e) \/ FetchItemFails(e)
    \/ FetchItemEmpty
    \/ JobSkipped \/ JobSucceeds \/ JobFails
    \/ EndItems \/ PassLast \/ PassToNext \/ RetryWindow \/ FailWindow \/ CheckFails \/ EndDirect

StartSync == \E n \in Days, c \in Caps : StartWindow(n, c)
StartOther ==
    \E w \in Windows, n \in Caps :
        \/ StartDirect(w, n) \/ StartSmoke(n)
        \/ \E e \in Dailies, b \in BOOLEAN : StartMissing(e, w, n, b)

Next == StartSync \/ StartOther \/ Continue \/ Die

Spec == Init /\ [][Next]_vars

(* A run goes on, and the operator calls mirror-auto-sync again until the  *)
(* range is in, with calls of other kinds in between.                      *)
FairSpec == Spec /\ WF_vars(Continue) /\ SF_vars(StartSync)

-----------------------------------------------------------------------------
(* Safety *)

(* The checkpoint stands for data: each open day before it has active data *)
(* of every daily endpoint, after retries, kills, failed, quarantined and  *)
(* half-done jobs and truncated direct runs, except where a probe refused  *)
(* the endpoint or the calendar did not know the day when the window ran.  *)
CheckpointComplete ==
    \A e \in Dailies, d \in OpenDays :
        d < next /\ <<e, d>> \notin excused => DateJob(e, d) \in active

(* Splitting a range into windows loses no Friday and no month end: each   *)
(* one before the checkpoint that closes its period is there, whatever the *)
(* windows were.  A period that closes on another day has no such promise. *)
SettledPeriodsKept ==
    scope = "a_share" =>
        \A e \in Periodics : \A d \in LastIn(e, OpenDays) \ PilotDays :
            d < next /\ Settled(e, d) /\ <<e, d>> \notin excused => DateJob(e, d) \in active

(* "no natural-day fallback": a daily endpoint never has a job of a day    *)
(* on which the exchange is closed.                                        *)
OpenDaysOnly == \A e \in Dailies, d \in Days \ OpenDays : row[DateJob(e, d)] = "none"

(* A mirror-run that reports no problem did all that the plan shown before *)
(* announced, although it plans again with the calendar it fetches.  One   *)
(* whose validation fails does report a problem.                           *)
PlanKept ==
    pc = "check" /\ caller = "direct" /\ problems = {} /\ Valid => announced \subseteq active

(* mirror-coverage-matrix and what certificates and next-batch ask of it.  *)
Complete(e, w) ==
    LET days == TradingDays(w)
        missed == {"missing", "failed_exists", "quarantined_exists"}
    IN  days # {} /\ \A d \in days : ExistingStatus(DateJob(e, d)) \notin missed

(* "Readiness must be blocked when ... pilot coverage is incomplete": a     *)
(* range counts as complete only when its days are covered.  A job whose   *)
(* fetch was killed has none of the three statuses that are counted.       *)
CompleteMeansCovered ==
    \A e \in Dailies, w \in Windows :
        Complete(e, w) => \A d \in TradingDays(w) : DateJob(e, d) \in active

(* As long as nothing is killed, it does.                                  *)
CompleteUnlessKilled == ~killed => CompleteMeansCovered

-----------------------------------------------------------------------------
(* Liveness *)

(* Once requests stop failing, repeated calls bring the whole range in,    *)
(* whatever failed, was quarantined or killed before.  There are two       *)
(* exceptions, which nothing but an operator ends: the gate of the HK and  *)
(* US scopes has met a quarantine row, or a job that a fetch had left      *)
(* active but not done was fetched again, over a file that is listed with  *)
(* its old hash, and every validation fails from then on.                  *)
EventuallySynced == <>(next = LastDay + 1 \/ (scope = "hk_us" /\ dirty) \/ spoiled)
=============================================================================
