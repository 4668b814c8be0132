------------------------------- MODULE Plans --------------------------------
(***************************************************************************)
(* The planners that only plan: which jobs code-list-plan, code-date-      *)
(* matrix-plan, period-plan and code-period-plan list for an endpoint, the *)
(* registry that calls them by planner kind, and what is said about the    *)
(* plans: the request estimate, the coverage matrix and the bundle of      *)
(* financial-pull-command.                                                 *)
(*                                                                         *)
(* Codes and dates are numbers, in their order, and a period is the number *)
(* of its quarter.  An optional argument is a set with at most one         *)
(* element.  An endpoint is a config of Policy with three more fields:     *)
(* takesCode, takesPeriod (period_strategy) and listed (whether the code-  *)
(* date planner knows the api).  A lake maps the params of a job to what   *)
(* the catalog has for it: active, quarantined, staged and the job's row.  *)
(***************************************************************************)
EXTENDS Policy, Integers, Sequences, FiniteSets

AtMost(n, limit) == IF n > limit THEN limit ELSE n
NotNegative(n) == IF n < 0 THEN 0 ELSE n
ValueOf(argument, default) == IF argument = {} THEN default ELSE CHOOSE n \in argument : TRUE

(* The first n of a set of numbers: a list cut with [:n].                  *)
First(S, n) == {x \in S : Cardinality({y \in S : y < x}) < n}

-----------------------------------------------------------------------------
(* Periods (periods.py).  A written period has a year and a quarter, 0 if  *)
(* it is not the last day of one.                                          *)

MaxPeriods == 20
Parsable(p) == p.quarter \in 1..4
Quarter(p) == 4 * p.year + p.quarter - 1

(* r has periods, start, end, frequency and max.                           *)
PeriodError(r) ==
    \/ r.max \notin 1..MaxPeriods
    \/ r.periods # {} /\ \E p \in r.periods : ~Parsable(p)
    \/ /\ r.periods = {}
       /\ \/ r.start = {} \/ r.end = {}
          \/ \E s \in r.start, e \in r.end :
                \/ ~Parsable(s) \/ ~Parsable(e)
                \/ Quarter(s) > Quarter(e)
                \/ r.frequency \notin {"quarterly", "annual"}

(* Two notations of a period are one.  A range has the last quarters of    *)
(* its years, or all quarters.                                             *)
AllPeriods(r) ==
    CASE PeriodError(r) -> {}
      [] ~PeriodError(r) /\ r.periods # {} -> {Quarter(p) : p \in r.periods}
      [] OTHER -> {q \in UNION {Quarter(s)..Quarter(e) : s \in r.start, e \in r.end} :
                       r.frequency = "annual" => q % 4 = 3}
SelectedPeriods(r) == First(AllPeriods(r), r.max)

-----------------------------------------------------------------------------
(* Code universes (code_universe.py).  A table is the latest snapshot of   *)
(* the source api: whether there is one, its columns and its rows, with a  *)
(* code, 0 if it is empty, and a group, the value of the column the        *)
(* universe filters by.                                                    *)

Rule(column, allowed, without) ==
    [column |-> column, allowed |-> allowed, without |-> without]
Universes ==
    [a_share_listed |-> Rule("none", {}, "all"),
     a_share_active |-> Rule("none", {}, "all"),
     a_share_mainboard |-> Rule("market", {"mainboard"}, "nothing"),
     a_share_sme |-> Rule("market", {"sme"}, "nothing"),
     a_share_chinext |-> Rule("market", {"chinext"}, "nothing"),
     a_share_star |-> Rule("market", {"star"}, "nothing"),
     hs_const_sh |-> Rule("hs_type", {"SH"}, "nothing"),
     hs_const_sz |-> Rule("hs_type", {"SZ"}, "nothing"),
     hk_listed |-> Rule("list_status", {"L"}, "all"),
     us_listed |-> Rule("classify", {"EQ"}, "all"),
     us_equity |-> Rule("classify", {"EQ"}, "all")]
UniverseOf(scope) == IF scope = "hk-financial-raw" THEN "hk_listed" ELSE "us_equity"

UniverseBlocked(name, table) ==
    \/ name \notin DOMAIN Universes
    \/ ~table.snapshot \/ "ts_code" \notin table.columns

(* Without its column a universe of the Hong Kong or US lists takes every  *)
(* row, the others take none.                                              *)
UniverseCodes(name, table) ==
    LET rule == Universes[name]
        kept == {row \in table.rows :
                    CASE rule.column = "none" -> TRUE
                      [] rule.column \in table.columns -> row.group \in rule.allowed
                      [] OTHER -> rule.without = "all"}
    IN  {row.code : row \in kept} \ {0}

-----------------------------------------------------------------------------
(* Limits *)

MaxPlanCodes == 20
MaxPlanDates == 20
MaxCandidates == 100

CodeLimitError(codes) == codes = {} \/ \E n \in codes : n \notin 1..MaxPlanCodes
LimitError(codes, max, budget) ==
    \/ CodeLimitError(codes)
    \/ \E n \in max : n \notin 1..MaxPlanDates
    \/ budget \notin 1..MaxCandidates

(* from_candidate_counts, of both matrices: the product is kept within the *)
(* budget by taking fewer dates or periods, none if the budget is smaller  *)
(* than the number of codes.                                               *)
Counts(codes, dates, limit, max, budget) ==
    LET c == AtMost(AtMost(NotNegative(codes), NotNegative(limit)), MaxPlanCodes)
        d == AtMost(AtMost(NotNegative(dates), NotNegative(max)), MaxPlanDates)
        b == NotNegative(budget)
        planned == CASE c * d <= b -> d
                     [] c * d > b /\ c > 0 -> b \div c
                     [] OTHER -> 0
    IN  [codes |-> c, dates |-> planned, jobs |-> c * planned,
         candidates |-> NotNegative(codes) * NotNegative(dates),
         truncated |-> NotNegative(codes) > c \/ NotNegative(dates) > d \/ c * d > b]

-----------------------------------------------------------------------------
(* What a planner means to do about a job.  Three planners look at the     *)
(* catalog in the same order; the code-date planner would try a job with a *)
(* staged file again, and the code-list planner does not ask.              *)

Action(job, ifStaged) ==
    CASE job.active -> "skip_existing"
      [] ~job.active /\ job.quarantined -> "blocked_quarantined"
      [] ~job.active /\ ~job.quarantined /\ job.staged -> ifStaged
      [] OTHER -> IF job.row = "failed" THEN "retry_failed" ELSE "fetch"

(* Mutant: what a run that was killed has left is not looked for.          *)
PeriodActionUnfiled(job) == Action(job, "fetch")
PeriodAction(job) == Action(job, "blocked_staged")
MatrixAction(job) == Action(job, "retry_failed")
ListAction(job) == IF job.active THEN "skip_existing" ELSE "fetch"
Asks(action) == action \in {"fetch", "retry_failed"}

(* Endpoints are looked up in the catalog, then in the files that come     *)
(* with the package, then in the inventory.                                *)
Found(catalog, bundled, inventory) ==
    CASE catalog # {} -> catalog
      [] catalog = {} /\ bundled # {} -> bundled
      [] OTHER -> inventory

-----------------------------------------------------------------------------
(* The plans: whether one is blocked, its items, the number of jobs it     *)
(* states and those of its items it allows to be executed.  found is the   *)
(* endpoint, empty if there is none, and known says whether it is the      *)
(* catalog's: of another endpoint the jobs are missing.                    *)

NoPlan == [blocked |-> TRUE, items |-> {}, allowed |-> {}, jobs |-> 0]
Matrix(count, codes, dates) == First(codes, count.codes) \X First(dates, count.dates)

CodePeriodPlan(found, known, scope, source, name, table, codes, budget, r, lake) ==
    LET gate == \E s \in source, e \in found : MatrixGate(e, s, scope)
        count == Counts(Cardinality(UniverseCodes(name, table)),
                        Cardinality(AllPeriods(r)), ValueOf(codes, 0), r.max, budget)
        items == Matrix(count, UniverseCodes(name, table), SelectedPeriods(r))
    IN  CASE found = {} \/ UniverseBlocked(name, table) -> NoPlan
          [] \/ LimitError(codes, {r.max}, budget) \/ PeriodError(r)
             \/ \E e \in found : e.planner \notin {"code_period_matrix", "period"}
                                   \/ PitBlocked(e, {})
             \/ scope # "none" /\ ~gate -> [NoPlan EXCEPT !.jobs = count.jobs]
          [] OTHER -> [blocked |-> FALSE, items |-> items, jobs |-> count.jobs,
                       allowed |-> {i \in items :
                           gate /\ (known => Asks(PeriodAction(lake[i])))}]

(* Whether a planner of code lists takes the endpoint of the catalog.      *)
ListCompatible(found) ==
    \E e \in found :
        /\ e.status = "enabled" /\ e.takesCode
        /\ e.planner \in {"single_snapshot", "code_list", "code_date_matrix"}

(* days has the planned dates, or is empty if they cannot be planned.      *)
CodeDatePlan(found, name, table, codes, max, budget, days) ==
    LET dates == ValueOf(days, {})
        count == Counts(Cardinality(UniverseCodes(name, table)), Cardinality(dates),
                        ValueOf(codes, 0), ValueOf(max, MaxPlanDates), budget)
    IN  IF \/ LimitError(codes, max, budget) \/ days = {}
           \/ ~ListCompatible(found) \/ \E e \in found : ~e.listed
           \/ UniverseBlocked(name, table)
        THEN NoPlan
        ELSE [blocked |-> FALSE, allowed |-> {}, jobs |-> count.jobs,
              items |-> Matrix(count, UniverseCodes(name, table), dates)]

CodeListPlan(found, name, table, codes) ==
    IF CodeLimitError(codes) \/ ~ListCompatible(found) \/ UniverseBlocked(name, table)
    THEN NoPlan
    ELSE LET items == First(UniverseCodes(name, table), ValueOf(codes, 0))
         IN  [blocked |-> FALSE, items |-> items, allowed |-> {},
              jobs |-> Cardinality(items)]

PeriodPlan(found, r) ==
    LET blocked == \/ PeriodError(r)
                   \/ \E e \in found :
                         \/ PitBlocked(e, {})
                         \/ /\ e.planner \notin {"period", "code_period_matrix"}
                            /\ ~e.takesPeriod
    IN  IF found = {} THEN NoPlan
        ELSE [blocked |-> blocked, allowed |-> {},
              items |-> IF blocked THEN {} ELSE SelectedPeriods(r),
              jobs |-> Cardinality(SelectedPeriods(r))]

(* What the registry of the planners says of the plan of a kind.           *)
Registered(kind, plan) ==
    LET supported == kind \in Executable
                       \union {"code_date_matrix", "period", "code_period_matrix"}
        fetches == kind \in Executable
        jobs == CASE ~supported -> 0
                  [] supported /\ fetches -> Cardinality(plan.allowed)
                  [] OTHER -> IF plan.blocked THEN 0 ELSE plan.jobs
    IN  [status |-> CASE supported /\ fetches -> "supported"
                      [] supported /\ ~fetches /\ ~plan.blocked -> "plan_only"
                      [] OTHER -> "blocked",
         jobs |-> jobs,
         requests |-> IF supported THEN jobs > 0
                      ELSE kind \in PlannerKinds \ {"unsupported"}]

-----------------------------------------------------------------------------
(* Reports on the matrix of codes and periods.  Endpoints are told apart   *)
(* by their sources.                                                       *)

Ready(sources, scope) == {s \in sources : Listed(s, scope) /\ RawReady(s)}

(* financial-request-estimate, for a range of periods.                     *)
Estimate(sources, scope, codes, r) ==
    LET blocked == \/ scope \notin DOMAIN ScopeMarket
                   \/ codes \notin 1..MaxPlanCodes
                   \/ PeriodError(r)
        each == codes * Cardinality(SelectedPeriods(r))
    IN  [blocked |-> blocked,
         each |-> IF blocked THEN 0 ELSE each,
         total |-> IF blocked THEN 0 ELSE each * Cardinality(Ready(sources, scope))]

(* financial-coverage-matrix, for one endpoint and a list of periods: a    *)
(* job whose row says done is covered, without a look at its files.        *)
Coverage(ready, catalog, name, table, codes, periods, lake) ==
    LET blocked == \/ ~catalog \/ UniverseBlocked(name, table)
                   \/ \E p \in periods : ~Parsable(p)
        planned == IF UniverseBlocked(name, table) \/ \E p \in periods : ~Parsable(p)
                   THEN {}
                   ELSE First(UniverseCodes(name, table), NotNegative(codes))
                            \X {Quarter(p) : p \in periods}
        covered == IF ready /\ ~blocked
                   THEN {i \in planned : lake[i].row = "done"} ELSE {}
    IN  [total |-> IF ready THEN Cardinality(planned) ELSE 0,
         covered |-> Cardinality(covered),
         state |-> CASE ready /\ planned # {} /\ covered = planned -> "complete"
                     [] ready /\ (planned = {} \/ covered # planned) -> "missing"
                     [] OTHER -> "not_raw_ready"]

-----------------------------------------------------------------------------
(* The bundles of financial-pull-command and disclosure-bundle.  A path is *)
(* a sequence of names.                                                    *)

Inside(path, parent) ==
    Len(parent) <= Len(path) /\ SubSeq(path, 1, Len(parent)) = parent
OutputAllowed(output, root, backup, exists, overwrite) ==
    ~Inside(output, root) /\ ~Inside(output, backup) /\ (exists => overwrite)

(* What is removed for a bundle: everything in the directory it replaces.  *)
(* The paths it is kept from are the root and the backup and what is in    *)
(* them, not what they are in.                                             *)
Replaces(output, path, exists) == exists /\ Inside(path, output)

(* Whether the bundle is written, and the endpoints it has a line for,     *)
(* code-period-plan with the arguments of the bundle, as a comment.        *)
PullBundle(sources, scope, codes, r, output, root, backup, exists, overwrite) ==
    LET estimate == Estimate(sources, scope, codes, r)
    IN  [written |-> ~estimate.blocked /\ output # {}
                        /\ \A o \in output :
                              OutputAllowed(o, root, backup, exists, overwrite),
         plans |-> Ready(sources, scope)]

-----------------------------------------------------------------------------
(* What is only planned: an endpoint for objects or texts, or one for      *)
(* intraday data, has a planner that allows nothing to be executed, and    *)
(* api-infra-readiness names what it still needs.                          *)

TextKinds == ObjectKinds \union {"announcement"}
IntradayKinds == {"minute_bar", "realtime"}

(* Of a strategy: bucket_count, target and max sizes in MB, and whether    *)
(* compaction is required, the execution is blocked and freq is there.     *)
IntradayErrors(config, strategy) ==
    {error \in {"bucket_count", "target", "max", "compaction", "not_blocked", "freq"} :
        CASE error = "bucket_count" -> strategy.buckets \notin {32, 64, 128}
          [] error = "target" -> strategy.target \notin 128..512
          [] error = "max" -> strategy.max < strategy.target
          [] error = "compaction" -> config.kind = "minute_bar" /\ ~strategy.compaction
          [] error = "not_blocked" -> ~strategy.blocked
          [] error = "freq" -> config.kind = "minute_bar" /\ ~strategy.freq}
IntradayPlanned(config) ==
    config.kind \in IntradayKinds \/ config.planner = "bucketed_intraday"
ObjectPlanned(config) ==
    config.kind \in TextKinds \/ config.planner \in {"object_index", "object_download"}

Needs(config) ==
    {need \in {"code_loop", "period_planner", "pit", "object_store", "intraday_bucket",
               "realtime_policy"} :
        CASE need = "code_loop" -> config.planner \in {"code_list", "code_date_matrix"}
          [] need = "period_planner" -> config.planner \in {"period", "code_period_matrix"}
          [] need = "pit" -> config.kind \in FinancialKinds
                               \/ config.planner = "code_period_matrix"
          [] need = "object_store" -> config.kind \in ObjectKinds
                               \/ config.planner \in {"object_index", "object_download"}
          [] need = "intraday_bucket" -> config.kind = "minute_bar"
                               \/ config.planner = "bucketed_intraday"
          [] need = "realtime_policy" -> config.kind = "realtime"
                               \/ config.planner = "realtime_poll"}

(* How many requests rate-policy lets a batch have; given are the scope    *)
(* and the category that were given.                                       *)
RateLimit(scopes, categories) ==
    IF scopes = {"low-risk-a-share"} /\ categories = {} THEN 20 ELSE 0

(* storage-estimate, from the months or the days of a range.               *)
JobsOfMonths(perMonth, from, to) ==
    perMonth * (12 * (to.year - from.year) + to.month - from.month + 1)
FilesOfDays(from, to, buckets) == (to - from + 1) * ValueOf(buckets \ {0}, 64)

(* compaction-plan: a partition is the sequence of the sizes of its files, *)
(* "small" below a megabyte and "oversized" above a gigabyte.              *)
Compaction(sizes) ==
    LET many(size) == Cardinality({i \in DOMAIN sizes : sizes[i] = size})
    IN  CASE many("oversized") > 0 -> "split_or_rewrite_oversized_files"
          [] many("oversized") = 0 /\ (Len(sizes) > 8 \/ many("small") > 4) ->
                "compact_small_files"
          [] OTHER -> "none"
=============================================================================
