------------------------------- MODULE Policy -------------------------------
(***************************************************************************)
(* What the mirror may ask for: EndpointExecutionPolicy.decide (policy.py),*)
(* which every fetch asks, the check of the point-in-time metadata (pit.py)*)
(* and the gates of the financial endpoints of Hong Kong and the US, which *)
(* decide from the same records in code of their own: the code-period      *)
(* planner, the readiness, estimate and coverage reports and the report on *)
(* a probe.                                                                *)
(*                                                                         *)
(* A config is the record of an endpoint in the catalog, with the fields   *)
(* kind, planner, status, market, infra (whether required_infra names      *)
(* anything) and pit.  A source is its entry in the source map of the HK   *)
(* and US endpoints.                                                       *)
(***************************************************************************)
EXTENDS Naturals

(* endpoint_kind, planner_kind and execution_status as the catalog accepts *)
(* them; kinds no rule tells apart are one here.                           *)
FinancialKinds == {"financial_statement", "financial_indicator"}
ObjectKinds == {"object_document", "text_news"}
BlockedKinds == FinancialKinds \union ObjectKinds
                \union {"minute_bar", "announcement", "realtime"}
Kinds == BlockedKinds \union {"daily_bar", "reference_snapshot"}

Executable == {"single_snapshot", "date_backfill", "calendar_backfill",
               "explicit_dates"}
CodePlanners == {"code_list", "code_date_matrix", "code_period_matrix"}
PlannerKinds == Executable \union CodePlanners
    \union {"period", "object_index", "object_download", "bucketed_intraday",
            "realtime_poll", "unsupported"}
Statuses == {"enabled", "disabled", "unsupported"}

(* capability_from_config: what init-catalog lets into the catalog.        *)
WellFormed(config) ==
    config.kind \in Kinds /\ config.planner \in PlannerKinds /\ config.status \in Statuses

MaxCodes == 20   \* MAX_GUARDED_FINANCIAL_RAW_CODES
MaxJobs == 100   \* MAX_GUARDED_FINANCIAL_RAW_JOBS
RawScopes == {"a-share-financial-raw", "hk-financial-raw", "us-financial-raw"}

-----------------------------------------------------------------------------
(* The decision of the policy.  A request has a command, a scope, loops    *)
(* that override what the planner implies, and two optional numbers, jobs  *)
(* and codes: sets that are empty when the number is not given.  The       *)
(* command "fetch" stands for every one that is neither a dry run nor the  *)
(* guarded financial-raw-fetch.                                            *)

Given(argument, default) == IF argument = "unset" THEN default ELSE argument = "yes"

CodeLoop(config, r) == Given(r.codeLoop, config.planner \in CodePlanners)
DateLoop(config, r) == Given(r.dateLoop, config.planner \in CodePlanners \ {"code_list"})
PeriodLoop(config, r) ==
    Given(r.periodLoop, config.planner \in {"period", "code_period_matrix"})

(* An ordinary command lacks nothing.                                      *)
NothingMissing(config, r) ==
    /\ config.kind \notin BlockedKinds
    /\ config.planner \in Executable
    /\ ~CodeLoop(config, r) /\ ~DateLoop(config, r) /\ ~PeriodLoop(config, r)
    /\ ~Given(r.objects, \/ config.kind \in ObjectKinds
                         \/ config.planner \in {"object_index", "object_download"})
    /\ ~Given(r.pit, \/ config.kind \in FinancialKinds
                     \/ config.planner = "code_period_matrix")
    /\ ~r.compaction

(* _financial_raw_decision: the guardrails of the command financial-raw-   *)
(* fetch.                                                                  *)
GuardrailsMet(config, r) ==
    /\ r.scope \in RawScopes
    /\ config.kind \in FinancialKinds
    /\ config.planner \in {"code_period_matrix", "period"}
    /\ CodeLoop(config, r) => r.codes # {}
    /\ \A n \in r.codes : n <= MaxCodes
    /\ \A n \in r.jobs : n <= MaxJobs
    /\ ~r.compaction

Decide(config, r) ==
    CASE r.command = "dry_run" -> "dry_run_only"
      [] r.command # "dry_run" /\ config.status = "disabled" -> "blocked"
      [] r.command # "dry_run" /\ config.status = "unsupported" -> "unsupported"
      [] r.command # "dry_run" /\ config.status = "enabled" ->
            IF \/ r.command = "financial-raw-fetch" /\ GuardrailsMet(config, r)
               \/ r.command = "fetch" /\ NothingMissing(config, r)
            THEN "allow" ELSE "blocked"

(* Whether a refusal names something missing: a disabled or unsupported    *)
(* endpoint names the required_infra of its own record.                    *)
NamesWhatIsMissing(config, r) ==
    Decide(config, r) \in {"blocked", "unsupported"}
        /\ (config.status = "enabled" \/ config.infra)

(* A request with every optional argument left out.                        *)
Request(command, scope, jobs) ==
    [command |-> command, scope |-> scope, jobs |-> jobs, codes |-> {},
     codeLoop |-> "unset", dateLoop |-> "unset", periodLoop |-> "unset",
     objects |-> "unset", pit |-> "unset", compaction |-> FALSE]

(* The checklist of endpoint-enable-checklist.                             *)
EnablementAllowed(config) ==
    Decide(config, Request("fetch", "low-risk-a-share", {1})) = "allow"

-----------------------------------------------------------------------------
(* Point-in-time metadata: config.pit has required ("unset" when the entry *)
(* does not say) and there, the set of fields the entry has.               *)

PitFields == {"entry", "period_field", "announcement_date_fields",
              "usable_after_field", "fallback", "allow_without"}
PitRequired(config) == Given(config.pit.required, config.kind \in FinancialKinds)

(* observed is empty, or the set of one set of fields: whether a column of *)
(* a disclosure date is among the columns that were seen.                  *)
DisclosureMissing(config, observed) ==
    \E fields \in observed :
        /\ "disclosure" \notin fields
        /\ "allow_without" \notin config.pit.there

(* validate_pit_safety                                                     *)
PitErrors(config, observed) ==
    {error \in PitFields \union {"disclosure"} :
        /\ PitRequired(config)
        /\ \/ /\ error \in {"period_field", "announcement_date_fields"}
              /\ error \notin config.pit.there
           \/ /\ error = "entry"
              /\ config.kind \in FinancialKinds /\ "entry" \notin config.pit.there
           \/ /\ error = "usable_after_field"
              /\ {"usable_after_field", "fallback"} \intersect config.pit.there = {}
           \/ error = "disclosure" /\ DisclosureMissing(config, observed)}
PitBlocked(config, observed) == PitErrors(config, observed) # {}

-----------------------------------------------------------------------------
(* Gates on the source map.  A source has market, category, candidate      *)
(* (raw_mirror_candidate), probe (real_probe_status), pagination and       *)
(* pitSafe (pit_safe_candidate).                                           *)

ScopeMarket == [scope \in {"hk-financial-raw", "us-financial-raw"} |->
                    IF scope = "hk-financial-raw" THEN "hk" ELSE "us"]
ProbeStatuses == {"pending", "passed", "blocked_by_permission",
                  "empty_but_accessible", "not_planned"}
PaginationPassed == {"single_request_contract_passed", "offset_pagination_contract_passed"}

(* Mutant: the source need not have passed its probe.                      *)
MatrixGateUnprobed(config, source, scope) ==
    /\ scope \in DOMAIN ScopeMarket /\ source.market = ScopeMarket[scope]
    /\ source.category \in FinancialKinds
    /\ source.candidate /\ source.pagination \in PaginationPassed
    /\ config.kind \in FinancialKinds /\ config.planner = "code_period_matrix"

(* raw_execution_allowed of _financial_raw_execution_gate.                 *)
MatrixGate(config, source, scope) ==
    /\ scope \in DOMAIN ScopeMarket /\ source.market = ScopeMarket[scope]
    /\ source.category \in FinancialKinds
    /\ source.candidate /\ source.probe = "passed"
    /\ source.pagination \in PaginationPassed
    /\ config.kind \in FinancialKinds /\ config.planner = "code_period_matrix"
MatrixPitSafe(config, source, scope) ==
    MatrixGate(config, source, scope) /\ source.pitSafe

(* The endpoints the financial reports of a scope list.                    *)
Listed(source, scope) ==
    /\ scope \in DOMAIN ScopeMarket /\ source.market = ScopeMarket[scope]
    /\ source.category \in FinancialKinds

(* raw_ready, pit_safe_ready and contract_blocked of financial-readiness.  *)
RawReady(source) == source.candidate /\ source.probe = "passed"
PitSafeReady(source) == source.pitSafe /\ RawReady(source)
ContractBlocked(source) ==
    /\ ~RawReady(source)
    /\ source.probe \in {"empty_but_accessible", "contract_changed", "failed", "pending"}

(* One endpoint of the report on a probe, from the status of the probe and *)
(* the columns it has seen.                                                *)
ProbeReport(status, fields) ==
    LET verdict ==
            CASE status = "permission_denied" -> "permission_blocked"
              [] status = "contract_changed" -> "contract_blocked"
              [] status \in {"failed", "missing"} -> "probe_pending"
              [] OTHER -> IF "disclosure" \in fields THEN "complete"
                          ELSE "blocked_without_disclosure_date"
    IN  [raw |-> status = "passed", pit |-> verdict,
         pitSafe |-> status = "passed" /\ verdict = "complete"]

(* An entry validate_hk_us_low_risk_source_map accepts: the financial      *)
(* endpoints are among the high-risk ones.                                 *)
ValidSource(source) ==
    /\ source.probe \in ProbeStatuses
    /\ source.category \in FinancialKinds =>
          source.recommendation # "executable_candidate"
=============================================================================
