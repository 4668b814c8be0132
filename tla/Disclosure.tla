----------------------------- MODULE Disclosure -----------------------------
(***************************************************************************)
(* When a financial report was published: the bounded probes that collect  *)
(* evidence (scripts/tushare_real_smoke.py), the rules that match a date   *)
(* of disclosure with the notice date of the api (disclosure.py), and the  *)
(* reports that say what a strategy may do with it (disclosure_contract.py *)
(* and disclosure_reports.py).                                             *)
(*                                                                         *)
(* Dates are numbers of days.  An optional value is a set with at most one *)
(* element.                                                                *)
(***************************************************************************)
EXTENDS Policy, Integers, Sequences, FiniteSets

Strengths == {"raw_only", "availability_only", "as_filed_verified"}
Near == 7   \* near_tolerance_days

(* classify_disclosure_match.  Evidence has available, unsafe, titleOnly,  *)
(* identifier, period, reportType, document, audited and reconciled, and   *)
(* the optional dates external and notice.                                 *)
Deltas(e) == {IF x > n THEN x - n ELSE n - x : x \in e.external, n \in e.notice}
Documented(e) == e.reportType /\ e.document
MatchStatus(e) ==
    IF ~e.available \/ e.unsafe THEN "blocked"
    ELSE IF e.titleOnly THEN "candidate"
    ELSE IF ~e.identifier \/ ~e.period THEN "unmatched"
    ELSE IF Documented(e) /\ 0 \in Deltas(e) THEN "exact"
    ELSE IF Documented(e) /\ \E d \in Deltas(e) : d <= Near THEN "near"
    ELSE "period_only"

(* What the match may raise the data to; it is feature-eligible unless     *)
(* that is raw_only.                                                       *)
MatchStrength(e) ==
    CASE MatchStatus(e) \in {"exact", "near"} ->
            IF e.reconciled THEN "as_filed_verified" ELSE "availability_only"
      [] MatchStatus(e) = "period_only" ->
            IF e.audited /\ e.document /\ e.external # {}
            THEN "availability_only" ELSE "raw_only"
      [] OTHER -> "raw_only"

(* evaluate_pit_feature_gate                                               *)
FeatureGate(strength, requireAsFiled) ==
    CASE strength = "raw_only" -> "blocked"
      [] strength = "availability_only" -> IF requireAsFiled THEN "blocked" ELSE "warning"
      [] strength = "as_filed_verified" -> "passed"

(* The gate for Hong Kong: a title makes a candidate, nothing makes more.  *)
HkexGate(requests, validPeriod, titled) ==
    [blocked |-> requests \notin 1..2 \/ ~validPeriod,
     match |-> IF titled THEN "candidate" ELSE "source_unavailable",
     automatic |-> FALSE]

-----------------------------------------------------------------------------
(* Probes *)

Accessible == {"accessible", "empty_but_accessible"}

(* One endpoint, from its answers in their order: each has a status, the   *)
(* number of its rows and its fields.                                      *)
Classified(answers) ==
    CASE answers = <<>> -> "not_run"
      [] \E i \in DOMAIN answers : answers[i].status \in Accessible ->
            IF \E i \in DOMAIN answers : answers[i].rows > 0
            THEN "accessible" ELSE "empty_but_accessible"
      [] OTHER -> answers[Len(answers)].status

FinancialProbe(answers) ==
    LET status == Classified(answers)
    IN  [status |-> CASE status = "accessible" -> "passed"
                      [] status = "empty_but_accessible" -> "empty_but_authorized"
                      [] status = "permission_denied" -> "permission_denied"
                      [] status \in {"invalid_params", "invalid_endpoint"} ->
                            "contract_changed"
                      [] OTHER -> "failed",
         fields |-> UNION {answers[i].fields : i \in DOMAIN answers}]

(* What a probe says of all its endpoints.                                 *)
Overall(statuses, blocking, warning) ==
    CASE statuses \intersect blocking # {} -> "blocked"
      [] statuses \intersect blocking = {} /\ statuses \intersect warning # {} -> "warning"
      [] OTHER -> "passed"
FinancialOverall(statuses) ==
    Overall(statuses, {"contract_changed", "failed"}, {"permission_denied"})
LowRiskOverall(statuses) ==
    Overall(statuses, {"invalid_params", "invalid_endpoint", "network_error",
                       "server_error", "unknown_error"},
            {"permission_denied", "rate_limited"})

(* The filings of a company as the SEC lists them, the latest first: form, *)
(* period and, if it is there, date.                                       *)
Filings(recent, period) ==
    SelectSeq(recent, LAMBDA f : f.period = period /\ f.form \in {"10-K", "10-Q", "20-F"})
SecDate(recent, period) ==
    IF Filings(recent, period) = <<>> THEN {} ELSE Filings(recent, period)[1].date

(* _classify_disclosure_cross_check                                        *)
Evidence(external, notice) ==
    [available |-> TRUE, unsafe |-> FALSE, titleOnly |-> FALSE, identifier |-> TRUE,
     period |-> TRUE, reportType |-> TRUE, document |-> external # {}, audited |-> FALSE,
     reconciled |-> FALSE, external |-> external, notice |-> notice]

(* The cross-check of the two dates.  recent is empty if the SEC does not  *)
(* answer, answer if there is no token, and the status "raised" stands for *)
(* an exception.  That the two sides are about one company is taken for    *)
(* granted.                                                                *)
CrossCheck(recent, period, answer) ==
    LET external == UNION {SecDate(f, period) : f \in recent}
        heard == {a \in answer : a.status \in Accessible}
        notice == UNION {a.notice : a \in heard}
        evidence == Evidence(external, notice)
    IN  [sec |-> CASE recent = {} -> "blocked"
                   [] \E f \in recent : Filings(f, period) # <<>> -> "passed"
                   [] OTHER -> "warning",
         tushare |-> CASE notice # {} -> "passed"
                       [] notice = {} /\ heard # {} -> "notice_date_missing"
                       [] answer = {} -> "blocked_token_missing"
                       [] OTHER -> IF \E a \in answer : a.status = "raised"
                                   THEN "blocked" ELSE "denied",
         external |-> external, notice |-> notice,
         match |-> MatchStatus(evidence), strength |-> MatchStrength(evidence)]

CrossOverall(check) ==
    CASE check.sec = "blocked" -> "blocked"
      [] check.sec # "blocked" /\ check.match \in {"exact", "near"}
            /\ check.tushare = "passed" -> "passed"
      [] OTHER -> "warning"

-----------------------------------------------------------------------------
(* Reports *)

(* disclosure-contract-report: whether the period may be marked as         *)
(* availability_only.  valid says that the reports it reads, the map of    *)
(* the sources and the schema of the events are as they should be.         *)
ContractAllows(valid, check) ==
    /\ valid
    /\ check.sec = "passed" /\ check.tushare = "passed"
    /\ check.match \in {"exact", "near"}
    /\ check.strength = "availability_only"
    /\ check.external # {} /\ check.notice # {}

(* The state of an endpoint in disclosure-plan, -availability and -gate.   *)
EndpointState(source) ==
    CASE PitSafeReady(source) -> "candidate"
      [] RawReady(source) /\ ~PitSafeReady(source) -> "raw_only"
      [] OTHER -> "blocked"

(* planned_disclosure_checks of disclosure-plan for a number of periods,   *)
(* none if they could not be planned.                                      *)
PlannedChecks(sources, scope, codes, periods) ==
    LET wanted == {s \in sources : Listed(s, scope) /\ EndpointState(s) # "blocked"}
    IN  IF scope \notin DOMAIN ScopeMarket \/ codes \notin 1..MaxCodes \/ periods = {}
        THEN 0
        ELSE codes * Cardinality(wanted) * (CHOOSE n \in periods : TRUE)
=============================================================================
