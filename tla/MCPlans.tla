------------------------------ MODULE MCPlans -------------------------------
(***************************************************************************)
(* Facts about the operators of Plans and Disclosure that TLC evaluates    *)
(* over small inputs when it starts.  Some say what the code promises,     *)
(* and those whose name ends in Possible show a hazard: they hold because  *)
(* the code allows what the comment says.                                  *)
(***************************************************************************)
EXTENDS Plans, Disclosure

Opt(S) == {{}} \union {{x} : x \in S}
MCPeriods == [year : 0..1, quarter : {0, 1, 4}]
MCRanges == [periods : {{}} \union {{p, q} : p, q \in MCPeriods}, start : Opt(MCPeriods),
             end : Opt(MCPeriods), frequency : {"quarterly", "annual", "monthly"},
             max : {0, 1, 3, 21}]

(* The periods that are planned are the earliest of all of those asked     *)
(* for, at most max of them, and none if the arguments have an error.      *)
ASSUME PeriodsAreEarliest ==
    \A r \in MCRanges :
        /\ SelectedPeriods(r) \subseteq AllPeriods(r)
        /\ ~PeriodError(r) => Cardinality(SelectedPeriods(r)) = AtMost(Cardinality(AllPeriods(r)), r.max)
        /\ PeriodError(r) => SelectedPeriods(r) = {}
        /\ \A q \in AllPeriods(r) \ SelectedPeriods(r), k \in SelectedPeriods(r) : k < q

(* A range of whole years has a quarter of the annual one for every four   *)
(* of the quarterly one.                                                   *)
ASSUME YearsAreQuarters ==
    \A from, to \in 0..2 :
        LET range(frequency) ==
                [periods |-> {}, start |-> {[year |-> from, quarter |-> 1]},
                 end |-> {[year |-> to, quarter |-> 4]}, frequency |-> frequency,
                 max |-> MaxPeriods]
        IN  Cardinality(AllPeriods(range("quarterly")))
                = 4 * Cardinality(AllPeriods(range("annual")))

(* A code-date plan has as many items as it states, and keeps within       *)
(* every limit, whatever the sizes of the universe and of the calendar.    *)
MCTable(n) == [snapshot |-> TRUE, columns |-> {"ts_code", "list_status"},
               rows |-> [code : 0..n, group : {"L", "D"}]]
MCEndpoint == [kind |-> "financial_statement", planner |-> "code_date_matrix",
               status |-> "enabled", market |-> "hk", infra |-> FALSE,
               pit |-> [required |-> "no", there |-> {}],
               takesCode |-> TRUE, takesPeriod |-> FALSE, listed |-> TRUE]
ASSUME PlanIsItsItems ==
    \A n \in 0..4, codes \in Opt(0..3), max \in Opt(1..3), budget \in 0..7,
       days \in Opt({{}, {5}, 5..8}) :
        LET plan == CodeDatePlan({MCEndpoint}, "hk_listed", MCTable(n), codes, max,
                                 budget, days)
        IN  /\ Cardinality(plan.items) = plan.jobs /\ plan.jobs <= budget
            /\ \A c \in codes : Cardinality({i[1] : i \in plan.items}) <= c
            /\ \A d \in max : Cardinality({i[2] : i \in plan.items}) <= d

(* A budget below the number of codes leaves a plan that is not blocked    *)
(* and has nothing in it.                                                  *)
ASSUME EmptyPlanPossible ==
    LET plan == CodeDatePlan({MCEndpoint}, "hk_listed", MCTable(3), {3}, {2}, 2, {5..8})
    IN  ~plan.blocked /\ plan.items = {}

(* --overwrite does not look whether the directory it replaces holds the   *)
(* mirror or the backup.                                                   *)
ASSUME RootReplacedPossible ==
    LET root == <<"home", "mirror">>
        backup == <<"home", "copy">>
    IN  /\ OutputAllowed(<<"home">>, root, backup, TRUE, TRUE)
        /\ Replaces(<<"home">>, root, TRUE) /\ Replaces(<<"home">>, backup, TRUE)

-----------------------------------------------------------------------------
MCForms == {"10-K", "8-K"}
MCFilings == [form : MCForms, period : {0, 1}, date : Opt({20, 24, 30})]
MCRecent == {<<>>} \union {<<f>> : f \in MCFilings}
            \union {<<f, g>> : f, g \in MCFilings}
MCAnswers == [status : {"accessible", "empty_but_accessible", "raised", "permission_denied"},
              notice : Opt({20, 27})]

(* The contract report lets a period become availability_only only if the  *)
(* SEC lists a report of the period that was filed within a week of the    *)
(* notice date; and such a period never counts as verified as filed.       *)
ASSUME ContractMeansClose ==
    \A recent \in Opt(MCRecent), answer \in Opt(MCAnswers) :
        LET check == CrossCheck(recent, 1, answer)
        IN  ContractAllows(TRUE, check) =>
              /\ CrossOverall(check) = "passed"
              /\ \E filings \in recent : \E i \in DOMAIN filings :
                    /\ filings[i].form = "10-K" /\ filings[i].period = 1
                    /\ \E d \in filings[i].date, n \in UNION {a.notice : a \in answer} :
                          d - n \in -Near..Near
              /\ FeatureGate(check.strength, FALSE) = "warning"
              /\ FeatureGate(check.strength, TRUE) = "blocked"

(* A filing after the notice date is near too: a strategy that takes the   *)
(* notice date would look ahead.                                           *)
ASSUME LookAheadPossible ==
    LET check == CrossCheck({<<[form |-> "10-K", period |-> 1, date |-> {27}]>>}, 1,
                            {[status |-> "accessible", notice |-> {20}]})
    IN  ContractAllows(TRUE, check)

(* Evidence makes a match stronger, never weaker, and nothing is verified  *)
(* as filed that was not reconciled with the document.                     *)
MCEvidence == [available : BOOLEAN, unsafe : BOOLEAN, titleOnly : BOOLEAN,
               identifier : BOOLEAN, period : BOOLEAN, reportType : BOOLEAN,
               document : BOOLEAN, audited : BOOLEAN, reconciled : BOOLEAN,
               external : Opt({20, 28}), notice : Opt({20, 27})]
Rank == [strength \in Strengths |->
            CASE strength = "raw_only" -> 0 [] strength = "availability_only" -> 1
              [] OTHER -> 2]
ASSUME EvidenceIsMonotone ==
    \A e \in MCEvidence :
        /\ Rank[MatchStrength([e EXCEPT !.unsafe = TRUE])] = 0
        /\ Rank[MatchStrength([e EXCEPT !.titleOnly = TRUE])] = 0
        /\ Rank[MatchStrength(e)] <= Rank[MatchStrength([e EXCEPT !.document = TRUE])]
        /\ Rank[MatchStrength(e)] <= Rank[MatchStrength([e EXCEPT !.audited = TRUE])]
        /\ Rank[MatchStrength(e)] <= Rank[MatchStrength([e EXCEPT !.reconciled = TRUE])]
        /\ Rank[MatchStrength(e)] = 2 =>
              /\ e.reconciled /\ e.document /\ e.reportType
              /\ \E d \in Deltas(e) : d <= Near

(* A probe passes only with rows in an answer that was given; and the      *)
(* report on it calls nothing safe whose probe did not pass.               *)
MCProbeAnswers == [status : {"accessible", "empty_but_accessible", "invalid_params",
                             "permission_denied"},
                   rows : 0..1, fields : SUBSET {"disclosure"}]
ASSUME ProbePassesWithRows ==
    \A answers \in UNION {[1..n -> MCProbeAnswers] : n \in 0..2} :
        LET probe == FinancialProbe(answers)
        IN  /\ probe.status = "passed" =>
                  \E i \in DOMAIN answers : answers[i].rows > 0
            /\ ProbeReport(probe.status, probe.fields).pitSafe =>
                  \E i \in DOMAIN answers : "disclosure" \in answers[i].fields
=============================================================================
