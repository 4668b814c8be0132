-------------------------- MODULE FinancialPlans ----------------------------
(***************************************************************************)
(* The planners of Plans over a lake that Financial writes: whatever runs, *)
(* failures and kills have made of the jobs, the command that plans them,  *)
(* the report that counts them and the bundle that is handed to a human    *)
(* speak of the same jobs.  The jobs of Financial stand for those of one   *)
(* endpoint with a code and a period: the place of an api in Order is the  *)
(* code, and period p is quarter p of a year.                              *)
(***************************************************************************)
EXTENDS Financial, Plans

Quarters == [year : {0}, quarter : Periods]
AllQuarters == [periods |-> Quarters, start |-> {}, end |-> {}, frequency |-> "quarterly",
           max |-> MaxPeriods]
Matrixed == [Good EXCEPT !.planner = "code_period_matrix"]
List == [snapshot |-> TRUE, columns |-> {"ts_code", "list_status", "classify"},
         rows |-> {[code |-> c, group |-> g] : c \in DOMAIN Order, g \in {"L", "EQ"}}]

(* The inputs are those a planner takes: as many codes as it allows, the   *)
(* quarters of a year, and a record that has its point-in-time metadata.   *)
ASSUME LimitsAssumption ==
    /\ Len(Order) <= MaxPlanCodes
    /\ Periods \subseteq 1..4
    /\ ~PitBlocked(Matrixed, {})

(* What the catalog has for a job.                                         *)
JobOf(j) == [active |-> row[j] = "done" /\ data[j] # "none",
             quarantined |-> j \in quarantined, staged |-> j \in staged,
             row |-> row[j]]
Lake == [i \in (DOMAIN Order) \X {Quarter(p) : p \in Quarters} |->
             JobOf(<<Order[i[1]], i[2] + 1>>)]

(* Of the jobs of a plan that is not cut short, those the plan allows and  *)
(* those the matrix counts as covered are disjoint, and a job that is      *)
(* neither has a file or a row a human has to look at; so the endpoint is  *)
(* complete only when nothing is left to be fetched.  A plan keeps its     *)
(* budget, and none has more jobs than the estimate of the bundle its      *)
(* command stands in.                                                      *)
PlanAgrees(scope, source, budget) ==
    LET codes == Len(Order)
        name == UniverseOf(scope)
        plan == CodePeriodPlan({Matrixed}, TRUE, scope, {source}, name, List,
                               {codes}, budget, AllQuarters, Lake)
        report == Coverage(RawReady(source), TRUE, name, List, codes, Quarters, Lake)
        held == {i \in plan.items : Lake[i].quarantined \/ Lake[i].staged}
        open == {i \in plan.items : Lake[i].row # "done"}
    IN  /\ ~plan.blocked
        /\ Cardinality(plan.items) = plan.jobs /\ plan.jobs <= budget
        /\ plan.allowed = open \ held
        /\ plan.jobs = report.total =>
              /\ Cardinality(open) = report.total - report.covered
              /\ (report.state = "complete") <=> (open = {})
        /\ plan.jobs <= Estimate({source}, scope, codes, AllQuarters).total

(* The job planner, code-period-plan and financial-coverage-matrix look at *)
(* the catalog each in its own way.  The first two mean the same to be     *)
(* done about a job, and all agree on the jobs that are left.              *)
PlannersAgree ==
    /\ \A j \in Jobs : PeriodAction(JobOf(j)) = PlannedAction(j)
    /\ \A scope \in DOMAIN ScopeMarket :
         \A source \in {s \in Sources : MatrixGate(Matrixed, s, scope)}, budget \in {3, 4} :
            PlanAgrees(scope, source, budget)
=============================================================================
