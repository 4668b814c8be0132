---------------------------- MODULE MCFinancial -----------------------------
(* Financial for TLC.                                                      *)
EXTENDS FinancialPlans, MCPlans, TLC
MCOrder == <<"income_vip", "disclosure_date">>
MCRequired == {"income_vip", "disclosure_date"}
MCGood == [kind |-> "financial_statement", planner |-> "period",
           status |-> "enabled", market |-> "a", infra |-> FALSE,
           pit |-> [required |-> "yes",
                    there |-> {"entry", "period_field", "announcement_date_fields",
                               "usable_after_field"}]]
MCConfigs == {MCGood, [MCGood EXCEPT !.status = "disabled"],
              [MCGood EXCEPT !.status = "disabled", !.infra = TRUE]}
MCSources == [market : {"hk"}, category : {"financial_statement"},
              candidate : BOOLEAN, probe : {"pending", "passed"},
              pagination : {"single_request_contract_passed", "unknown"},
              pitSafe : BOOLEAN, recommendation : {"plan_only"}]
=============================================================================
