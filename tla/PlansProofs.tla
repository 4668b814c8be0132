---------------------------- MODULE PlansProofs -----------------------------
(***************************************************************************)
(* What the planners, the policy and the disclosure reports promise for    *)
(* all inputs, of which MCPlans evaluates small ones: a matrix keeps its   *)
(* budget and says when it is cut short, what is only planned is never     *)
(* fetched, and a disclosure contract has two dates of the same week.      *)
(***************************************************************************)
EXTENDS Plans, Disclosure, TLAPS

(* A number of columns that is the budget divided by the rows keeps it.    *)
LEMMA QuotientKeepsBudget ==
    ASSUME NEW b \in Nat, NEW c \in Nat, c > 0
    PROVE  b \div c \in Nat /\ c * (b \div c) <= b
OBVIOUS

(* A factor in common does not change the order.                           *)
LEMMA ProductOrder ==
    ASSUME NEW c \in Nat, NEW x \in Nat, NEW y \in Nat, c * x < c * y
    PROVE  x < y
<1>1. CASE y <= x
  <2>1. PICK k \in Nat : x = y + k
    BY <1>1
  <2>2. c * x = c * y + c * k /\ c * k \in Nat /\ c * y \in Nat
    BY <2>1
  <2> QED
    BY <2>2
<1> QED
  BY <1>1

(* A matrix of codes and dates has at most budget jobs and at most twenty  *)
(* of each, and is what it states; it is all there is unless it says that  *)
(* it is cut short (from_candidate_counts of both matrices).               *)
THEOREM MatrixKeepsBudget ==
    ASSUME NEW codes \in Int, NEW dates \in Int, NEW limit \in Int, NEW max \in Int,
           NEW budget \in Int
    PROVE  LET n == Counts(codes, dates, limit, max, budget)
           IN  /\ n.jobs = n.codes * n.dates
               /\ n.jobs <= NotNegative(budget)
               /\ n.codes \in 0..MaxPlanCodes /\ n.dates \in 0..MaxPlanDates
               /\ n.jobs < n.candidates => n.truncated
<1> DEFINE c == AtMost(AtMost(NotNegative(codes), NotNegative(limit)), MaxPlanCodes)
           d == AtMost(AtMost(NotNegative(dates), NotNegative(max)), MaxPlanDates)
           b == NotNegative(budget)
           planned == CASE c * d <= b -> d
                        [] c * d > b /\ c > 0 -> b \div c
                        [] OTHER -> 0
           n == Counts(codes, dates, limit, max, budget)
<1>1. /\ n.codes = c /\ n.dates = planned /\ n.jobs = c * planned
      /\ n.candidates = NotNegative(codes) * NotNegative(dates)
      /\ n.truncated <=> (NotNegative(codes) > c \/ NotNegative(dates) > d \/ c * d > b)
  BY DEF Counts
<1>2. b \in Nat /\ c \in 0..MaxPlanCodes /\ d \in 0..MaxPlanDates
  BY DEF NotNegative, AtMost, MaxPlanCodes, MaxPlanDates
<1>3. c <= NotNegative(codes) /\ d <= NotNegative(dates)
      /\ NotNegative(codes) \in Nat /\ NotNegative(dates) \in Nat
  BY DEF NotNegative, AtMost, MaxPlanCodes, MaxPlanDates
<1> HIDE DEF c, d, b
<1>4. c \in Nat /\ d \in Nat /\ c * d \in Nat
  BY <1>2 DEF MaxPlanCodes, MaxPlanDates
<1>5. planned \in 0..MaxPlanDates /\ c * planned <= b
  <2>1. CASE c * d <= b
    <3>1. planned = d
      BY <1>2, <1>4, <2>1
    <3> QED
      BY <1>2, <2>1, <3>1
  <2>2. CASE c * d > b /\ c > 0
    <3>1. planned = b \div c
      BY <1>2, <1>4, <2>2
    <3>2. b \div c \in Nat /\ c * (b \div c) <= b
      BY <1>2, <1>4, <2>2, QuotientKeepsBudget
    <3>3. b \div c < d
      BY <1>2, <1>4, <2>2, <3>2, ProductOrder
    <3> QED
      BY <1>2, <3>1, <3>2, <3>3 DEF MaxPlanDates
  <2>3. CASE c = 0
    <3>1. c * d = 0
      BY <1>4, <2>3
    <3> QED
      BY <1>2, <2>1, <3>1
  <2> QED
    BY <1>2, <1>4, <2>1, <2>2, <2>3
<1>6. ASSUME ~n.truncated PROVE n.jobs = n.candidates
  <2>1. NotNegative(codes) = c /\ NotNegative(dates) = d /\ c * d <= b
    BY <1>1, <1>2, <1>3, <1>4, <1>6
  <2>2. planned = d
    BY <1>2, <1>4, <2>1
  <2> QED
    BY <1>1, <2>1, <2>2
<1>7. n.jobs = n.codes * n.dates /\ n.jobs <= b
      /\ n.codes \in 0..MaxPlanCodes /\ n.dates \in 0..MaxPlanDates
  BY <1>1, <1>2, <1>5
<1>8. n.jobs \in Nat /\ n.candidates \in Nat /\ (n.jobs < n.candidates => n.truncated)
  <2>1. n.jobs \in Nat
    BY <1>1, <1>4, <1>5 DEF MaxPlanDates
  <2> QED
    BY <1>6, <2>1, <1>1, <1>3
<1> QED
  BY <1>7, <1>8 DEF b

-----------------------------------------------------------------------------
(* What api-infra-readiness names a need for, and what the intraday and    *)
(* the object planner take, no ordinary fetch is allowed to ask for.       *)
THEOREM PlanOnlyNeverFetched ==
    ASSUME NEW c, c.status \in Statuses, NEW scope, NEW jobs,
           Needs(c) # {} \/ IntradayPlanned(c) \/ ObjectPlanned(c)
    PROVE  Decide(c, Request("fetch", scope, jobs)) # "allow"
<1> DEFINE r == Request("fetch", scope, jobs)
<1>1. r.command = "fetch"
  BY DEF Request
<1>2. c.kind \in BlockedKinds \/ c.planner \notin Executable
  <2>1. ASSUME Needs(c) # {} PROVE c.kind \in BlockedKinds \/ c.planner \notin Executable
    BY <2>1 DEF Needs, BlockedKinds, FinancialKinds, ObjectKinds, Executable
  <2>2. ASSUME IntradayPlanned(c)
        PROVE  c.kind \in BlockedKinds \/ c.planner \notin Executable
    BY <2>2 DEF IntradayPlanned, IntradayKinds, BlockedKinds, Executable
  <2>3. ASSUME ObjectPlanned(c)
        PROVE  c.kind \in BlockedKinds \/ c.planner \notin Executable
    BY <2>3 DEF ObjectPlanned, TextKinds, ObjectKinds, BlockedKinds, Executable
  <2> QED
    BY <2>1, <2>2, <2>3
<1>3. ~NothingMissing(c, r)
  BY <1>2 DEF NothingMissing
<1> HIDE DEF r
<1>4. c.status = "enabled" => Decide(c, r) # "allow"
  <2>1. c.status = "enabled" =>
          Decide(c, r) = IF NothingMissing(c, r) THEN "allow" ELSE "blocked"
    BY <1>1 DEF Decide
  <2> QED
    BY <1>3, <2>1
<1>5. c.status = "disabled" => Decide(c, r) # "allow"
  BY <1>1 DEF Decide
<1>6. c.status = "unsupported" => Decide(c, r) # "allow"
  BY <1>1 DEF Decide
<1>7. Decide(c, r) # "allow"
  BY <1>4, <1>5, <1>6 DEF Statuses
<1> QED
  BY <1>7 DEF r

-----------------------------------------------------------------------------
(* A match that raises the data to more than raw has evidence that can be  *)
(* used; verified as filed is only what was reconciled with a document     *)
(* whose date is near (classify_disclosure_match).                         *)
THEOREM StrengthNeedsEvidence ==
    ASSUME NEW e, MatchStrength(e) # "raw_only"
    PROVE  /\ e.available /\ ~e.unsafe /\ ~e.titleOnly /\ e.identifier /\ e.period
           /\ MatchStrength(e) = "as_filed_verified" =>
                 e.reconciled /\ Documented(e) /\ \E d \in Deltas(e) : d <= Near
BY DEF MatchStatus, MatchStrength, Near

(* The contract report lets a period be marked availability_only only if   *)
(* both sides gave a date, and the two are not more than a week apart; the *)
(* feature gate then warns, and blocks a strategy that asks for as-filed   *)
(* data (DisclosureContractReporter.report).                               *)
THEOREM ContractIsClose ==
    ASSUME NEW valid, NEW recent, NEW period, NEW answer,
           ContractAllows(valid, CrossCheck(recent, period, answer))
    PROVE  LET check == CrossCheck(recent, period, answer)
           IN  /\ \E x \in check.external, n \in check.notice :
                     LET d == IF x > n THEN x - n ELSE n - x IN d <= Near
               /\ FeatureGate(check.strength, FALSE) = "warning"
               /\ FeatureGate(check.strength, TRUE) = "blocked"
<1> DEFINE check == CrossCheck(recent, period, answer)
<1> DEFINE e == Evidence(check.external, check.notice)
<1>1. /\ check.match = MatchStatus(e) /\ check.strength = MatchStrength(e)
      /\ check.external = e.external /\ check.notice = e.notice
  <2>1. check.match = MatchStatus(e) /\ check.strength = MatchStrength(e)
    BY DEF CrossCheck
  <2> HIDE DEF check
  <2>2. check.external = e.external /\ check.notice = e.notice
    BY DEF Evidence
  <2> QED
    BY <2>1, <2>2
<1>2. ContractAllows(valid, check)
  OBVIOUS
<1> HIDE DEF check, e
<1>3. check.match \in {"exact", "near"} /\ check.strength = "availability_only"
  BY <1>2 DEF ContractAllows
<1>4. \E d \in Deltas(e) : d <= Near
  BY <1>1, <1>3 DEF MatchStatus, Near
<1>5. \E x \in check.external, n \in check.notice :
        LET d == IF x > n THEN x - n ELSE n - x IN d <= Near
  BY <1>1, <1>4 DEF Deltas
<1>6. FeatureGate(check.strength, FALSE) = "warning"
      /\ FeatureGate(check.strength, TRUE) = "blocked"
  BY <1>3 DEF FeatureGate
<1> QED
  BY <1>5, <1>6 DEF check
=============================================================================
