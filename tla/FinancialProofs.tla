-------------------------- MODULE FinancialProofs ---------------------------
(***************************************************************************)
(* Theorems about Financial for any apis in any order, any number of       *)
(* periods, any values of --max-jobs, any records in the catalog and any   *)
(* number of failures, kills and edits: what the availability report calls *)
(* safe is disclosed in full and stays safe, a run that succeeded left     *)
(* none of its jobs to be done again, and the planners agree on what is    *)
(* left.                                                                   *)
(***************************************************************************)
EXTENDS FinancialPlans, PlansProofs, FiniteSetTheorems, WellFoundedInduction, TLAPS

(* What the active file of the disclosure dates holds was published.       *)
FullIsPublished ==
    \A p \in Periods : data[<<Disclosure, p>>] = "full" => published[p] = "full"

(* A job the run has dealt with without an exception is done or in         *)
(* quarantine.                                                             *)
DealtWith ==
    status = "running" /\ ~errors =>
        \A j \in batch \ todo : row[j] = "done" \/ j \in quarantined

(* The inductive invariant.                                                *)
FinancialInv == TypeOK /\ FullIsPublished /\ DealtWith

-----------------------------------------------------------------------------
(* A set of natural numbers has a least element.                           *)
LEMMA Least ==
    ASSUME NEW S, S \subseteq Nat, S # {}
    PROVE  \E m \in S : \A n \in S : m <= n
<1> DEFINE R == OpToRel(<, Nat)
<1>1. IsWellFoundedOn(R, Nat)
  BY NatLessThanWellFounded
<1>2. PICK m \in S : \A n \in S : <<n, m>> \notin R
  BY <1>1, WFMin
<1>3. \A n \in S : ~(n < m)
  BY <1>2 DEF OpToRel
<1> QED
  BY <1>3

(* The item the executor takes next is one of those it has to do: the one  *)
(* of the first api in the order, and of its first period.                 *)
LEMMA NextIsPlanned ==
    ASSUME NEW S, S = todo, S \subseteq Jobs, S # {}
    PROVE  NextItem \in S
<1> DEFINE X == {x \in DOMAIN Order : \E j \in S : j[1] = Order[x]}
<1>1. DOMAIN Order \subseteq Nat
  BY OrderAssumption
<1>2. \A j \in S : \E x \in X : Order[x] = j[1]
  BY DEF Jobs, Apis
<1>3. X \subseteq Nat /\ X # {}
  BY <1>1, <1>2
<1>4. PICK x \in X : \A y \in X : x <= y
  <2> HIDE DEF X
  <2> QED BY <1>3, Least
<1> DEFINE P == {p \in Periods : <<Order[x], p>> \in S}
<1>5. P \subseteq Nat
  BY NumbersAssumption DEF Periods
<1>6. P # {}
  BY <1>4 DEF Jobs
<1>7. PICK p \in P : \A q \in P : p <= q
  <2> HIDE DEF P
  <2> QED BY <1>5, <1>6, Least
<1> DEFINE j == <<Order[x], p>>
<1>8. j \in S /\ j[1] = Order[x] /\ j[2] = p
  BY <1>7
<1>9. ASSUME NEW k \in S \ {j} PROVE Before(j, k)
  <2>1. PICK y \in X : Order[y] = k[1]
    BY <1>2
  <2>2. x <= y /\ x \in Nat /\ y \in Nat
    BY <1>3, <1>4
  <2>3. CASE x < y
    BY <2>1, <2>3, <1>4, <1>8 DEF Before
  <2>4. CASE x = y
    <3>1. k = <<Order[x], k[2]>> /\ k[2] \in Periods
      BY <2>1, <2>4 DEF Jobs
    <3>2. k[2] \in P
      BY <3>1
    <3>3. p <= k[2] /\ p # k[2]
      BY <1>7, <3>1, <3>2
    <3>4. p < k[2]
      BY <3>2, <3>3, <1>5
    <3> QED
      BY <2>1, <2>4, <3>4, <1>4, <1>8 DEF Before
  <2> QED
    BY <2>2, <2>3, <2>4
<1> HIDE DEF j
<1>10. \E i \in S : \A k \in S \ {i} : Before(i, k)
  BY <1>8, <1>9
<1> QED
  BY <1>10 DEF NextItem
(* ... and so is a job of the plan.                                        *)
LEMMA NextIsJob ==
    ASSUME TypeOK, Running
    PROVE  NextItem \in todo /\ NextItem \in Jobs /\ NextItem \in batch
BY NextIsPlanned DEF TypeOK, Running

(* What is fetched is an answer.                                           *)
LEMMA AnswerTyped ==
    ASSUME TypeOK, NEW j \in Jobs
    PROVE  Answer(j) \subseteq Answers \ {"none"}
<1>1. published[j[2]] \in Answers \ {"none"}
  BY DEF Jobs, TypeOK
<1> QED
  BY <1>1 DEF Answer, UpTo, Answers

(* A fetch changes the data of its job only, to an answer.                 *)
LEMMA FetchedTyped ==
    ASSUME TypeOK, Running, NEW fetched \in Fetched
    PROVE  /\ NextItem \in Jobs /\ fetched \in [Jobs -> Answers] /\ fetched[NextItem] # "none"
           /\ \A j \in Jobs : fetched[j] = data[j] \/ fetched[j] \in Answer(j)
           /\ \A j \in Jobs : j # NextItem => fetched[j] = data[j]
<1>1. NextItem \in Jobs
  BY NextIsJob
<1>2. PICK answer \in Answer(NextItem) : fetched = [data EXCEPT ![NextItem] = answer]
  BY DEF Fetched
<1>3. answer \in Answers \ {"none"} /\ data \in [Jobs -> Answers]
  BY <1>1, AnswerTyped DEF TypeOK
<1> QED
  BY <1>1, <1>2, <1>3

-----------------------------------------------------------------------------
(* Every step keeps the types.                                             *)
LEMMA TypeStep == TypeOK /\ [Next]_vars => TypeOK'
<1> SUFFICES ASSUME TypeOK, [Next]_vars PROVE TypeOK'
  OBVIOUS
<1> USE NumbersAssumption, ConfigsAssumption
<1>1. CASE UNCHANGED vars
  BY <1>1 DEF vars, TypeOK
<1>2. ASSUME NEW apis \in SUBSET Apis, NEW periods \in SUBSET Periods, NEW cap \in Caps,
             StartRun(apis, periods, cap)
      PROVE  TypeOK'
  <2>1. ExecutableItems(apis, periods, cap) \subseteq Jobs
    BY DEF ExecutableItems, Jobs
  <2> QED
    BY <1>2, <2>1 DEF StartRun, TypeOK, lake, world
<1>3. CASE Commit
  <2>1. Running /\ data' \in Fetched
    BY <1>3 DEF Commit
  <2>2. /\ NextItem \in Jobs /\ data' \in [Jobs -> Answers] /\ data'[NextItem] # "none"
        /\ \A j \in Jobs : j # NextItem => data'[j] = data[j]
    BY <2>1, FetchedTyped
  <2> QED
    BY <1>3, <2>2 DEF Commit, Done, TypeOK, world
<1>4. CASE Refuse
  BY <1>4 DEF Refuse, Done, TypeOK, lake, world
<1>5. CASE QueryFails
  <2>1. NextItem \in Jobs
    BY <1>5, NextIsJob DEF QueryFails
  <2> QED
    BY <1>5, <2>1 DEF QueryFails, Done, Spend, TypeOK, world
<1>6. CASE Rejected
  <2>1. NextItem \in Jobs
    BY <1>6, NextIsJob DEF Rejected
  <2> QED
    BY <1>6, <2>1 DEF Rejected, Done, Spend, TypeOK, world
<1>7. CASE Breaks
  <2>1. NextItem \in Jobs
    BY <1>7, NextIsJob DEF Breaks
  <2>2. /\ data' \in [Jobs -> Answers]
        /\ \A j \in Jobs : row'[j] = "done" => data'[j] # "none"
    <3>1. CASE data' = data
      BY <1>7, <2>1, <3>1 DEF Breaks, TypeOK
    <3>2. CASE data' \in Fetched
      <4>1. /\ data' \in [Jobs -> Answers]
            /\ \A j \in Jobs : j # NextItem => data'[j] = data[j]
        BY <1>7, <3>2, FetchedTyped DEF Breaks
      <4> QED
        BY <1>7, <2>1, <4>1 DEF Breaks, TypeOK
    <3> QED
      BY <1>7, <3>1, <3>2 DEF Breaks
  <2>3. row' \in [Jobs -> {"none", "running", "failed", "done"}]
        /\ staged' \subseteq Jobs /\ quarantined' \subseteq Jobs
    BY <1>7, <2>1 DEF Breaks, TypeOK
  <2>4. /\ todo' \subseteq batch' /\ batch' \subseteq Jobs
        /\ UNCHANGED <<status, published, config>> /\ trouble' \in 0..MaxTrouble
    BY <1>7 DEF Breaks, Done, Spend, TypeOK, world
  <2>5. errors' \in BOOLEAN
    BY <1>7 DEF Breaks, Done
  <2> QED
    BY <2>2, <2>3, <2>4, <2>5 DEF TypeOK
<1>8. CASE FinishRun
  BY <1>8 DEF FinishRun, TypeOK, lake, world
<1>9. CASE Kill
  <2>1. /\ UNCHANGED world /\ todo' = {} /\ batch' = {} /\ errors' = FALSE
        /\ status' = "none" /\ trouble' \in 0..MaxTrouble
    BY <1>9 DEF Kill, Spend, TypeOK
  <2>2. CASE UNCHANGED lake
    BY <2>1, <2>2 DEF TypeOK, lake, world
  <2>3. CASE Running
    <3>1. NextItem \in Jobs
      BY <2>3, NextIsJob
    <3>2. ASSUME NEW s \in {"running", "failed"}, row' = [row EXCEPT ![NextItem] = s],
                 staged' \in {staged, staged \union {NextItem}},
                 quarantined' \in {quarantined, quarantined \union {NextItem}},
                 UNCHANGED data
          PROVE  TypeOK'
      BY <2>1, <3>1, <3>2 DEF TypeOK, world
    <3>3. ASSUME row' = [row EXCEPT ![NextItem] = "running"], data' \in Fetched,
                 UNCHANGED <<quarantined, staged>>
          PROVE  TypeOK'
      <4>1. /\ data' \in [Jobs -> Answers]
            /\ \A j \in Jobs : j # NextItem => data'[j] = data[j]
        BY <2>3, <3>3, FetchedTyped
      <4> QED
        BY <2>1, <3>1, <3>3, <4>1 DEF TypeOK, world
    <3>4. \/ UNCHANGED lake
          \/ /\ \E s \in {"running", "failed"} : row' = [row EXCEPT ![NextItem] = s]
             /\ staged' \in {staged, staged \union {NextItem}}
             /\ quarantined' \in {quarantined, quarantined \union {NextItem}}
             /\ UNCHANGED data
          \/ /\ row' = [row EXCEPT ![NextItem] = "running"]
             /\ data' \in Fetched
             /\ UNCHANGED <<quarantined, staged>>
      BY <1>9 DEF Kill
    <3> QED
      BY <2>2, <3>2, <3>3, <3>4
  <2> QED
    BY <1>9, <2>2, <2>3 DEF Kill
<1>10. ASSUME NEW p \in Periods, Announce(p) PROVE TypeOK'
  BY <1>10 DEF Announce, TypeOK, Answers, lake
<1>11. ASSUME NEW a \in Apis, NEW c \in Configs, EditCatalog(a, c) PROVE TypeOK'
  BY <1>11 DEF EditCatalog, Spend, TypeOK, lake
<1>12. CASE RestoreCatalog
  BY <1>12 DEF RestoreCatalog, TypeOK, lake
<1> QED
  BY <1>1, <1>2, <1>3, <1>4, <1>5, <1>6, <1>7, <1>8, <1>9, <1>10, <1>11, <1>12 DEF Next

(* A step changes what the files of a job hold at most to what the api may *)
(* answer for it.                                                          *)
LEMMA DataStep ==
    ASSUME TypeOK, [Next]_vars
    PROVE  \A j \in Jobs : data'[j] = data[j]
                \/ (data'[j] \in Answer(j) /\ UNCHANGED published)
<1> USE DEF TypeOK
<1>1. CASE UNCHANGED vars
  BY <1>1 DEF vars
<1>2. ASSUME NEW apis \in SUBSET Apis, NEW periods \in SUBSET Periods, NEW cap \in Caps,
             StartRun(apis, periods, cap)
      PROVE  UNCHANGED data
  BY <1>2 DEF StartRun, lake
<1>3. CASE Commit
  BY <1>3, FetchedTyped DEF Commit, Done, world
<1>4. CASE Refuse \/ QueryFails \/ Rejected \/ FinishRun \/ RestoreCatalog
  BY <1>4 DEF Refuse, QueryFails, Rejected, FinishRun, RestoreCatalog, lake
<1>5. CASE Breaks
  <2>1. CASE UNCHANGED data
    BY <2>1
  <2>2. CASE data' \in Fetched
    BY <1>5, <2>2, FetchedTyped DEF Breaks, Done, world
  <2> QED
    BY <1>5, <2>1, <2>2 DEF Breaks
<1>6. CASE Kill
  <2>1. CASE UNCHANGED data
    BY <2>1
  <2>2. CASE Running /\ data' \in Fetched
    BY <1>6, <2>2, FetchedTyped DEF Kill, world
  <2> QED
    BY <1>6, <2>1, <2>2 DEF Kill, lake
<1>7. ASSUME NEW p \in Periods, Announce(p) PROVE UNCHANGED data
  BY <1>7 DEF Announce, lake
<1>8. ASSUME NEW a \in Apis, NEW c \in Configs, EditCatalog(a, c) PROVE UNCHANGED data
  BY <1>8 DEF EditCatalog, lake
<1> QED
  BY <1>1, <1>2, <1>3, <1>4, <1>5, <1>6, <1>7, <1>8 DEF Next

(* What has been announced is not taken back.                              *)
LEMMA PublishedStep ==
    ASSUME TypeOK, [Next]_vars
    PROVE  \A p \in Periods : published[p] = "full" => published'[p] = "full"
<1>1. CASE UNCHANGED published
  BY <1>1
<1>2. ASSUME NEW q \in Periods, Announce(q)
      PROVE  \A p \in Periods : published[p] = "full" => published'[p] = "full"
  BY <1>2 DEF Announce, TypeOK
<1>3. UNCHANGED published \/ \E q \in Periods : Announce(q)
  BY DEF Next, vars, world, StartRun, Commit, Refuse, QueryFails, Rejected, Breaks,
         FinishRun, Kill, EditCatalog, RestoreCatalog, Done
<1> QED
  BY <1>1, <1>2, <1>3

(* A full answer is fetched only after everything was announced, which is  *)
(* never taken back.                                                       *)
LEMMA FullStep == TypeOK /\ FullIsPublished /\ [Next]_vars => FullIsPublished'
<1> SUFFICES ASSUME TypeOK, FullIsPublished, [Next]_vars,
                    NEW p \in Periods, data'[<<Disclosure, p>>] = "full"
             PROVE  published'[p] = "full"
  BY DEF FullIsPublished
<1> DEFINE j == <<Disclosure, p>>
<1>1. j \in Jobs
  BY ApisAssumption DEF Jobs
<1>2. CASE data'[j] = data[j]
  BY <1>2, PublishedStep DEF FullIsPublished
<1>3. CASE data'[j] \in Answer(j) /\ UNCHANGED published
  BY <1>3 DEF Answer
<1> QED
  BY <1>1, <1>2, <1>3, DataStep

(* An item the run leaves behind without an exception is done or in        *)
(* quarantine, and no later item changes that.                             *)
LEMMA DealtStep == TypeOK /\ DealtWith /\ [Next]_vars => DealtWith'
<1> SUFFICES ASSUME TypeOK, DealtWith, [Next]_vars, status' = "running", ~errors',
                    NEW j \in batch' \ todo'
             PROVE  row'[j] = "done" \/ j \in quarantined'
  BY DEF DealtWith
<1> USE DEF TypeOK, DealtWith
<1>1. CASE UNCHANGED vars
  BY <1>1 DEF vars
<1>2. ASSUME NEW apis \in SUBSET Apis, NEW periods \in SUBSET Periods, NEW cap \in Caps,
             StartRun(apis, periods, cap)
      PROVE  FALSE
  BY <1>2 DEF StartRun
<1>3. CASE Commit
  <2>1. NextItem \in Jobs /\ j \in Jobs
    BY <1>3, NextIsJob DEF Commit, Done
  <2> QED
    BY <1>3, <2>1 DEF Commit, Done, Running
<1>4. CASE Refuse \/ QueryFails \/ Breaks
  BY <1>4 DEF Refuse, QueryFails, Breaks, Done
<1>5. CASE Rejected
  <2>1. NextItem \in Jobs /\ j \in Jobs
    BY <1>5, NextIsJob DEF Rejected, Done
  <2> QED
    BY <1>5, <2>1 DEF Rejected, Done, Running
<1>6. CASE FinishRun \/ Kill
  BY <1>6 DEF FinishRun, Kill
<1>7. ASSUME NEW p \in Periods, Announce(p)
      PROVE  UNCHANGED <<lake, batch, todo, errors, status>>
  BY <1>7 DEF Announce
<1>8. ASSUME NEW a \in Apis, NEW c \in Configs, EditCatalog(a, c)
      PROVE  UNCHANGED <<lake, batch, todo, errors, status>>
  BY <1>8 DEF EditCatalog
<1>9. CASE RestoreCatalog
  BY <1>9 DEF RestoreCatalog, lake
<1>10. CASE UNCHANGED <<lake, batch, todo, errors, status>>
  BY <1>10 DEF lake
<1> QED
  BY <1>1, <1>2, <1>3, <1>4, <1>5, <1>6, <1>7, <1>8, <1>9, <1>10 DEF Next

-----------------------------------------------------------------------------
(* Nothing is fetched or planned at the start.                             *)
LEMMA InvInit == Init => FinancialInv
<1> SUFFICES ASSUME Init PROVE FinancialInv
  OBVIOUS
<1>1. TypeOK
  <2>1. published \in [Periods -> Answers \ {"none"}] /\ config \in [Apis -> Configs]
    BY ConfigsAssumption DEF Init, Answers
  <2>2. /\ row \in [Jobs -> {"none", "running", "failed", "done"}]
        /\ data \in [Jobs -> Answers]
        /\ \A j \in Jobs : row[j] = "done" => data[j] # "none"
    BY DEF Init, Answers
  <2>3. /\ staged \subseteq Jobs /\ quarantined \subseteq Jobs
        /\ todo \subseteq batch /\ batch \subseteq Jobs
    BY DEF Init
  <2>4. /\ trouble \in 0..MaxTrouble
        /\ status \in {"none", "running", "succeeded", "failed"}
    BY NumbersAssumption DEF Init
  <2>5. errors \in BOOLEAN
    BY Zenon DEF Init
  <2> QED
    BY <2>1, <2>2, <2>3, <2>4, <2>5 DEF TypeOK
<1>2. FullIsPublished
  <2>1. \A p \in Periods : <<Disclosure, p>> \in Jobs
    BY ApisAssumption DEF Jobs
  <2> QED
    BY <2>1 DEF Init, FullIsPublished
<1>3. DealtWith
  BY DEF Init, DealtWith
<1> QED
  BY <1>1, <1>2, <1>3 DEF FinancialInv

(* The inductive invariant holds in every reachable state.                 *)
THEOREM FinancialInvariant == Spec => []FinancialInv
<1>1. FinancialInv /\ [Next]_vars => FinancialInv'
  BY TypeStep, FullStep, DealtStep DEF FinancialInv
<1> QED
  BY InvInit, <1>1, PTL DEF Spec

(* Catalog, files and executor are typed; a job that is done has data.     *)
THEOREM FinancialTypeCorrect == Spec => []TypeOK
<1>1. FinancialInv => TypeOK
  BY DEF FinancialInv
<1> QED
  BY FinancialInvariant, <1>1, PTL

(* No period is called safe before its last disclosure is published        *)
(* (ASharePitAvailabilityReporter.report), whatever its statements hold.   *)
THEOREM SafePeriodsDisclosed == Spec => []SafeMeansDisclosed
<1>1. FinancialInv => SafeMeansDisclosed
  BY DEF FinancialInv, FullIsPublished, SafeMeansDisclosed, PitSafe
<1> QED
  BY FinancialInvariant, <1>1, PTL

(* No step takes away from a period that is safe: neither another fetch,   *)
(* nor a failure in the middle of one, nor a kill.                         *)
THEOREM SafePeriodsStaySafe == Spec => SafeStaysSafe
<1>1. ASSUME FinancialInv, [Next]_vars, NEW p \in Periods, PitSafe(p)
      PROVE  PitSafe(p)'
  <2> USE DEF FinancialInv
  <2>1. \A a \in Required : <<a, p>> \in Jobs
    BY ApisAssumption DEF Jobs
  <2>2. ASSUME NEW a \in Required PROVE data'[<<a, p>>] # "none"
    BY <1>1, <2>1, DataStep, AnswerTyped DEF PitSafe
  <2>3. data'[<<Disclosure, p>>] = "full"
    <3>1. published[p] = "full" /\ data[<<Disclosure, p>>] = "full"
      BY <1>1 DEF PitSafe, FullIsPublished
    <3>2. Answer(<<Disclosure, p>>) = {published[p]}
      BY DEF Answer
    <3> QED
      BY <1>1, <2>1, <3>1, <3>2, DataStep, ApisAssumption
  <2> QED
    BY <2>2, <2>3 DEF PitSafe
<1>2. FinancialInv /\ [Next]_vars => [\A p \in Periods : PitSafe(p) => PitSafe(p)']_vars
  BY <1>1
<1> QED
  BY FinancialInvariant, <1>2, PTL DEF Spec, SafeStaysSafe

(* A run that is recorded as succeeded leaves every job of its plan done   *)
(* or in quarantine (AShareFinancialExecutor.execute).                     *)
THEOREM RunsTellTruth == Spec => RunTellsTruth
<1>1. ASSUME FinancialInv, [Next]_vars, status = "running", status' = "succeeded",
             NEW j \in batch
      PROVE  row[j] = "done" \/ j \in quarantined
  <2>1. FinishRun
    BY <1>1 DEF Next, vars, StartRun, Commit, Refuse, QueryFails, Rejected, Breaks, Kill,
                Announce, EditCatalog, RestoreCatalog, Done
  <2> QED
    BY <1>1, <2>1 DEF FinishRun, FinancialInv, DealtWith, TypeOK
<1>2. FinancialInv /\ [Next]_vars =>
        [status = "running" /\ status' = "succeeded" =>
            \A j \in batch : row[j] = "done" \/ j \in quarantined]_vars
  BY <1>1
<1> QED
  BY FinancialInvariant, <1>2, PTL DEF Spec, RunTellsTruth

-----------------------------------------------------------------------------
(* What the policy answers to the guarded command: how many jobs and codes *)
(* are asked for matters only by the limits.                               *)
LEMMA GuardedDecision ==
    ASSUME NEW c, c.status \in Statuses,
           NEW r, r.command = "financial-raw-fetch", r.codeLoop = "unset",
           r.compaction = FALSE
    PROVE  Decide(c, r) = "allow" <=> c.status = "enabled" /\ GuardrailsMet(c, r)
<1>1. CASE c.status = "disabled"
  BY <1>1 DEF Decide
<1>2. CASE c.status = "unsupported"
  BY <1>2 DEF Decide
<1>3. CASE c.status = "enabled"
  <2>1. Decide(c, r) = IF GuardrailsMet(c, r) THEN "allow" ELSE "blocked"
    BY <1>3 DEF Decide
  <2> QED
    BY <1>3, <2>1
<1> QED
  BY <1>1, <1>2, <1>3 DEF Statuses

(* The planner's request differs from that of fetch in the number of jobs. *)
LEMMA PlannerAsksLikeFetch ==
    ASSUME NEW c, c.status \in Statuses, NEW cap,
           Decide(c, GateRequest(cap)) = "allow"
    PROVE  Decide(c, GateRequest(1)) = "allow"
<1> DEFINE asked == GateRequest(cap)
           one == GateRequest(1)
<1>1. /\ asked.command = "financial-raw-fetch" /\ asked.codeLoop = "unset"
      /\ asked.compaction = FALSE /\ asked.codes = {}
      /\ asked.scope = "a-share-financial-raw"
  BY DEF GateRequest, Request
<1>2. /\ one.command = "financial-raw-fetch" /\ one.codeLoop = "unset"
      /\ one.compaction = FALSE /\ one.jobs = {1} /\ one.codes = {}
      /\ one.scope = "a-share-financial-raw"
  BY DEF GateRequest, Request
<1>3. Decide(c, asked) = "allow"
  OBVIOUS
<1> HIDE DEF asked, one
<1>4. c.status = "enabled" /\ GuardrailsMet(c, asked)
  BY <1>1, <1>3, GuardedDecision
<1>5. CodeLoop(c, asked) <=> CodeLoop(c, one)
  BY <1>1, <1>2 DEF CodeLoop, Given
<1>6. GuardrailsMet(c, one)
  BY <1>1, <1>2, <1>4, <1>5 DEF GuardrailsMet, MaxJobs
<1>7. Decide(c, one) = "allow"
  BY <1>2, <1>4, <1>6, GuardedDecision
<1> QED
  BY <1>7 DEF one

(* No ordinary fetch takes a financial endpoint.                           *)
LEMMA ChecklistRefusesFinancial ==
    ASSUME NEW c, c.status \in Statuses, c.kind \in FinancialKinds
    PROVE  ~EnablementAllowed(c)
<1> DEFINE r == Request("fetch", "low-risk-a-share", {1})
<1>1. r.command = "fetch"
  BY DEF Request
<1>2. ~NothingMissing(c, r)
  BY DEF NothingMissing, BlockedKinds
<1>3. CASE c.status = "enabled"
  <2>1. Decide(c, r) = "blocked"
    BY <1>1, <1>2, <1>3 DEF Decide
  <2> QED
    BY <2>1 DEF EnablementAllowed
<1>4. CASE c.status = "disabled"
  BY <1>1, <1>4 DEF Decide, EnablementAllowed
<1>5. CASE c.status = "unsupported"
  BY <1>1, <1>5 DEF Decide, EnablementAllowed
<1> QED
  BY <1>3, <1>4, <1>5 DEF Statuses

(* A probe called safe has seen a column of a disclosure date.             *)
LEMMA SafeProbeHasDate ==
    ASSUME NEW c, NEW outcome \in {"passed", "failed"}, NEW fields,
           ProbeReport(outcome, fields).pitSafe
    PROVE  "disclosure" \notin PitErrors(c, {fields})
<1>1. outcome = "passed" /\ "disclosure" \in fields
  BY DEF ProbeReport
<1>2. ~DisclosureMissing(c, {fields})
  BY <1>1 DEF DisclosureMissing
<1> QED
  BY <1>2 DEF PitErrors, PitFields

(* A source the code-period planner lets pass is raw-ready in the          *)
(* readiness report, and its contract does not block it.                   *)
LEMMA GateMeansReady ==
    ASSUME NEW c, NEW s, NEW scope \in DOMAIN ScopeMarket, MatrixGate(c, s, scope)
    PROVE  Listed(s, scope) /\ RawReady(s) /\ ~ContractBlocked(s)
BY DEF MatrixGate, Listed, RawReady, ContractBlocked

(* ... and the policy lets its jobs pass once the endpoint is enabled.     *)
LEMMA GateMeansAllowed ==
    ASSUME NEW c, NEW s, NEW scope \in DOMAIN ScopeMarket, MatrixGate(c, s, scope),
           c.status = "enabled"
    PROVE  Decide(c, [GateRequest(1) EXCEPT !.scope = scope, !.codes = {MaxCodes}]) = "allow"
<1> DEFINE r == [GateRequest(1) EXCEPT !.scope = scope, !.codes = {MaxCodes}]
<1>1. /\ r.command = "financial-raw-fetch" /\ r.codeLoop = "unset" /\ r.compaction = FALSE
      /\ r.jobs = {1} /\ r.codes = {MaxCodes} /\ r.scope = scope
  BY DEF GateRequest, Request
<1>2. scope \in RawScopes
  BY DEF ScopeMarket, RawScopes
<1>3. GuardrailsMet(c, r)
  <2> HIDE DEF r
  <2> QED
    BY <1>1, <1>2 DEF GuardrailsMet, MatrixGate, MaxCodes, MaxJobs
<1> HIDE DEF r
<1>4. c.status \in Statuses
  BY DEF Statuses
<1>5. Decide(c, r) = "allow"
  BY <1>1, <1>3, <1>4, GuardedDecision
<1> QED
  BY <1>5 DEF r

(* The gates agree (GatesAgree), whatever records the catalog and the      *)
(* source map have.                                                        *)
THEOREM GatesAlwaysAgree == Spec => []GatesAgree
<1>1. ASSUME TypeOK PROVE GatesAgree
  <2> SUFFICES ASSUME NEW a \in Apis PROVE GatesAgree!(a)
    BY DEF GatesAgree
  <2>1. config[a].status \in Statuses
    BY <1>1, ConfigsAssumption DEF TypeOK, WellFormed
  <2>2. ASSUME NEW cap \in Caps \union {MaxJobs}, GateOpen(a, cap)
        PROVE  FetchAllowed(a)
    BY <2>1, <2>2, PlannerAsksLikeFetch DEF GateOpen, FetchAllowed
  <2>3. config[a].kind \in FinancialKinds => ~EnablementAllowed(config[a])
    BY <2>1, ChecklistRefusesFinancial
  <2>4. ASSUME NEW outcome \in {"passed", "failed"}, NEW fields \in SUBSET {"disclosure"},
               ProbeReport(outcome, fields).pitSafe
        PROVE  "disclosure" \notin PitErrors(config[a], {fields})
    BY <2>4, SafeProbeHasDate
  <2>5. ASSUME NEW s \in Sources, NEW scope \in DOMAIN ScopeMarket
        PROVE  LET matrix == [config[a] EXCEPT !.planner = "code_period_matrix"]
               IN  /\ MatrixGate(matrix, s, scope) =>
                         Listed(s, scope) /\ RawReady(s) /\ ~ContractBlocked(s)
                   /\ MatrixPitSafe(matrix, s, scope) => PitSafeReady(s)
                   /\ MatrixGate(matrix, s, scope) /\ matrix.status = "enabled" =>
                         Decide(matrix, [GateRequest(1) EXCEPT !.scope = scope,
                                             !.codes = {MaxCodes}]) = "allow"
    <3> DEFINE matrix == [config[a] EXCEPT !.planner = "code_period_matrix"]
    <3> HIDE DEF matrix
    <3>1. MatrixGate(matrix, s, scope) =>
              Listed(s, scope) /\ RawReady(s) /\ ~ContractBlocked(s)
      BY GateMeansReady
    <3>2. MatrixPitSafe(matrix, s, scope) => PitSafeReady(s)
      BY <3>1 DEF MatrixPitSafe, PitSafeReady
    <3>3. MatrixGate(matrix, s, scope) /\ matrix.status = "enabled" =>
              Decide(matrix, [GateRequest(1) EXCEPT !.scope = scope,
                                  !.codes = {MaxCodes}]) = "allow"
      BY GateMeansAllowed
    <3> QED
      BY <3>1, <3>2, <3>3 DEF matrix
  <2> QED
    BY <2>2, <2>3, <2>4, <2>5
<1> QED
  BY FinancialTypeCorrect, <1>1, PTL

-----------------------------------------------------------------------------
(* The planners over this lake *)

(* The first n of the numbers from a to b.                                 *)
LEMMA FirstOfRange ==
    ASSUME NEW a \in Nat, NEW b \in Int, NEW n \in Nat
    PROVE  First(a..b, n) = {x \in a..b : x - a < n}
<1>1. ASSUME NEW x \in a..b
      PROVE  Cardinality({y \in a..b : y < x}) = x - a
  <2>1. {y \in a..b : y < x} = a..(x - 1)
    OBVIOUS
  <2>2. Cardinality(a..(x - 1)) = x - a
    <3>1. a \in Int /\ x - 1 \in Int
      OBVIOUS
    <3>2. Cardinality(a..(x - 1)) = IF a > x - 1 THEN 0 ELSE x - 1 - a + 1
      BY <3>1, FS_Interval
    <3> QED
      BY <3>2
  <2> QED
    BY <2>1, <2>2
<1> QED
  BY <1>1 DEF First

(* ... are all of them, if there are no more, ...                          *)
LEMMA FirstAll ==
    ASSUME NEW a \in Nat, NEW b \in Int, NEW n \in Nat, b - a + 1 <= n
    PROVE  First(a..b, n) = a..b
<1>1. \A x \in a..b : x - a < n
  OBVIOUS
<1>2. First(a..b, n) = {x \in a..b : x - a < n}
  BY FirstOfRange
<1> QED
  BY <1>1, <1>2

(* ... and are n, if there are as many.                                    *)
LEMMA FirstSize ==
    ASSUME NEW a \in Nat, NEW b \in Int, NEW n \in Nat, n <= b - a + 1
    PROVE  IsFiniteSet(First(a..b, n)) /\ Cardinality(First(a..b, n)) = n
<1>1. First(a..b, n) = a..(a + n - 1)
  <2>1. First(a..b, n) = {x \in a..b : x - a < n}
    BY FirstOfRange
  <2> QED
    BY <2>1
<1>2. a \in Int /\ a + n - 1 \in Int
  OBVIOUS
<1>3. /\ IsFiniteSet(a..(a + n - 1))
      /\ Cardinality(a..(a + n - 1)) = IF a > a + n - 1 THEN 0 ELSE a + n - 1 - a + 1
  BY <1>2, FS_Interval
<1>4. (IF a > a + n - 1 THEN 0 ELSE a + n - 1 - a + 1) = n
  OBVIOUS
<1> QED
  BY <1>1, <1>3, <1>4

(* There are codes and periods, and no more than a planner takes.          *)
LEMMA Sizes ==
    /\ Len(Order) \in 1..MaxPlanCodes /\ DOMAIN Order = 1..Len(Order)
    /\ LastPeriod \in 1..4
<1>1. Len(Order) \in Nat /\ DOMAIN Order = 1..Len(Order)
  BY OrderAssumption
<1>2. DOMAIN Order # {}
  BY ApisAssumption DEF Apis
<1>3. LastPeriod \in 1..LastPeriod /\ LastPeriod \in Nat
  BY NumbersAssumption
<1>4. Len(Order) >= 1
  BY <1>1, <1>2
<1>5. LastPeriod \in 1..4
  BY <1>3, LimitsAssumption DEF Periods
<1>6. Len(Order) <= MaxPlanCodes
  BY LimitsAssumption
<1>7. Len(Order) \in 1..MaxPlanCodes
  <2>1. \A n \in Nat : n >= 1 /\ n <= MaxPlanCodes => n \in 1..MaxPlanCodes
    BY DEF MaxPlanCodes
  <2> QED
    BY <1>1, <1>4, <1>6, <2>1
<1> QED
  BY <1>1, <1>5, <1>7

(* A range of n numbers that starts at 0 or 1.                             *)
LEMMA RangeSize ==
    ASSUME NEW n \in Nat
    PROVE  /\ IsFiniteSet(1..n) /\ Cardinality(1..n) = n
           /\ IsFiniteSet(0..(n - 1)) /\ Cardinality(0..(n - 1)) = n
<1>1. 0 \in Int /\ 1 \in Int /\ n \in Int /\ n - 1 \in Int
  OBVIOUS
<1>2. /\ IsFiniteSet(1..n) /\ Cardinality(1..n) = IF 1 > n THEN 0 ELSE n - 1 + 1
      /\ IsFiniteSet(0..(n - 1))
      /\ Cardinality(0..(n - 1)) = IF 0 > n - 1 THEN 0 ELSE n - 1 - 0 + 1
  BY <1>1, FS_Interval
<1> QED
  BY <1>2

(* The codes and the periods are such ranges.                              *)
LEMMA RangeSizes ==
    /\ IsFiniteSet(1..Len(Order)) /\ Cardinality(1..Len(Order)) = Len(Order)
    /\ IsFiniteSet(0..(LastPeriod - 1)) /\ Cardinality(0..(LastPeriod - 1)) = LastPeriod
<1>1. Len(Order) \in Nat /\ LastPeriod \in Nat
  BY Sizes
<1> QED
  BY <1>1, RangeSize

(* The quarters of the year are numbered from 0.                           *)
LEMMA QuarterNumbers ==
    /\ {Quarter(p) : p \in Quarters} = 0..(LastPeriod - 1)
    /\ \A p \in Quarters : Parsable(p)
    /\ ~PeriodError(AllQuarters)
    /\ AllPeriods(AllQuarters) = 0..(LastPeriod - 1)
    /\ SelectedPeriods(AllQuarters) = 0..(LastPeriod - 1)
<1>1. \A p \in Quarters : p.quarter \in 1..4 /\ Quarter(p) = p.quarter - 1
  BY Sizes DEF Quarters, Quarter, Periods
<1>2. {Quarter(p) : p \in Quarters} = 0..(LastPeriod - 1)
  <2>1. ASSUME NEW q \in 0..(LastPeriod - 1)
        PROVE  \E p \in Quarters : Quarter(p) = q
    <3>1. [year |-> 0, quarter |-> q + 1] \in Quarters
      BY Sizes DEF Quarters, Periods
    <3>2. Quarter([year |-> 0, quarter |-> q + 1]) = q
      BY <1>1, <3>1
    <3> QED
      BY <3>1, <3>2
  <2>2. ASSUME NEW p \in Quarters
        PROVE  Quarter(p) \in 0..(LastPeriod - 1)
    BY <1>1, Sizes DEF Quarters, Periods
  <2> QED
    BY <2>1, <2>2
<1>3. \A p \in Quarters : Parsable(p)
  BY <1>1 DEF Parsable
<1>4. Quarters # {}
  <2>1. [year |-> 0, quarter |-> 1] \in Quarters
    BY Sizes DEF Quarters, Periods
  <2> QED
    BY <2>1
<1>5. /\ AllQuarters.periods = Quarters /\ AllQuarters.max = 20
  BY DEF AllQuarters, MaxPeriods
<1>6. ~PeriodError(AllQuarters)
  BY <1>3, <1>4, <1>5 DEF PeriodError, MaxPeriods
<1>7. AllPeriods(AllQuarters) = 0..(LastPeriod - 1)
  BY <1>2, <1>4, <1>5, <1>6 DEF AllPeriods
<1>8. First(0..(LastPeriod - 1), 20) = 0..(LastPeriod - 1)
  <2> DEFINE b == LastPeriod - 1
  <2>1. b \in 0..3
    BY Sizes
  <2> HIDE DEF b
  <2>2. First(0..b, 20) = 0..b
    BY <2>1, FirstAll
  <2> QED
    BY <2>2 DEF b
<1> QED
  BY <1>2, <1>3, <1>5, <1>6, <1>7, <1>8 DEF SelectedPeriods

(* Both universes have all the codes of the list.                          *)
LEMMA CodesOfList ==
    ASSUME NEW scope \in DOMAIN ScopeMarket
    PROVE  /\ ~UniverseBlocked(UniverseOf(scope), List)
           /\ UniverseCodes(UniverseOf(scope), List) = 1..Len(Order)
<1> DEFINE name == UniverseOf(scope)
           rule == Universes[name]
<1>1. /\ name \in {"hk_listed", "us_equity"}
  BY DEF UniverseOf
<1>2. name \in DOMAIN Universes
  BY <1>1 DEF Universes
<1>3. ~UniverseBlocked(name, List)
  BY <1>2 DEF UniverseBlocked, List
<1>4. \/ rule.column = "list_status" /\ rule.allowed = {"L"}
      \/ rule.column = "classify" /\ rule.allowed = {"EQ"}
  BY <1>1 DEF Universes, Rule
<1>5. PICK g \in {"L", "EQ"} : rule.allowed = {g}
  BY <1>4
<1> DEFINE kept == {r \in List.rows :
                      CASE rule.column = "none" -> TRUE
                        [] rule.column \in List.columns -> r.group \in rule.allowed
                        [] OTHER -> rule.without = "all"}
<1>6. rule.column # "none" /\ rule.column \in List.columns
  BY <1>4 DEF List
<1>7. kept = {r \in List.rows : r.group = g}
  BY <1>5, <1>6
<1>8. {r.code : r \in kept} = DOMAIN Order
  <2>1. ASSUME NEW c \in DOMAIN Order
        PROVE  \E r \in kept : r.code = c
    <3>1. [code |-> c, group |-> g] \in List.rows
      BY DEF List
    <3> QED
      BY <1>7, <3>1
  <2>2. \A r \in List.rows : r.code \in DOMAIN Order
    BY DEF List
  <2>3. \A r \in kept : r.code \in DOMAIN Order
    BY <2>2, <1>7
  <2> HIDE DEF kept
  <2> QED
    BY <2>1, <2>3
<1>9. UniverseCodes(name, List) = {r.code : r \in kept} \ {0}
  BY DEF UniverseCodes
<1>10. 0 \notin DOMAIN Order
  BY Sizes
<1> QED
  BY <1>3, <1>8, <1>9, <1>10, Sizes

(* What the planners ask the catalog about a job of the matrix.            *)
LEMMA LakeHasJobs ==
    ASSUME NEW i \in (1..Len(Order)) \X (0..(LastPeriod - 1))
    PROVE  /\ <<Order[i[1]], i[2] + 1>> \in Jobs
           /\ Lake[i] = JobOf(<<Order[i[1]], i[2] + 1>>)
<1>1. i[1] \in DOMAIN Order
  BY Sizes
<1>2. i[2] + 1 \in Periods
  BY Sizes DEF Periods
<1>3. i \in (DOMAIN Order) \X {Quarter(p) : p \in Quarters}
  BY Sizes, QuarterNumbers
<1> QED
  BY <1>1, <1>2, <1>3 DEF Lake, Jobs, Apis

(* The two planners mean to do the same about a job: both ask for it if it *)
(* is not done and nothing of it has to be looked at.                      *)
LEMMA SameAction ==
    ASSUME TypeOK, NEW j \in Jobs
    PROVE  /\ PeriodAction(JobOf(j)) = PlannedAction(j)
           /\ Asks(PeriodAction(JobOf(j)))
                  <=> row[j] # "done" /\ j \notin quarantined /\ j \notin staged
<1>1. /\ JobOf(j).active <=> row[j] = "done"
      /\ JobOf(j).quarantined <=> j \in quarantined
      /\ JobOf(j).staged <=> j \in staged
      /\ JobOf(j).row = row[j]
  BY DEF TypeOK, JobOf
<1>2. CASE row[j] = "done"
  BY <1>1, <1>2 DEF PeriodAction, Action, PlannedAction, Asks
<1>3. CASE row[j] # "done" /\ j \in quarantined
  BY <1>1, <1>3 DEF PeriodAction, Action, PlannedAction, Asks
<1>4. CASE row[j] # "done" /\ j \in staged \ quarantined
  BY <1>1, <1>4 DEF PeriodAction, Action, PlannedAction, Asks
<1>5. CASE row[j] # "done" /\ j \notin quarantined /\ j \notin staged
  <2>1. CASE row[j] = "failed"
    BY <1>1, <1>5, <2>1 DEF PeriodAction, Action, PlannedAction, Asks
  <2>2. CASE row[j] # "failed"
    BY <1>1, <1>5, <2>2 DEF PeriodAction, Action, PlannedAction, Asks
  <2> QED
    BY <2>1, <2>2
<1> QED
  BY <1>2, <1>3, <1>4, <1>5

(* A plan takes all the codes of the list and as many periods as the       *)
(* budget allows.                                                          *)
LEMMA CountOfPlan ==
    ASSUME NEW budget \in Nat
    PROVE  LET n == Counts(Len(Order), LastPeriod, Len(Order), MaxPeriods, budget)
           IN  /\ n.codes = Len(Order) /\ n.dates \in 0..LastPeriod
               /\ n.jobs = Len(Order) * n.dates /\ n.jobs <= budget
<1> DEFINE k == Len(Order)
           n == Counts(k, LastPeriod, k, MaxPeriods, budget)
<1>1. k \in 1..20 /\ LastPeriod \in 1..4
  BY Sizes DEF MaxPlanCodes
<1> HIDE DEF k
<1>2. /\ AtMost(AtMost(NotNegative(k), NotNegative(k)), MaxPlanCodes) = k
      /\ AtMost(AtMost(NotNegative(LastPeriod), NotNegative(MaxPeriods)), MaxPlanDates)
             = LastPeriod
      /\ NotNegative(budget) = budget
  BY <1>1 DEF AtMost, NotNegative, MaxPlanCodes, MaxPlanDates, MaxPeriods
<1> DEFINE planned == CASE k * LastPeriod <= budget -> LastPeriod
                        [] k * LastPeriod > budget /\ k > 0 -> budget \div k
                        [] OTHER -> 0
<1>3. n.codes = k /\ n.dates = planned /\ n.jobs = k * planned
  BY <1>2 DEF Counts
<1>4. k \in Nat /\ LastPeriod \in Nat /\ k * LastPeriod \in Nat
  BY <1>1
<1>5. planned \in 0..LastPeriod /\ k * planned <= budget
  <2>1. CASE k * LastPeriod <= budget
    BY <1>1, <2>1
  <2>2. CASE k * LastPeriod > budget
    <3>1. planned = budget \div k
      BY <1>1, <1>4, <2>2
    <3>2. budget \div k \in Nat /\ k * (budget \div k) <= budget
      BY <1>1, <1>4, QuotientKeepsBudget
    <3>3. k * (budget \div k) \in Nat
      BY <1>4, <3>2
    <3>4. budget \div k < LastPeriod
      BY <1>4, <2>2, <3>2, <3>3, ProductOrder
    <3> QED
      BY <1>4, <3>1, <3>2, <3>4
  <2> QED
    BY <1>4, <2>1, <2>2
<1> QED
  BY <1>3, <1>5 DEF k

(* code-period-plan takes these inputs: its items are a matrix of codes    *)
(* and periods, and those a fetch is meant for are allowed.                *)
LEMMA PlanOfMatrix ==
    ASSUME NEW scope \in DOMAIN ScopeMarket, NEW source \in Sources,
           MatrixGate(Matrixed, source, scope), NEW budget \in 1..MaxCandidates
    PROVE  LET n == Counts(Len(Order), LastPeriod, Len(Order), MaxPeriods, budget)
               plan == CodePeriodPlan({Matrixed}, TRUE, scope, {source},
                           UniverseOf(scope), List, {Len(Order)}, budget, AllQuarters, Lake)
               items == Matrix(n, 1..Len(Order), 0..(LastPeriod - 1))
           IN  /\ ~plan.blocked /\ plan.jobs = n.jobs /\ plan.items = items
               /\ plan.allowed = {i \in items : Asks(PeriodAction(Lake[i]))}
<1> DEFINE k == Len(Order)
           name == UniverseOf(scope)
           n == Counts(k, LastPeriod, k, MaxPeriods, budget)
           items == Matrix(n, 1..k, 0..(LastPeriod - 1))
           gate == \E s \in {source}, e \in {Matrixed} : MatrixGate(e, s, scope)
           none == {Matrixed} = {} \/ UniverseBlocked(name, List)
           refused == \/ LimitError({k}, {AllQuarters.max}, budget)
                      \/ PeriodError(AllQuarters)
                      \/ \E e \in {Matrixed} : e.planner \notin {"code_period_matrix", "period"}
                                                 \/ PitBlocked(e, {})
                      \/ scope # "none" /\ ~gate
           result == [blocked |-> FALSE, items |-> items, jobs |-> n.jobs,
                      allowed |-> {i \in items : gate /\ (TRUE => Asks(PeriodAction(Lake[i])))}]
           plan == CodePeriodPlan({Matrixed}, TRUE, scope, {source}, name, List, {k},
                                  budget, AllQuarters, Lake)
<1>1. k \in 1..MaxPlanCodes /\ LastPeriod \in 1..4 /\ AllQuarters.max = MaxPeriods
  BY Sizes DEF AllQuarters
<1>2. Cardinality(1..k) = k /\ Cardinality(0..(LastPeriod - 1)) = LastPeriod
  BY RangeSizes
<1>3. ~none
  BY CodesOfList DEF none
<1>4. gate
  OBVIOUS
<1>5. ~refused
  <2>1. ~LimitError({k}, {AllQuarters.max}, budget)
    BY <1>1 DEF LimitError, CodeLimitError, MaxPlanDates, MaxPeriods
  <2>2. Matrixed.planner = "code_period_matrix"
    BY DEF MatrixGate
  <2>3. ~PitBlocked(Matrixed, {})
    BY LimitsAssumption
  <2> HIDE DEF gate
  <2> QED
    BY <1>4, <2>1, <2>2, <2>3, QuarterNumbers
<1>6. ValueOf({k}, 0) = k
  BY DEF ValueOf
<1>7. plan = CASE none -> NoPlan [] refused -> [NoPlan EXCEPT !.jobs = n.jobs]
               [] OTHER -> result
  BY <1>1, <1>2, <1>6, CodesOfList, QuarterNumbers DEF CodePeriodPlan
<1> HIDE DEF none, refused, plan
<1>8. plan = result
  BY <1>3, <1>5, <1>7
<1> HIDE DEF items, gate
<1>9. /\ result.blocked = FALSE /\ result.jobs = n.jobs /\ result.items = items
      /\ result.allowed = {i \in items : Asks(PeriodAction(Lake[i]))}
  BY <1>4
<1> HIDE DEF result, n
<1>10. /\ ~plan.blocked /\ plan.jobs = n.jobs /\ plan.items = items
       /\ plan.allowed = {i \in items : Asks(PeriodAction(Lake[i]))}
  BY <1>8, <1>9
<1> QED
  BY <1>10 DEF items, plan, n

(* All codes and periods there are.                                        *)
Everything == (1..Len(Order)) \X (0..(LastPeriod - 1))

(* They are finitely many, and at least one.                               *)
LEMMA EverythingSize ==
    /\ IsFiniteSet(Everything) /\ Cardinality(Everything) = Len(Order) * LastPeriod
    /\ Everything # {}
<1>1. /\ IsFiniteSet(Everything)
      /\ Cardinality(Everything) = Cardinality(1..Len(Order)) * Cardinality(0..(LastPeriod - 1))
  BY RangeSizes, FS_Product DEF Everything
<1>2. <<1, 0>> \in Everything
  BY Sizes DEF Everything
<1> QED
  BY <1>1, <1>2, RangeSizes

(* The items of a plan are among them, and as many as it states.           *)
LEMMA ItemsOfMatrix ==
    ASSUME NEW n, n.codes = Len(Order), n.dates \in 0..LastPeriod
    PROVE  LET items == Matrix(n, 1..Len(Order), 0..(LastPeriod - 1))
           IN  /\ items \subseteq Everything
               /\ Cardinality(items) = Len(Order) * n.dates
               /\ n.dates = LastPeriod => items = Everything
<1> DEFINE k == Len(Order)
           b == LastPeriod - 1
           d == n.dates
<1>1. 0 \in Nat /\ k \in Nat /\ b \in Int /\ d \in Nat /\ d <= b - 0 + 1
  BY Sizes
<1>2. d = LastPeriod => b - 0 + 1 <= d
  BY Sizes
<1> HIDE DEF b, d, k
<1>3. First(1..k, k) = 1..k /\ IsFiniteSet(1..k) /\ Cardinality(1..k) = k
  <2>1. 1 \in Nat /\ k \in Int /\ k - 1 + 1 <= k
    BY <1>1
  <2>2. First(1..k, k) = 1..k
    BY <1>1, <2>1, FirstAll, Zenon
  <2> QED
    BY <1>1, <2>2, RangeSize
<1>4. First(0..b, d) \subseteq 0..b
  BY DEF First
<1>5. IsFiniteSet(First(0..b, d)) /\ Cardinality(First(0..b, d)) = d
  BY <1>1, FirstSize
<1>6. d = LastPeriod => First(0..b, d) = 0..b
  BY <1>1, <1>2, FirstAll
<1>7. Matrix(n, 1..k, 0..b) = (1..k) \X First(0..b, d)
  <2>1. n.codes = k
    BY DEF k
  <2> QED
    BY <1>3, <2>1 DEF Matrix, d
<1>8. Cardinality(Matrix(n, 1..k, 0..b)) = k * d
  <2> DEFINE A == 1..k
             B == First(0..b, d)
  <2>1. Cardinality(A) = k /\ Cardinality(B) = d /\ IsFiniteSet(A) /\ IsFiniteSet(B)
    BY <1>3, <1>5
  <2> HIDE DEF A, B
  <2>2. Cardinality(A \X B) = Cardinality(A) * Cardinality(B)
    BY <2>1, FS_Product, Zenon
  <2> QED
    BY <1>7, <2>1, <2>2 DEF A, B
<1>9. /\ Matrix(n, 1..k, 0..b) \subseteq (1..k) \X (0..b)
      /\ d = LastPeriod => Matrix(n, 1..k, 0..b) = (1..k) \X (0..b)
  BY <1>4, <1>6, <1>7
<1> QED
  BY <1>8, <1>9 DEF b, d, k, Everything

(* financial-coverage-matrix counts all there are, and those done of them. *)
LEMMA ReportOfMatrix ==
    ASSUME NEW scope \in DOMAIN ScopeMarket
    PROVE  LET report == Coverage(TRUE, TRUE, UniverseOf(scope), List, Len(Order),
                                  Quarters, Lake)
               done == {i \in Everything : Lake[i].row = "done"}
           IN  /\ report.total = Len(Order) * LastPeriod
               /\ report.covered = Cardinality(done)
               /\ report.state = "complete" <=> done = Everything
<1> DEFINE name == UniverseOf(scope)
           k == Len(Order)
           report == Coverage(TRUE, TRUE, name, List, k, Quarters, Lake)
           done == {i \in Everything : Lake[i].row = "done"}
<1>1. k \in 1..20
  BY Sizes DEF MaxPlanCodes
<1>2. ~UniverseBlocked(name, List) /\ ~\E p \in Quarters : ~Parsable(p)
  BY CodesOfList, QuarterNumbers
<1>3. First(UniverseCodes(name, List), NotNegative(k)) = 1..k
  <2>1. UniverseCodes(name, List) = 1..k
    BY CodesOfList
  <2> HIDE DEF k, name
  <2>2. NotNegative(k) = k
    BY <1>1 DEF NotNegative
  <2>3. 1 \in Nat /\ k \in Nat /\ k \in Int /\ k - 1 + 1 <= k
    BY <1>1
  <2>4. First(1..k, k) = 1..k
    BY <2>3, FirstAll, Zenon
  <2> QED
    BY <2>1, <2>2, <2>4
<1>4. First(UniverseCodes(name, List), NotNegative(k)) \X {Quarter(p) : p \in Quarters}
        = Everything
  BY <1>3, QuarterNumbers DEF Everything
<1> HIDE DEF name, k
<1>5. report = [total |-> Cardinality(Everything), covered |-> Cardinality(done),
                state |-> CASE Everything # {} /\ done = Everything -> "complete"
                            [] Everything = {} \/ done # Everything -> "missing"
                            [] OTHER -> "not_raw_ready"]
  BY <1>2, <1>4 DEF Coverage
<1> HIDE DEF done, report
<1>6. report.state = "complete" <=> done = Everything
  <2>1. CASE done = Everything
    BY <1>5, <2>1, EverythingSize
  <2>2. CASE done # Everything
    BY <1>5, <2>2
  <2> QED
    BY <2>1, <2>2
<1>7. report.total = Len(Order) * LastPeriod /\ report.covered = Cardinality(done)
  BY <1>5, EverythingSize
<1> QED
  BY <1>6, <1>7 DEF report, done, name, k

(* financial-request-estimate counts all there are, too.                   *)
LEMMA EstimateOfMatrix ==
    ASSUME NEW scope \in DOMAIN ScopeMarket, NEW source \in Sources,
           MatrixGate(Matrixed, source, scope)
    PROVE  Estimate({source}, scope, Len(Order), AllQuarters).total = Len(Order) * LastPeriod
<1> DEFINE k == Len(Order)
           each == k * Cardinality(SelectedPeriods(AllQuarters))
<1>1. Ready({source}, scope) = {source}
  BY GateMeansReady DEF Ready
<1>2. Cardinality(Ready({source}, scope)) = 1
  BY <1>1, FS_Singleton
<1>3. k \in 1..MaxPlanCodes /\ LastPeriod \in 1..4 /\ each = k * LastPeriod
  BY Sizes, QuarterNumbers, RangeSizes
<1>4. k \in Nat /\ LastPeriod \in Nat /\ each \in Nat
  BY <1>3 DEF MaxPlanCodes
<1>5. Estimate({source}, scope, k, AllQuarters).total
        = each * Cardinality(Ready({source}, scope))
  BY <1>3, QuarterNumbers DEF Estimate
<1> HIDE DEF each
<1> QED
  BY <1>2, <1>3, <1>4, <1>5

(* Plan, matrix and estimate agree, whatever the lake has of the jobs.     *)
LEMMA PlanAgreesInLake ==
    ASSUME TypeOK, NEW scope \in DOMAIN ScopeMarket, NEW source \in Sources,
           MatrixGate(Matrixed, source, scope), NEW budget \in 1..MaxCandidates
    PROVE  PlanAgrees(scope, source, budget)
<1> DEFINE k == Len(Order)
           name == UniverseOf(scope)
           n == Counts(k, LastPeriod, k, MaxPeriods, budget)
           plan == CodePeriodPlan({Matrixed}, TRUE, scope, {source}, name, List, {k},
                                  budget, AllQuarters, Lake)
           report == Coverage(RawReady(source), TRUE, name, List, k, Quarters, Lake)
           total == Estimate({source}, scope, k, AllQuarters).total
           done == {i \in Everything : Lake[i].row = "done"}
           held == {i \in plan.items : Lake[i].quarantined \/ Lake[i].staged}
           open == {i \in plan.items : Lake[i].row # "done"}
<1>1. /\ n.codes = k /\ n.dates \in 0..LastPeriod
      /\ n.jobs = k * n.dates /\ n.jobs <= budget
  <2>1. budget \in Nat
    BY DEF MaxCandidates
  <2> QED
    BY <2>1, CountOfPlan
<1>2. /\ ~plan.blocked /\ plan.jobs = n.jobs
      /\ plan.items = Matrix(n, 1..k, 0..(LastPeriod - 1))
      /\ plan.allowed = {i \in plan.items : Asks(PeriodAction(Lake[i]))}
  <2> DEFINE items == Matrix(n, 1..k, 0..(LastPeriod - 1))
  <2>1. /\ ~plan.blocked /\ plan.jobs = n.jobs /\ plan.items = items
        /\ plan.allowed = {i \in items : Asks(PeriodAction(Lake[i]))}
    BY PlanOfMatrix, Zenon
  <2> HIDE DEF plan, items, n
  <2>2. plan.allowed = {i \in plan.items : Asks(PeriodAction(Lake[i]))}
    BY <2>1
  <2> QED
    BY <2>1, <2>2 DEF items
<1>3. /\ plan.items \subseteq Everything /\ Cardinality(plan.items) = k * n.dates
      /\ n.dates = LastPeriod => plan.items = Everything
  BY <1>1, <1>2, ItemsOfMatrix
<1>4. /\ report.total = k * LastPeriod /\ report.covered = Cardinality(done)
      /\ report.state = "complete" <=> done = Everything
  <2>1. RawReady(source) = TRUE
    BY GateMeansReady, SourcesAssumption DEF ValidSource, RawReady
  <2>2. report = Coverage(TRUE, TRUE, name, List, k, Quarters, Lake)
    BY <2>1
  <2> HIDE DEF report
  <2> QED
    BY <2>2, ReportOfMatrix
<1>5. total = k * LastPeriod
  BY EstimateOfMatrix
<1> HIDE DEF n, plan, report, total
<1>6. plan.allowed = open \ held
  <2>1. ASSUME NEW i \in Everything
        PROVE  Asks(PeriodAction(Lake[i])) <=>
                   Lake[i].row # "done" /\ ~Lake[i].quarantined /\ ~Lake[i].staged
    <3> DEFINE j == <<Order[i[1]], i[2] + 1>>
    <3>1. j \in Jobs /\ Lake[i] = JobOf(j)
      BY LakeHasJobs DEF Everything
    <3> HIDE DEF j
    <3>2. /\ JobOf(j).row = row[j]
          /\ JobOf(j).quarantined = (j \in quarantined) /\ JobOf(j).staged = (j \in staged)
      BY DEF JobOf
    <3> QED
      BY <3>1, <3>2, SameAction
  <2> QED
    BY <1>2, <1>3, <2>1
<1>7. k \in 1..20 /\ LastPeriod \in 1..4
  BY Sizes DEF MaxPlanCodes
<1> HIDE DEF k
<1>8. k * n.dates <= k * LastPeriod
      /\ (k * n.dates = k * LastPeriod => n.dates = LastPeriod)
  <2> DEFINE d == n.dates
  <2>1. d \in 0..4 /\ d <= LastPeriod
    BY <1>1, <1>7
  <2> HIDE DEF d
  <2>2. /\ LastPeriod = 1 \/ LastPeriod = 2 \/ LastPeriod = 3 \/ LastPeriod = 4
        /\ d = 0 \/ d = 1 \/ d = 2 \/ d = 3 \/ d = 4
    BY <1>7, <2>1
  <2>3. k * d <= k * LastPeriod /\ (k * d = k * LastPeriod => d = LastPeriod)
    BY <1>7, <2>1, <2>2
  <2> QED
    BY <2>3 DEF d
<1>9. ASSUME plan.jobs = report.total
      PROVE  /\ Cardinality(open) = report.total - report.covered
             /\ report.state = "complete" <=> open = {}
  <2>1. plan.items = Everything
    BY <1>1, <1>2, <1>3, <1>4, <1>8, <1>9
  <2>2. open = Everything \ done /\ done \subseteq Everything
    BY <2>1
  <2>3. Cardinality(Everything \ done)
          = Cardinality(Everything) - Cardinality(Everything \intersect done)
    BY EverythingSize, FS_Difference
  <2>4. Everything \intersect done = done
    BY <2>2
  <2>5. Cardinality(open) = report.total - report.covered
    BY <1>4, <2>2, <2>3, <2>4, EverythingSize DEF k
  <2>6. done = Everything <=> open = {}
    BY <2>2
  <2> QED
    BY <1>4, <2>5, <2>6
<1>10. plan.jobs <= budget /\ plan.jobs <= total /\ Cardinality(plan.items) = plan.jobs
  BY <1>1, <1>2, <1>3, <1>5, <1>8
<1> HIDE DEF open, held
<1>11. /\ ~plan.blocked
       /\ Cardinality(plan.items) = plan.jobs /\ plan.jobs <= budget
       /\ plan.allowed = open \ held
       /\ plan.jobs = report.total =>
             /\ Cardinality(open) = report.total - report.covered
             /\ (report.state = "complete") <=> (open = {})
       /\ plan.jobs <= total
  BY <1>2, <1>6, <1>9, <1>10
<1> QED
  BY <1>11 DEF PlanAgrees, plan, report, total, open, held, k

(* What code-period-plan allows, what the coverage matrix counts and what  *)
(* the estimate promises stay in step for every budget a planner takes,    *)
(* after any runs, failures, kills and edits.                              *)
PlansAgreeForAnyBudget ==
    \A scope \in DOMAIN ScopeMarket :
        \A source \in {s \in Sources : MatrixGate(Matrixed, s, scope)} :
            \A budget \in 1..MaxCandidates : PlanAgrees(scope, source, budget)

(* In every reachable state the three agree, for any codes, quarters,      *)
(* records, sources and budgets a planner takes.                           *)
THEOREM PlansAlwaysAgree == Spec => []PlansAgreeForAnyBudget
<1>1. TypeOK => PlansAgreeForAnyBudget
  BY PlanAgreesInLake DEF PlansAgreeForAnyBudget
<1> QED
  BY FinancialTypeCorrect, <1>1, PTL

(* The three planners agree on the jobs that are left (PlannersAgree): for *)
(* any codes, quarters, records and sources, whatever runs have done.      *)
THEOREM PlannersAlwaysAgree == Spec => []PlannersAgree
<1>1. ASSUME TypeOK
      PROVE  PlannersAgree
  <2>1. \A j \in Jobs : PeriodAction(JobOf(j)) = PlannedAction(j)
    BY <1>1, SameAction
  <2>2. 3 \in 1..MaxCandidates /\ 4 \in 1..MaxCandidates
    BY DEF MaxCandidates
  <2>3. PlansAgreeForAnyBudget
    BY <1>1, PlanAgreesInLake DEF PlansAgreeForAnyBudget
  <2> QED
    BY <2>1, <2>2, <2>3 DEF PlannersAgree, PlansAgreeForAnyBudget
<1> QED
  BY FinancialTypeCorrect, <1>1, PTL
=============================================================================
