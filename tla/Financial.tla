----------------------------- MODULE Financial ------------------------------
(***************************************************************************)
(* The raw financial data of A shares (a_share_financial.py): the planner  *)
(* of a-share-financial-plan, the executor of a-share-financial-run and    *)
(* the report of a-share-pit-availability, which says whether a reporting  *)
(* period may be used by a strategy.                                       *)
(*                                                                         *)
(* A job is an api and a period.  A company's row in disclosure_date has   *)
(* an actual_date from the day it has reported, and its figures appear on  *)
(* that day or later: what an api answers for a period is "empty",         *)
(* "partial" or "full".  One process writes, and a fetch is one step with  *)
(* the outcomes FileLake allows it.                                        *)
(***************************************************************************)
EXTENDS Policy, Sequences, FiniteSets

CONSTANTS
    Order,       \* the apis in the order the planner takes them
    Required,    \* those a period needs, A_SHARE_VALUE_REQUIRED_APIS
    Disclosure,  \* the one with the disclosure dates
    LastPeriod,  \* reporting periods are 1..LastPeriod
    Caps,        \* values of --max-jobs
    Configs,     \* records an api may have in the catalog
    Good,        \* the record the repository ships for them
    Sources,     \* entries a source map may have
    MaxTrouble   \* bound on failures, kills and edits of the catalog

Apis == {Order[i] : i \in DOMAIN Order}
Periods == 1..LastPeriod
Jobs == Apis \X Periods
Answers == {"none", "empty", "partial", "full"}

ASSUME OrderAssumption == Order \in Seq(Apis)
ASSUME ApisAssumption == Disclosure \in Required /\ Required \subseteq Apis
ASSUME ConfigsAssumption == Good \in Configs /\ \A c \in Configs : WellFormed(c)
ASSUME SourcesAssumption == \A s \in Sources : ValidSource(s)
ASSUME NumbersAssumption ==
    LastPeriod \in Nat \ {0} /\ Caps \subseteq Nat /\ Caps # {} /\ MaxTrouble \in Nat

VARIABLES
    published,   \* which disclosures of a period there are
    config,      \* the endpoint records of the catalog
    row,         \* jobs: the status of a job
    staged,      \* jobs with a file row left staged
    quarantined, \* jobs with a quarantine row
    data,        \* what the active files of a job hold
    batch,       \* the jobs the run set out to fetch
    todo,        \* those still to be fetched
    errors,      \* whether the executor has collected an error
    status,      \* of the last run, "none" if it was killed
    trouble      \* counts what MaxTrouble bounds

lake == <<row, staged, quarantined, data>>
world == <<published, config>>
vars == <<published, config, row, staged, quarantined, data, batch, todo, errors,
          status, trouble>>

TypeOK ==
    /\ published \in [Periods -> Answers \ {"none"}]
    /\ config \in [Apis -> Configs]
    /\ row \in [Jobs -> {"none", "running", "failed", "done"}]
    /\ staged \subseteq Jobs /\ quarantined \subseteq Jobs
    /\ data \in [Jobs -> Answers]
    /\ \A j \in Jobs : row[j] = "done" => data[j] # "none"
    /\ todo \subseteq batch /\ batch \subseteq Jobs
    /\ errors \in BOOLEAN
    /\ status \in {"none", "running", "succeeded", "failed"}
    /\ trouble \in 0..MaxTrouble

Init ==
    /\ published = [p \in Periods |-> "empty"]
    /\ config = [a \in Apis |-> Good]
    /\ row = [j \in Jobs |-> "none"] /\ data = [j \in Jobs |-> "none"]
    /\ staged = {} /\ quarantined = {}
    /\ batch = {} /\ todo = {} /\ errors = FALSE /\ status = "none"
    /\ trouble = 0

-----------------------------------------------------------------------------
(* The plan *)

(* _existing_status_and_action *)
PlannedAction(j) ==
    CASE row[j] = "done" -> "skip_existing"
      [] row[j] # "done" /\ j \in quarantined -> "blocked_quarantined"
      [] row[j] # "done" /\ j \in staged \ quarantined -> "blocked_staged"
      [] OTHER -> IF row[j] = "failed" THEN "retry_failed" ELSE "fetch"

(* The order of the items: by api, then by period.                         *)
Before(j, k) ==
    \E x, y \in DOMAIN Order :
        /\ Order[x] = j[1] /\ Order[y] = k[1]
        /\ x < y \/ (x = y /\ j[2] < k[2])

(* What the gate of the planner asks of the policy, and fetch once more.   *)
GateRequest(jobs) ==
    [Request("financial-raw-fetch", "a-share-financial-raw", {jobs})
        EXCEPT !.pit = "no"]
GateOpen(a, cap) == Decide(config[a], GateRequest(cap)) = "allow"
FetchAllowed(a) == Decide(config[a], GateRequest(1)) = "allow"

(* One of the chosen apis blocks the whole plan.  A refusal that names     *)
(* nothing does not.                                                       *)
Blocks(a, cap) ==
    \/ config[a].market # "a" \/ config[a].planner # "period"
    \/ NamesWhatIsMissing(config[a], GateRequest(cap))
    \/ PitBlocked(config[a], {})

(* Mutant: the limit counts every item, as that of a date backfill does.   *)
ExecutableOfItems(apis, periods, cap) ==
    LET items == apis \X periods
    IN  {j \in items : /\ PlannedAction(j) \in {"fetch", "retry_failed"}
                       /\ GateOpen(j[1], cap)
                       /\ Cardinality({k \in items : Before(k, j)}) < cap}

(* The items with execution_allowed: the first cap of those to be fetched, *)
(* but those of an api whose gate is closed only take up room.             *)
ExecutableItems(apis, periods, cap) ==
    LET wanted == {j \in apis \X periods :
                       PlannedAction(j) \in {"fetch", "retry_failed"}}
    IN  {j \in wanted : /\ GateOpen(j[1], cap)
                        /\ Cardinality({k \in wanted : Before(k, j)}) < cap}

(* a-share-financial-run --execute with a plan that is not blocked and has *)
(* something to do; otherwise nothing changes.                             *)
StartRun(apis, periods, cap) ==
    LET items == ExecutableItems(apis, periods, cap)
    IN  /\ todo = {} /\ status # "running"
        /\ cap \in 1..MaxJobs
        /\ ~\E a \in apis : Blocks(a, cap)
        /\ items # {}
        /\ batch' = items /\ todo' = items
        /\ errors' = FALSE /\ status' = "running"
        /\ UNCHANGED <<lake, world, trouble>>

-----------------------------------------------------------------------------
(* The executor *)

Running == status = "running" /\ todo # {}
NextItem == CHOOSE j \in todo : \A k \in todo \ {j} : Before(j, k)
Spend == trouble < MaxTrouble /\ trouble' = trouble + 1

(* What the active file of a job may hold once it is fetched.  An answer   *)
(* with no rows or too few is committed and done like any other.           *)
UpTo(answer) == {"empty", answer} \union (IF answer = "full" THEN {"partial"} ELSE {})
Answer(j) == IF j[1] = Disclosure THEN {published[j[2]]} ELSE UpTo(published[j[2]])
Fetched == {[data EXCEPT ![NextItem] = answer] : answer \in Answer(NextItem)}

(* The item is over; an exception of fetch is collected.                   *)
Done(raised) ==
    /\ todo' = todo \ {NextItem}
    /\ errors' = (errors \/ raised)
    /\ UNCHANGED <<batch, status, world>>

(* Mutant: a snapshot does not take over the files of its parent.          *)
CommitAlone ==
    /\ Running /\ FetchAllowed(NextItem[1])
    /\ row' = [row EXCEPT ![NextItem] = "done"]
    /\ \E fetched \in Fetched :
           data' = [j \in Jobs |->
                      IF j # NextItem /\ j[1] = NextItem[1] THEN "none" ELSE fetched[j]]
    /\ Done(FALSE)
    /\ UNCHANGED <<staged, quarantined, trouble>>

Commit ==
    /\ Running /\ FetchAllowed(NextItem[1])
    /\ row' = [row EXCEPT ![NextItem] = "done"]
    /\ data' \in Fetched
    /\ Done(FALSE)
    /\ UNCHANGED <<staged, quarantined, trouble>>

(* fetch asks the policy again, which an edit of the catalog since the     *)
(* plan may have changed.                                                  *)
Refuse ==
    /\ Running /\ ~FetchAllowed(NextItem[1])
    /\ Done(TRUE)
    /\ UNCHANGED <<lake, trouble>>

(* Mutant: the exception of a failed request is not collected.             *)
QueryFailsUnseen ==
    /\ Running /\ FetchAllowed(NextItem[1]) /\ Spend
    /\ row' = [row EXCEPT ![NextItem] = "failed"]
    /\ Done(FALSE)
    /\ UNCHANGED <<staged, quarantined, data>>

(* The request fails for good before anything has been written.            *)
QueryFails ==
    /\ Running /\ FetchAllowed(NextItem[1]) /\ Spend
    /\ row' = [row EXCEPT ![NextItem] = "failed"]
    /\ Done(TRUE)
    /\ UNCHANGED <<staged, quarantined, data>>

(* An incompatible schema or a failed validation returns a result without  *)
(* a snapshot: the executor counts the item as executed.                   *)
Rejected ==
    /\ Running /\ FetchAllowed(NextItem[1]) /\ Spend
    /\ row' = [row EXCEPT ![NextItem] = "failed"]
    /\ quarantined' = quarantined \union {NextItem}
    /\ staged' \in {staged, staged \union {NextItem}}
    /\ Done(FALSE)
    /\ UNCHANGED data

(* A step after the temporary files exist raises: before the rows, before  *)
(* the commit, or between the commit and the end.                          *)
Breaks ==
    /\ Running /\ FetchAllowed(NextItem[1]) /\ Spend
    /\ row' = [row EXCEPT ![NextItem] = "failed"]
    /\ quarantined' = quarantined \union {NextItem}
    /\ \/ staged' \in {staged, staged \union {NextItem}} /\ data' = data
       \/ data' \in Fetched /\ staged' = staged
    /\ Done(TRUE)

FinishRun ==
    /\ status = "running" /\ todo = {}
    /\ status' = IF errors THEN "failed" ELSE "succeeded"
    /\ batch' = {} /\ errors' = FALSE
    /\ UNCHANGED <<lake, world, todo, trouble>>

(* The process is killed between two items or in the middle of one: before *)
(* or after the answer of a rejected or failing job is put into            *)
(* quarantine, or after the commit.                                        *)
Kill ==
    /\ status = "running" /\ Spend
    /\ \/ UNCHANGED lake
       \/ /\ Running /\ FetchAllowed(NextItem[1])
          /\ \/ /\ row' \in {[row EXCEPT ![NextItem] = s] : s \in {"running", "failed"}}
                /\ staged' \in {staged, staged \union {NextItem}}
                /\ quarantined' \in {quarantined, quarantined \union {NextItem}}
                /\ UNCHANGED data
             \/ /\ row' = [row EXCEPT ![NextItem] = "running"]
                /\ data' \in Fetched
                /\ UNCHANGED <<staged, quarantined>>
    /\ todo' = {} /\ status' = "none" /\ batch' = {} /\ errors' = FALSE
    /\ UNCHANGED world

-----------------------------------------------------------------------------
(* The world *)

Announce(p) ==
    /\ published' = [published EXCEPT ![p] =
                        IF @ = "empty" THEN "partial" ELSE "full"]
    /\ published[p] # "full"
    /\ UNCHANGED <<config, lake, batch, todo, errors, status, trouble>>

(* The endpoint files of the root are edited and init-catalog is called.   *)
EditCatalog(a, c) ==
    /\ c # config[a] /\ Spend
    /\ config' = [config EXCEPT ![a] = c]
    /\ UNCHANGED <<published, lake, batch, todo, errors, status>>

RestoreCatalog ==
    /\ config # [a \in Apis |-> Good]
    /\ config' = [a \in Apis |-> Good]
    /\ UNCHANGED <<published, lake, batch, todo, errors, status, trouble>>

-----------------------------------------------------------------------------
(* a-share-pit-availability *)

(* Mutant: rows without an actual_date do not matter.                      *)
PitSafeEarly(p) ==
    /\ \A a \in Required : data[<<a, p>>] # "none"
    /\ data[<<Disclosure, p>>] \in {"partial", "full"}

(* An active file of every required api, rows in disclosure_date and an    *)
(* actual_date in each.                                                    *)
PitSafe(p) ==
    /\ \A a \in Required : data[<<a, p>>] # "none"
    /\ data[<<Disclosure, p>>] = "full"

Next ==
    \/ \E apis \in SUBSET Apis, periods \in SUBSET Periods, cap \in Caps :
          StartRun(apis, periods, cap)
    \/ Commit \/ Refuse \/ QueryFails \/ Rejected \/ Breaks \/ FinishRun \/ Kill
    \/ \E p \in Periods : Announce(p)
    \/ \E a \in Apis, c \in Configs : EditCatalog(a, c)
    \/ RestoreCatalog

Spec == Init /\ [][Next]_vars

(* A run goes on while its process lives, a catalog somebody broke is      *)
(* repaired, and the documented command is given again and again.          *)
FairSpec ==
    /\ Spec
    /\ WF_vars(Commit \/ Refuse) /\ WF_vars(FinishRun)
    /\ WF_vars(RestoreCatalog)
    /\ SF_vars(\E cap \in Caps : StartRun(Apis, Periods, cap))

-----------------------------------------------------------------------------
(* Properties *)

(* No strategy looks at a period before every company has disclosed its    *)
(* report: when a-share-pit-availability calls a period safe, no date of   *)
(* disclosure is left to be announced for it, and there is a file of each  *)
(* statement.  What is in the file is not looked at: the figures of a      *)
(* period that is safe may be those of a day when few had appeared.        *)
SafeMeansDisclosed ==
    \A p \in Periods : PitSafe(p) => published[p] = "full"

(* A period that was safe stays safe, whatever fails later: fetching       *)
(* another period, or one again after a kill, takes nothing away.          *)
SafeStaysSafe == [][\A p \in Periods : PitSafe(p) => PitSafe(p)']_vars

(* A run the catalog calls succeeded leaves no job of its plan to be done  *)
(* again: each is done or in quarantine, where a human has to look.        *)
RunTellsTruth ==
    [][status = "running" /\ status' = "succeeded" =>
          \A j \in batch : row[j] = "done" \/ j \in quarantined]_vars

(* The gates of planner, fetch and reports decide from the same records in *)
(* different code.  What the planner lets pass, fetch does not refuse; the *)
(* checklist never says that an ordinary fetch may take a financial        *)
(* endpoint; and what the code-period planner calls ready for the guarded  *)
(* command is raw-ready, and point-in-time safe, for the readiness report  *)
(* too, and allowed by the policy if the endpoint is enabled.  A probe     *)
(* whose columns the report calls point-in-time safe is not refused for    *)
(* these columns by the check of the metadata.                             *)
GatesAgree ==
    \A a \in Apis :
        /\ \A cap \in Caps \union {MaxJobs} : GateOpen(a, cap) => FetchAllowed(a)
        /\ config[a].kind \in FinancialKinds => ~EnablementAllowed(config[a])
        /\ \A outcome \in {"passed", "failed"}, fields \in SUBSET {"disclosure"} :
              ProbeReport(outcome, fields).pitSafe =>
                  "disclosure" \notin PitErrors(config[a], {fields})
        /\ \A s \in Sources, scope \in DOMAIN ScopeMarket :
              LET matrix == [config[a] EXCEPT !.planner = "code_period_matrix"]
              IN  /\ MatrixGate(matrix, s, scope) =>
                        Listed(s, scope) /\ RawReady(s) /\ ~ContractBlocked(s)
                  /\ MatrixPitSafe(matrix, s, scope) => PitSafeReady(s)
                  /\ MatrixGate(matrix, s, scope) /\ matrix.status = "enabled" =>
                        Decide(matrix, [GateRequest(1) EXCEPT !.scope = scope,
                                            !.codes = {MaxCodes}]) = "allow"

(* What fetch_planned jobs a period waits for can never come by itself: a  *)
(* job in quarantine or with a staged row is not planned again, and an     *)
(* answer that came too early is not asked for again.                      *)
Stuck(p) ==
    \/ \E a \in Required : <<a, p>> \in quarantined \union staged
    \/ data[<<Disclosure, p>>] \in {"empty", "partial"}

(* If the documented command is given again and again, every period        *)
(* becomes safe in the end, however few jobs a run may have and whatever   *)
(* fails for a while - unless it is stuck for good.                        *)
SafeUnlessStuck == <>[](\A p \in Periods : PitSafe(p) \/ Stuck(p))
=============================================================================
