--------------------------- MODULE WorkflowProofs ----------------------------
(***************************************************************************)
(* The safety of the operator's monthly workflow, for any number of months *)
(* and any set of long ones: months are done in order, the gate lets pass  *)
(* none beyond the recommended one, certificates stay true as long as the  *)
(* lake validates, and the gate report inside a bundle never says "ready". *)
(***************************************************************************)
EXTENDS Workflow, WellFoundedInduction, TLAPS

-----------------------------------------------------------------------------
(* The inductive invariant, in parts *)

(* A run has jobs of its month only.                                       *)
PlanOfMonth == run.plan \subseteq PartsOf(run.month)

(* Without a kill no job is left half done.                                *)
NoneKilled == ~killed => \A p \in Parts : cover[p] # "killed"

(* A month all of whose days had their turn; its calendar is lost only to  *)
(* a fetch that overwrites a listed file.                                  *)
Reached(m) ==
    (m \in calendar \/ ~sound) /\ \A p \in PartsOf(m) : cover[p] # "missing"

(* A month that a run has touched, is at work on, or may be started on by  *)
(* a script written long before.                                           *)
Underway(m) == Touched(m) \/ m \in scripts \/ m = run.month

EarlierReached == \A m \in Months : Underway(m) => \A k \in 1..(m - 1) : Reached(k)

EarlierComplete ==
    ~killed /\ sound =>
        \A m \in Months : Underway(m) => \A k \in 1..(m - 1) : MonthComplete(k)

WorkInv ==
    /\ TypeOK /\ PlanOfMonth /\ NoneKilled
    /\ EarlierReached /\ EarlierComplete
    /\ CertificateStaysTrue /\ EmbeddedGateBlocked

-----------------------------------------------------------------------------
(* Parts of months *)

(* Each part is of one month.                                              *)
LEMMA PartFacts ==
    /\ \A m \in Months : PartsOf(m) \subseteq Parts /\ <<m, "head">> \in PartsOf(m)
    /\ \A p \in Parts : p[1] \in Months /\ p \in PartsOf(p[1])
    /\ \A m, k \in Months : PartsOf(m) \intersect PartsOf(k) # {} => m = k
<1>0. LongMonths \subseteq Months
  BY MonthsAssumption DEF Months
<1>1. ASSUME NEW p \in Parts
      PROVE  p[1] \in Months
  <2>1. CASE p \in Months \X {"head"}
    BY <2>1
  <2>2. CASE p \in LongMonths \X {"tail"}
    BY <1>0, <2>2
  <2> QED
    BY <2>1, <2>2 DEF Parts
<1>2. \A m \in Months : PartsOf(m) \subseteq Parts /\ <<m, "head">> \in PartsOf(m)
  BY DEF Parts, PartsOf
<1>3. /\ \A p \in Parts : p \in PartsOf(p[1])
      /\ \A m, k \in Months : PartsOf(m) \intersect PartsOf(k) # {} => m = k
  BY DEF PartsOf
<1> QED
  BY <1>1, <1>2, <1>3

(* What a run holds, and the steps that change it.                         *)
Runs == [step : Steps, month : Months, backs : BOOLEAN, plan : SUBSET Parts]

(* Every value the steps give to the run is one.                           *)
LEMMA RunFacts ==
    ASSUME TypeOK
    PROVE  /\ run \in Runs /\ run.month \in Months /\ Idle \in Runs /\ AfterItems \in Runs
           /\ \A s \in Steps : [run EXCEPT !.step = s] \in Runs
           /\ \A S : [run EXCEPT !.plan = @ \ S] \in Runs
           /\ [run EXCEPT !.step = "jobs", !.plan = {}] \in Runs
<1>1. run \in Runs /\ run.month \in Months
  BY DEF TypeOK, Runs
<1>2. Idle \in Runs
  BY MonthsAssumption DEF Idle, Runs, Steps, Months
<1>3. \A s \in Steps : [run EXCEPT !.step = s] \in Runs
  BY <1>1 DEF Runs
<1>4. \A S : [run EXCEPT !.plan = @ \ S] \in Runs
  BY <1>1 DEF Runs
<1>5. /\ [run EXCEPT !.step = "backup", !.plan = {}] \in Runs
      /\ [run EXCEPT !.step = "jobs", !.plan = {}] \in Runs
  BY <1>1 DEF Runs, Steps
<1> QED
  BY <1>1, <1>2, <1>3, <1>4, <1>5 DEF AfterItems

(* Troubles stay within their bound.                                       *)
LEMMA TroubleType == trouble \in 0..MaxTrouble /\ Trouble => trouble' \in 0..MaxTrouble
BY TroubleAssumption DEF Trouble

(* A set of numbers has a least one.                                       *)
LEMMA LeastNumber ==
    ASSUME NEW S, S \subseteq Nat, S # {}
    PROVE  \E n \in S : \A k \in S : n <= k
<1> DEFINE R == OpToRel(<, Nat)
<1>1. IsWellFoundedOn(R, Nat)
  BY NatLessThanWellFounded, Zenon
<1>2. R = {p \in Nat \X Nat : p[1] < p[2]}
  BY Zenon DEF OpToRel
<1> HIDE DEF R
<1>3. PICK n \in S : \A k \in S : <<k, n>> \notin R
  BY <1>1, WFMin
<1>4. ASSUME NEW k \in S
      PROVE  n <= k
  <2>1. n \in Nat /\ k \in Nat
    OBVIOUS
  <2>2. <<k, n>> \notin {p \in Nat \X Nat : p[1] < p[2]}
    BY <1>2, <1>3
  <2> QED
    BY <2>1, <2>2
<1> QED
  BY <1>4

(* mirror-next-batch names the first month that is not complete, or the    *)
(* one after the last.                                                     *)
LEMMA NextMonthIsFirst ==
    /\ NextMonth \in 1..(LastMonth + 1)
    /\ \A k \in 1..(NextMonth - 1) : MonthComplete(k)
    /\ NextMonth <= LastMonth => ~MonthComplete(NextMonth)
<1> DEFINE open == {m \in 1..(LastMonth + 1) : m <= LastMonth => ~MonthComplete(m)}
<1>1. open \subseteq Nat /\ LastMonth + 1 \in open
  BY MonthsAssumption
<1>2. PICK n \in open : \A k \in open : n <= k
  <2> HIDE DEF open
  <2> QED
    BY <1>1, LeastNumber
<1>3. \A k \in 1..(n - 1) : MonthComplete(k)
  <2> SUFFICES ASSUME NEW k \in 1..(n - 1), ~MonthComplete(k)
               PROVE  FALSE
    OBVIOUS
  <2>1. k \in open
    BY MonthsAssumption
  <2>2. k \in Int /\ n \in Int /\ k <= n - 1
    BY <1>1
  <2> QED
    BY <1>2, <2>1, <2>2
<1>4. n \in 1..(LastMonth + 1) /\ (n <= LastMonth => ~MonthComplete(n))
  OBVIOUS
<1> HIDE DEF open
<1> QED
  BY <1>3, <1>4 DEF NextMonth

(* A month that the gate lets pass is not the first, and the month before  *)
(* it is covered, or was killed.                                           *)
LEMMA GateLooksBack ==
    ASSUME TypeOK, NEW m \in Months, GateReady(m)
    PROVE  /\ m > 1 /\ m - 1 \in Months
           /\ MatrixComplete(m - 1) /\ Reached(m - 1) /\ Touched(m - 1)
<1>1. m > 1 /\ MatrixComplete(m - 1)
  BY DEF GateReady, Promotion
<1>2. m - 1 \in Months
  BY <1>1, MonthsAssumption DEF Months
<1> QED
  BY <1>1, <1>2 DEF MatrixComplete, Counted, CalendarCovered, Reached, Touched

(* Without a kill, complete in the matrix is complete.                     *)
LEMMA MatrixIsComplete ==
    ASSUME NoneKilled, ~killed, NEW m \in Months, MatrixComplete(m)
    PROVE  MonthComplete(m)
BY PartFacts DEF NoneKilled, MatrixComplete, Counted, MonthComplete

-----------------------------------------------------------------------------
(* What the actions do *)

(* A calendar that is written is that of the run's month, and one that is  *)
(* lost by it leaves a lake that does not validate.                        *)
LEMMA WrittenFacts ==
    ASSUME TypeOK, NEW m \in Months, ~CalendarDone(m), NEW empty, NEW finished,
           CalendarWritten(m, empty, finished)
    PROVE  /\ calendar' \subseteq Months /\ hollow' \subseteq Months /\ redo' \subseteq Months
           /\ sound' \in BOOLEAN
           /\ calendar' \subseteq calendar \union {m}
           /\ sound' => sound /\ calendar \subseteq calendar'
<1>1. /\ calendar \subseteq Months /\ hollow \subseteq Months /\ redo \subseteq Months
      /\ sound \in BOOLEAN
  BY DEF TypeOK
<1>2. /\ calendar' \subseteq calendar \union {m} /\ hollow' \subseteq hollow \union {m}
      /\ redo' \subseteq redo \union {m}
  BY DEF CalendarWritten
<1>3. sound' = (sound /\ m \notin redo)
  BY DEF CalendarWritten
<1>4. m \in calendar => m \in redo
  BY DEF CalendarDone
<1>5. m \notin calendar => calendar \subseteq calendar'
  BY DEF CalendarWritten
<1>6. sound' => sound /\ calendar \subseteq calendar'
  BY <1>3, <1>4, <1>5
<1> QED
  BY <1>1, <1>2, <1>3, <1>6

(* What no step undoes.                                                    *)
CalendarsKept ==
    /\ calendar' \subseteq Months /\ hollow' \subseteq Months /\ redo' \subseteq Months
    /\ sound' \in BOOLEAN
    /\ calendar' \subseteq calendar \union {run.month}
    /\ sound' => sound /\ calendar \subseteq calendar'

(* The calendar fetch of a run, however it ends.                           *)
LEMMA CalendarStep ==
    ASSUME TypeOK, FetchCalendar \/ CalendarEmpty \/ CalendarFails \/ RunDies
    PROVE  CalendarsKept
<1>1. /\ calendar \subseteq Months /\ hollow \subseteq Months /\ redo \subseteq Months
      /\ sound \in BOOLEAN /\ run.month \in Months
  BY RunFacts DEF TypeOK
<1>2. CASE UNCHANGED <<calendars, sound>>
  BY <1>1, <1>2 DEF calendars, CalendarsKept
<1>3. ASSUME ~CalendarDone(run.month),
             NEW empty, NEW finished, CalendarWritten(run.month, empty, finished)
      PROVE  CalendarsKept
  BY <1>1, <1>3, WrittenFacts DEF CalendarsKept
<1>4. ASSUME NEW p, Overwrites(p), UNCHANGED calendars
      PROVE  CalendarsKept
  <2>1. sound' \in BOOLEAN /\ (sound' => sound)
    <3>1. CASE cover[p] = "killed"
      BY <1>1, <1>4, <3>1 DEF Overwrites
    <3>2. CASE cover[p] # "killed"
      BY <1>1, <1>4, <3>2 DEF Overwrites
    <3> QED
      BY <3>1, <3>2
  <2>2. calendar' = calendar /\ hollow' = hollow /\ redo' = redo
    BY <1>4 DEF calendars
  <2> QED
    BY <1>1, <2>1, <2>2 DEF CalendarsKept
<1>5. CASE FetchCalendar
  BY <1>2, <1>3, <1>5 DEF FetchCalendar
<1>6. CASE CalendarEmpty
  BY <1>3, <1>6 DEF CalendarEmpty
<1>7. CASE CalendarFails
  BY <1>2, <1>3, <1>7 DEF CalendarFails
<1>8. CASE RunDies
  <2>1. CASE UNCHANGED <<calendars, cover, sound>>
    BY <1>2, <2>1
  <2>2. CASE /\ ~CalendarDone(run.month)
             /\ \E empty \in BOOLEAN : CalendarWritten(run.month, empty, FALSE)
    BY <1>3, <2>2
  <2>3. CASE /\ \E p \in run.plan : Overwrites(p)
             /\ UNCHANGED calendars
    BY <1>4, <2>3
  <2> QED
    BY <1>8, <2>1, <2>2, <2>3 DEF RunDies
<1> QED
  BY <1>5, <1>6, <1>7, <1>8

(* A run works on the jobs of its month.                                   *)
LEMMA PlanStep ==
    TypeOK /\ PlanOfMonth /\ [Next]_vars =>
        PlanOfMonth'
<1> SUFFICES ASSUME TypeOK, PlanOfMonth, [Next]_vars
             PROVE  PlanOfMonth'
  OBVIOUS
<1> USE DEF TypeOK, PlanOfMonth, catalog, calendars, bundling, papers, Trouble, Idle
<1>1. CASE FetchCalendar
  BY <1>1, PartFacts DEF FetchCalendar
<1>2. CASE EndJobs
  BY <1>2, PartFacts DEF EndJobs, AfterItems
<1>3. CASE BackUp
  BY <1>3, PartFacts DEF BackUp
<1>4. CASE Traceback
  BY <1>4, PartFacts DEF Traceback
<1>5. ASSUME NEW p \in Parts, JobSucceeds(p)
      PROVE  PlanOfMonth'
  BY <1>5, PartFacts DEF JobSucceeds, Fetches
<1>6. CASE WriteBaseManifest
  BY <1>6, PartFacts DEF WriteBaseManifest
<1>7. CASE WritePreview
  BY <1>7, PartFacts DEF WritePreview
<1>8. CASE WriteManifest
  BY <1>8, PartFacts DEF WriteManifest
<1>9. ASSUME NEW m \in Months, EmbedGate(m)
      PROVE  PlanOfMonth'
  BY <1>9, PartFacts DEF EmbedGate
<1>10. CASE CalendarFails
  BY <1>10, PartFacts DEF CalendarFails, AfterItems
<1>11. CASE RunDies
  BY <1>11, PartFacts DEF RunDies, Fetches
<1>12. CASE BuilderDies
  BY <1>12, PartFacts DEF BuilderDies
<1>13. CASE Damage
  BY <1>13, PartFacts DEF Damage
<1>14. ASSUME NEW p \in Parts, JobFails(p)
      PROVE  PlanOfMonth'
  BY <1>14, PartFacts DEF JobFails, Fetches
<1>15. CASE StartPilot
  BY <1>15, PartFacts, MonthsAssumption DEF StartPilot, MonthRun, Begin, Months
<1>16. CASE BuildBundle
  BY <1>16, PartFacts DEF BuildBundle
<1>17. CASE RenewBackup
  BY <1>17, PartFacts DEF RenewBackup
<1>18. ASSUME NEW m \in Months, StartConfirmed(m)
      PROVE  PlanOfMonth'
  BY <1>18, PartFacts DEF StartConfirmed, MonthRun, Begin
<1>19. ASSUME NEW m \in Months, StartRecommended(m)
      PROVE  PlanOfMonth'
  BY <1>19, PartFacts DEF StartRecommended, MonthRun, Begin
<1>20. ASSUME NEW m \in Months, StartMissing(m)
      PROVE  PlanOfMonth'
  BY <1>20, PartFacts DEF StartMissing, Begin
<1>21. ASSUME NEW m \in Months, WriteScript(m)
      PROVE  PlanOfMonth'
  BY <1>21, PartFacts DEF WriteScript
<1>22. ASSUME NEW m \in Months, Certify(m)
      PROVE  PlanOfMonth'
  BY <1>22, PartFacts DEF Certify
<1>23. CASE UNCHANGED vars
  BY <1>23, PartFacts DEF vars
<1>24. CASE CalendarEmpty
  BY <1>24, PartFacts DEF CalendarEmpty
<1> QED
  BY <1>1, <1>2, <1>3, <1>4, <1>5, <1>6, <1>7, <1>8, <1>9, <1>10, <1>11, <1>12,
     <1>13, <1>14, <1>15, <1>16, <1>17, <1>18, <1>19, <1>20, <1>21, <1>22, <1>23, <1>24
  DEF Next, ContinueRun, ContinueBundle

(* Only a kill leaves a job half done.                                     *)
LEMMA KilledStep ==
    TypeOK /\ NoneKilled /\ [Next]_vars =>
        NoneKilled'
<1> SUFFICES ASSUME TypeOK, NoneKilled, [Next]_vars
             PROVE  NoneKilled'
  OBVIOUS
<1> USE DEF TypeOK, NoneKilled, catalog, calendars, bundling, papers, Trouble
<1>1. CASE FetchCalendar
  BY <1>1 DEF FetchCalendar
<1>2. CASE EndJobs
  BY <1>2 DEF EndJobs, AfterItems
<1>3. CASE BackUp
  BY <1>3 DEF BackUp
<1>4. CASE Traceback
  BY <1>4 DEF Traceback
<1>5. ASSUME NEW p \in Parts, JobSucceeds(p)
      PROVE  NoneKilled'
  BY <1>5 DEF JobSucceeds, Fetches
<1>6. CASE WriteBaseManifest
  BY <1>6 DEF WriteBaseManifest
<1>7. CASE WritePreview
  BY <1>7 DEF WritePreview
<1>8. CASE WriteManifest
  BY <1>8 DEF WriteManifest
<1>9. ASSUME NEW m \in Months, EmbedGate(m)
      PROVE  NoneKilled'
  BY <1>9 DEF EmbedGate
<1>10. CASE CalendarFails
  BY <1>10 DEF CalendarFails, AfterItems
<1>11. CASE RunDies
  BY <1>11 DEF RunDies, Fetches
<1>12. CASE BuilderDies
  BY <1>12 DEF BuilderDies
<1>13. CASE Damage
  BY <1>13 DEF Damage
<1>14. ASSUME NEW p \in Parts, JobFails(p)
      PROVE  NoneKilled'
  BY <1>14 DEF JobFails, Fetches
<1>15. CASE StartPilot
  BY <1>15 DEF StartPilot, MonthRun, Begin
<1>16. CASE BuildBundle
  BY <1>16 DEF BuildBundle
<1>17. CASE RenewBackup
  BY <1>17 DEF RenewBackup
<1>18. ASSUME NEW m \in Months, StartConfirmed(m)
      PROVE  NoneKilled'
  BY <1>18 DEF StartConfirmed, MonthRun, Begin
<1>19. ASSUME NEW m \in Months, StartRecommended(m)
      PROVE  NoneKilled'
  BY <1>19 DEF StartRecommended, MonthRun, Begin
<1>20. ASSUME NEW m \in Months, StartMissing(m)
      PROVE  NoneKilled'
  BY <1>20 DEF StartMissing, Begin
<1>21. ASSUME NEW m \in Months, WriteScript(m)
      PROVE  NoneKilled'
  BY <1>21 DEF WriteScript
<1>22. ASSUME NEW m \in Months, Certify(m)
      PROVE  NoneKilled'
  BY <1>22 DEF Certify
<1>23. CASE UNCHANGED vars
  BY <1>23 DEF vars
<1>24. CASE CalendarEmpty
  BY <1>24 DEF CalendarEmpty
<1> QED
  BY <1>1, <1>2, <1>3, <1>4, <1>5, <1>6, <1>7, <1>8, <1>9, <1>10, <1>11, <1>12,
     <1>13, <1>14, <1>15, <1>16, <1>17, <1>18, <1>19, <1>20, <1>21, <1>22, <1>23, <1>24
  DEF Next, ContinueRun, ContinueBundle

(* What is known and covered stays so, as long as the lake validates, and  *)
(* what had its turn had it.                                               *)
LEMMA CatalogGrows ==
    TypeOK /\ [Next]_vars =>
        /\ (sound' => sound /\ calendar \subseteq calendar') /\ (killed => killed')
        /\ \A x \in Parts :
              /\ cover[x] = "covered" => cover'[x] = "covered"
              /\ cover[x] # "missing" => cover'[x] # "missing"
<1> DEFINE Goal == /\ (sound' => sound /\ calendar \subseteq calendar') /\ (killed => killed')
                    /\ \A x \in Parts :
                          /\ cover[x] = "covered" => cover'[x] = "covered"
                          /\ cover[x] # "missing" => cover'[x] # "missing"
<1> SUFFICES ASSUME TypeOK, [Next]_vars
             PROVE  Goal
  OBVIOUS
<1> USE DEF TypeOK, catalog, calendars, bundling, papers, Trouble
<1>1. CASE FetchCalendar
  BY <1>1, CalendarStep DEF FetchCalendar, CalendarsKept
<1>2. CASE EndJobs
  BY <1>2 DEF EndJobs, AfterItems
<1>3. CASE BackUp
  BY <1>3 DEF BackUp
<1>4. CASE Traceback
  BY <1>4 DEF Traceback
<1>5. ASSUME NEW p \in Parts, JobSucceeds(p)
      PROVE  Goal
  BY <1>5 DEF JobSucceeds, Fetches, Overwrites
<1>6. CASE WriteBaseManifest
  BY <1>6 DEF WriteBaseManifest
<1>7. CASE WritePreview
  BY <1>7 DEF WritePreview
<1>8. CASE WriteManifest
  BY <1>8 DEF WriteManifest
<1>9. ASSUME NEW m \in Months, EmbedGate(m)
      PROVE  Goal
  BY <1>9 DEF EmbedGate
<1>10. CASE CalendarFails
  BY <1>10, CalendarStep DEF CalendarFails, CalendarsKept
<1>11. CASE RunDies
  <2>1. CalendarsKept /\ killed'
    BY <1>11, CalendarStep DEF RunDies
  <2>2. \/ UNCHANGED cover
        \/ \E p \in run.plan : Fetches(p) /\ cover' = [cover EXCEPT ![p] = "killed"]
    BY <1>11 DEF RunDies
  <2> QED
    BY <2>1, <2>2 DEF CalendarsKept, Fetches
<1>12. CASE BuilderDies
  BY <1>12 DEF BuilderDies
<1>13. CASE Damage
  BY <1>13 DEF Damage
<1>14. ASSUME NEW p \in Parts, JobFails(p)
      PROVE  Goal
  BY <1>14 DEF JobFails, Fetches, Overwrites
<1>15. CASE StartPilot
  BY <1>15 DEF StartPilot, MonthRun, Begin
<1>16. CASE BuildBundle
  BY <1>16 DEF BuildBundle
<1>17. CASE RenewBackup
  BY <1>17 DEF RenewBackup
<1>18. ASSUME NEW m \in Months, StartConfirmed(m)
      PROVE  Goal
  BY <1>18 DEF StartConfirmed, MonthRun, Begin
<1>19. ASSUME NEW m \in Months, StartRecommended(m)
      PROVE  Goal
  BY <1>19 DEF StartRecommended, MonthRun, Begin
<1>20. ASSUME NEW m \in Months, StartMissing(m)
      PROVE  Goal
  BY <1>20 DEF StartMissing, Begin
<1>21. ASSUME NEW m \in Months, WriteScript(m)
      PROVE  Goal
  BY <1>21 DEF WriteScript
<1>22. ASSUME NEW m \in Months, Certify(m)
      PROVE  Goal
  BY <1>22 DEF Certify
<1>23. CASE UNCHANGED vars
  BY <1>23 DEF vars
<1>24. CASE CalendarEmpty
  BY <1>24, CalendarStep DEF CalendarEmpty, CalendarsKept
<1> HIDE DEF Goal
<1> QED
  BY <1>1, <1>2, <1>3, <1>4, <1>5, <1>6, <1>7, <1>8, <1>9, <1>10, <1>11, <1>12,
     <1>13, <1>14, <1>15, <1>16, <1>17, <1>18, <1>19, <1>20, <1>21, <1>22, <1>23, <1>24
  DEF Next, ContinueRun, ContinueBundle

(* A month comes under way by the pilot, as the recommended one or through *)
(* the gate.                                                               *)
LEMMA NewlyUnderway ==
    TypeOK /\ PlanOfMonth /\ [Next]_vars =>
        \A x \in Months :
            Underway(x)' => Underway(x) \/ x = 1 \/ x = NextMonth \/ GateReady(x)
<1> DEFINE Goal == \A x \in Months :
                        Underway(x)' => Underway(x) \/ x = 1 \/ x = NextMonth \/ GateReady(x)
<1> SUFFICES ASSUME TypeOK, PlanOfMonth, [Next]_vars
             PROVE  Goal
  OBVIOUS
<1> USE DEF TypeOK, PlanOfMonth, catalog, calendars, bundling, papers, Trouble, Underway, Touched, Idle
<1>1. CASE FetchCalendar
  BY <1>1, CalendarStep, PartFacts DEF FetchCalendar, CalendarsKept
<1>2. CASE EndJobs
  BY <1>2, PartFacts DEF EndJobs, AfterItems
<1>3. CASE BackUp
  BY <1>3, PartFacts DEF BackUp
<1>4. CASE Traceback
  BY <1>4, PartFacts DEF Traceback
<1>5. ASSUME NEW p \in Parts, JobSucceeds(p)
      PROVE  Goal
  BY <1>5, PartFacts DEF JobSucceeds, Fetches
<1>6. CASE WriteBaseManifest
  BY <1>6, PartFacts DEF WriteBaseManifest
<1>7. CASE WritePreview
  BY <1>7, PartFacts DEF WritePreview
<1>8. CASE WriteManifest
  BY <1>8, PartFacts DEF WriteManifest
<1>9. ASSUME NEW m \in Months, EmbedGate(m)
      PROVE  Goal
  BY <1>9, PartFacts DEF EmbedGate
<1>10. CASE CalendarFails
  BY <1>10, CalendarStep, PartFacts DEF CalendarFails, CalendarsKept, AfterItems
<1>11. CASE RunDies
  <2>1. CASE UNCHANGED cover
    BY <1>11, <2>1, CalendarStep DEF RunDies, CalendarsKept
  <2>2. ASSUME NEW p \in run.plan, cover' = [cover EXCEPT ![p] = "killed"]
        PROVE  Goal
    <3>1. p \in PartsOf(run.month) /\ p \in Parts
      BY PartFacts
    <3>2. \A x \in Months : Touched(x)' => Touched(x) \/ x = run.month
      BY <1>11, <2>2, <3>1, CalendarStep, PartFacts DEF CalendarsKept
    <3> QED
      BY <1>11, <3>2 DEF RunDies
  <2> QED
    BY <1>11, <2>1, <2>2 DEF RunDies
<1>12. CASE BuilderDies
  BY <1>12, PartFacts DEF BuilderDies
<1>13. CASE Damage
  BY <1>13, PartFacts DEF Damage
<1>14. ASSUME NEW p \in Parts, JobFails(p)
      PROVE  Goal
  BY <1>14, PartFacts DEF JobFails, Fetches
<1>15. CASE StartPilot
  BY <1>15, PartFacts DEF StartPilot, MonthRun, Begin
<1>16. CASE BuildBundle
  BY <1>16, PartFacts DEF BuildBundle
<1>17. CASE RenewBackup
  BY <1>17, PartFacts DEF RenewBackup
<1>18. ASSUME NEW m \in Months, StartConfirmed(m)
      PROVE  Goal
  BY <1>18, PartFacts DEF StartConfirmed, MonthRun, Begin
<1>19. ASSUME NEW m \in Months, StartRecommended(m)
      PROVE  Goal
  BY <1>19, PartFacts DEF StartRecommended, MonthRun, Begin
<1>20. ASSUME NEW m \in Months, StartMissing(m)
      PROVE  Goal
  BY <1>20, PartFacts DEF StartMissing, Begin, CalendarCovered
<1>21. ASSUME NEW m \in Months, WriteScript(m)
      PROVE  Goal
  BY <1>21, PartFacts DEF WriteScript
<1>22. ASSUME NEW m \in Months, Certify(m)
      PROVE  Goal
  BY <1>22, PartFacts DEF Certify
<1>23. CASE UNCHANGED vars
  BY <1>23, PartFacts DEF vars
<1>24. CASE CalendarEmpty
  BY <1>24, CalendarStep, PartFacts DEF CalendarEmpty, CalendarsKept
<1> HIDE DEF Goal
<1> QED
  BY <1>1, <1>2, <1>3, <1>4, <1>5, <1>6, <1>7, <1>8, <1>9, <1>10, <1>11, <1>12,
     <1>13, <1>14, <1>15, <1>16, <1>17, <1>18, <1>19, <1>20, <1>21, <1>22, <1>23, <1>24
  DEF Next, ContinueRun, ContinueBundle

(* A certificate is of a complete month.                                   *)
LEMMA CertificateStep ==
    TypeOK /\ NoneKilled /\ [Next]_vars =>
                \A x \in certs' : x \in certs \/ (x \in Months /\ MatrixComplete(x))
<1> SUFFICES ASSUME TypeOK, NoneKilled, [Next]_vars
             PROVE          \A x \in certs' : x \in certs \/ (x \in Months /\ MatrixComplete(x))
  OBVIOUS
<1> USE DEF TypeOK, NoneKilled, catalog, calendars, bundling, papers, Trouble
<1>1. CASE FetchCalendar
  BY <1>1 DEF FetchCalendar
<1>2. CASE EndJobs
  BY <1>2 DEF EndJobs, AfterItems
<1>3. CASE BackUp
  BY <1>3 DEF BackUp
<1>4. CASE Traceback
  BY <1>4 DEF Traceback
<1>5. ASSUME NEW p \in Parts, JobSucceeds(p)
      PROVE          \A x \in certs' : x \in certs \/ (x \in Months /\ MatrixComplete(x))
  BY <1>5 DEF JobSucceeds, Fetches
<1>6. CASE WriteBaseManifest
  BY <1>6 DEF WriteBaseManifest
<1>7. CASE WritePreview
  BY <1>7 DEF WritePreview
<1>8. CASE WriteManifest
  BY <1>8 DEF WriteManifest
<1>9. ASSUME NEW m \in Months, EmbedGate(m)
      PROVE          \A x \in certs' : x \in certs \/ (x \in Months /\ MatrixComplete(x))
  BY <1>9 DEF EmbedGate
<1>10. CASE CalendarFails
  BY <1>10 DEF CalendarFails, AfterItems
<1>11. CASE RunDies
  BY <1>11 DEF RunDies, Fetches
<1>12. CASE BuilderDies
  BY <1>12 DEF BuilderDies
<1>13. CASE Damage
  BY <1>13 DEF Damage
<1>14. ASSUME NEW p \in Parts, JobFails(p)
      PROVE          \A x \in certs' : x \in certs \/ (x \in Months /\ MatrixComplete(x))
  BY <1>14 DEF JobFails, Fetches
<1>15. CASE StartPilot
  BY <1>15 DEF StartPilot, MonthRun, Begin
<1>16. CASE BuildBundle
  BY <1>16 DEF BuildBundle
<1>17. CASE RenewBackup
  BY <1>17 DEF RenewBackup
<1>18. ASSUME NEW m \in Months, StartConfirmed(m)
      PROVE          \A x \in certs' : x \in certs \/ (x \in Months /\ MatrixComplete(x))
  BY <1>18 DEF StartConfirmed, MonthRun, Begin
<1>19. ASSUME NEW m \in Months, StartRecommended(m)
      PROVE          \A x \in certs' : x \in certs \/ (x \in Months /\ MatrixComplete(x))
  BY <1>19 DEF StartRecommended, MonthRun, Begin
<1>20. ASSUME NEW m \in Months, StartMissing(m)
      PROVE          \A x \in certs' : x \in certs \/ (x \in Months /\ MatrixComplete(x))
  BY <1>20 DEF StartMissing, Begin
<1>21. ASSUME NEW m \in Months, WriteScript(m)
      PROVE          \A x \in certs' : x \in certs \/ (x \in Months /\ MatrixComplete(x))
  BY <1>21 DEF WriteScript
<1>22. ASSUME NEW m \in Months, Certify(m)
      PROVE          \A x \in certs' : x \in certs \/ (x \in Months /\ MatrixComplete(x))
  BY <1>22 DEF Certify
<1>23. CASE UNCHANGED vars
  BY <1>23 DEF vars
<1>24. CASE CalendarEmpty
  BY <1>24 DEF CalendarEmpty
<1> QED
  BY <1>1, <1>2, <1>3, <1>4, <1>5, <1>6, <1>7, <1>8, <1>9, <1>10, <1>11, <1>12,
     <1>13, <1>14, <1>15, <1>16, <1>17, <1>18, <1>19, <1>20, <1>21, <1>22, <1>23, <1>24
  DEF Next, ContinueRun, ContinueBundle

(* The gate blocks while its own report is missing.                        *)
LEMMA EmbeddedStep ==
    TypeOK /\ EmbeddedGateBlocked /\ [Next]_vars =>
        EmbeddedGateBlocked'
<1> SUFFICES ASSUME TypeOK, EmbeddedGateBlocked, [Next]_vars
             PROVE  EmbeddedGateBlocked'
  OBVIOUS
<1> USE DEF TypeOK, EmbeddedGateBlocked, catalog, calendars, bundling, papers, Trouble
<1>1. CASE FetchCalendar
  BY <1>1 DEF FetchCalendar
<1>2. CASE EndJobs
  BY <1>2 DEF EndJobs, AfterItems
<1>3. CASE BackUp
  BY <1>3 DEF BackUp
<1>4. CASE Traceback
  BY <1>4 DEF Traceback
<1>5. ASSUME NEW p \in Parts, JobSucceeds(p)
      PROVE  EmbeddedGateBlocked'
  BY <1>5 DEF JobSucceeds, Fetches
<1>6. CASE WriteBaseManifest
  BY <1>6 DEF WriteBaseManifest
<1>7. CASE WritePreview
  BY <1>7 DEF WritePreview
<1>8. CASE WriteManifest
  BY <1>8 DEF WriteManifest
<1>9. ASSUME NEW m \in Months, EmbedGate(m)
      PROVE  EmbeddedGateBlocked'
  BY <1>9 DEF EmbedGate, GateReady, Verified
<1>10. CASE CalendarFails
  BY <1>10 DEF CalendarFails, AfterItems
<1>11. CASE RunDies
  BY <1>11 DEF RunDies, Fetches
<1>12. CASE BuilderDies
  BY <1>12 DEF BuilderDies
<1>13. CASE Damage
  BY <1>13 DEF Damage
<1>14. ASSUME NEW p \in Parts, JobFails(p)
      PROVE  EmbeddedGateBlocked'
  BY <1>14 DEF JobFails, Fetches
<1>15. CASE StartPilot
  BY <1>15 DEF StartPilot, MonthRun, Begin
<1>16. CASE BuildBundle
  BY <1>16 DEF BuildBundle
<1>17. CASE RenewBackup
  BY <1>17 DEF RenewBackup
<1>18. ASSUME NEW m \in Months, StartConfirmed(m)
      PROVE  EmbeddedGateBlocked'
  BY <1>18 DEF StartConfirmed, MonthRun, Begin
<1>19. ASSUME NEW m \in Months, StartRecommended(m)
      PROVE  EmbeddedGateBlocked'
  BY <1>19 DEF StartRecommended, MonthRun, Begin
<1>20. ASSUME NEW m \in Months, StartMissing(m)
      PROVE  EmbeddedGateBlocked'
  BY <1>20 DEF StartMissing, Begin
<1>21. ASSUME NEW m \in Months, WriteScript(m)
      PROVE  EmbeddedGateBlocked'
  BY <1>21 DEF WriteScript
<1>22. ASSUME NEW m \in Months, Certify(m)
      PROVE  EmbeddedGateBlocked'
  BY <1>22 DEF Certify
<1>23. CASE UNCHANGED vars
  BY <1>23 DEF vars
<1>24. CASE CalendarEmpty
  BY <1>24 DEF CalendarEmpty
<1> QED
  BY <1>1, <1>2, <1>3, <1>4, <1>5, <1>6, <1>7, <1>8, <1>9, <1>10, <1>11, <1>12,
     <1>13, <1>14, <1>15, <1>16, <1>17, <1>18, <1>19, <1>20, <1>21, <1>22, <1>23, <1>24
  DEF Next, ContinueRun, ContinueBundle

(* The types, with that of the run by its name.                            *)
Typed ==
    /\ calendar \subseteq Months /\ hollow \subseteq Months /\ redo \subseteq Months
    /\ cover \in [Parts -> Statuses]
    /\ dirty \in BOOLEAN /\ sound \in BOOLEAN
    /\ backup \in {"none", "good", "damaged"}
    /\ bundle \in Stages /\ building \in BOOLEAN
    /\ embedded \in {"none", "ready", "blocked"}
    /\ scripts \subseteq Months /\ certs \subseteq Months
    /\ run \in Runs
    /\ killed \in BOOLEAN
    /\ trouble \in 0..MaxTrouble

(* Every variable keeps its type.                                          *)
LEMMA TypedStep ==
    TypeOK /\ [Next]_vars =>
        Typed'
<1> SUFFICES ASSUME TypeOK, [Next]_vars
             PROVE  Typed'
  OBVIOUS
<1>0. Typed
  BY DEF TypeOK, Runs, Typed
<1> USE <1>0 DEF catalog, calendars, bundling, papers, Stages, Statuses, Typed
<1>1. CASE FetchCalendar
  <2>1. run' \in Runs
    <3>1. run' \in {[run EXCEPT !.step = "jobs"], [run EXCEPT !.step = "jobs", !.plan = {}]}
      <4>1. CASE run.month \in calendar'
        BY <1>1, <4>1, RunFacts DEF FetchCalendar, Runs
      <4>2. CASE run.month \notin calendar'
        BY <1>1, <4>2 DEF FetchCalendar
      <4> QED
        BY <4>1, <4>2
    <3> QED
      BY <3>1, RunFacts DEF Steps
  <2> QED
    BY <1>1, <2>1, CalendarStep DEF FetchCalendar, CalendarsKept
<1>2. CASE EndJobs
  <2>1. run' \in Runs
    BY <1>2, RunFacts DEF EndJobs, Steps
  <2> QED
    BY <1>2, <2>1 DEF EndJobs
<1>3. CASE BackUp
  <2>1. run' \in Runs
    BY <1>3, RunFacts DEF BackUp, Steps
  <2> QED
    BY <1>3, <2>1 DEF BackUp
<1>4. CASE Traceback
  <2>1. run' \in Runs
    BY <1>4, RunFacts DEF Traceback, Steps
  <2> QED
    BY <1>4, <2>1 DEF Traceback
<1>5. ASSUME NEW p \in Parts, JobSucceeds(p)
      PROVE  Typed'
  <2>1. run' \in Runs
    BY <1>5, RunFacts DEF JobSucceeds, Steps
  <2> QED
    BY <1>5, <2>1 DEF JobSucceeds, Overwrites
<1>6. CASE WriteBaseManifest
  BY <1>6, TroubleType DEF WriteBaseManifest
<1>7. CASE WritePreview
  BY <1>7, TroubleType DEF WritePreview
<1>8. CASE WriteManifest
  BY <1>8, TroubleType DEF WriteManifest
<1>9. ASSUME NEW m \in Months, EmbedGate(m)
      PROVE  Typed'
  BY <1>9, TroubleType DEF EmbedGate
<1>10. CASE CalendarFails
  <2>1. run' \in Runs
    BY <1>10, RunFacts DEF CalendarFails, Steps
  <2> QED
    BY <1>10, <2>1, TroubleType, CalendarStep DEF CalendarFails, CalendarsKept
<1>11. CASE RunDies
  <2>1. run' \in Runs
    BY <1>11, RunFacts DEF RunDies, Fetches, Steps
  <2>2. cover' \in [Parts -> Statuses]
    <3>1. UNCHANGED cover \/ \E p \in run.plan : cover' = [cover EXCEPT ![p] = "killed"]
      BY <1>11 DEF RunDies
    <3> QED
      BY <3>1
  <2> QED
    BY <1>11, <2>1, <2>2, TroubleType, CalendarStep DEF RunDies, CalendarsKept
<1>12. CASE BuilderDies
  BY <1>12, TroubleType DEF BuilderDies
<1>13. CASE Damage
  BY <1>13, TroubleType DEF Damage
<1>14. ASSUME NEW p \in Parts, JobFails(p)
      PROVE  Typed'
  <2>1. run' \in Runs
    BY <1>14, RunFacts DEF JobFails, Steps
  <2> QED
    BY <1>14, <2>1, TroubleType DEF JobFails, Overwrites
<1>15. CASE StartPilot
  <2>1. run' \in Runs
    BY <1>15, PartFacts, MonthsAssumption DEF StartPilot, MonthRun, Begin, Runs, Steps, Months
  <2> QED
    BY <1>15, <2>1 DEF StartPilot, MonthRun, Begin
<1>16. CASE BuildBundle
  BY <1>16, TroubleType DEF BuildBundle
<1>17. CASE RenewBackup
  BY <1>17, TroubleType DEF RenewBackup
<1>18. ASSUME NEW m \in Months, StartConfirmed(m)
      PROVE  Typed'
  <2>1. run' \in Runs
    BY <1>18, PartFacts DEF StartConfirmed, MonthRun, Begin, Runs, Steps
  <2> QED
    BY <1>18, <2>1 DEF StartConfirmed, MonthRun, Begin
<1>19. ASSUME NEW m \in Months, StartRecommended(m)
      PROVE  Typed'
  <2>1. run' \in Runs
    BY <1>19, PartFacts DEF StartRecommended, MonthRun, Begin, Runs, Steps
  <2> QED
    BY <1>19, <2>1 DEF StartRecommended, MonthRun, Begin
<1>20. ASSUME NEW m \in Months, StartMissing(m)
      PROVE  Typed'
  <2>1. run' \in Runs
    BY <1>20, PartFacts DEF StartMissing, Begin, Runs, Steps
  <2> QED
    BY <1>20, <2>1 DEF StartMissing, Begin
<1>21. ASSUME NEW m \in Months, WriteScript(m)
      PROVE  Typed'
  BY <1>21, TroubleType DEF WriteScript
<1>22. ASSUME NEW m \in Months, Certify(m)
      PROVE  Typed'
  BY <1>22, TroubleType DEF Certify
<1>23. CASE UNCHANGED vars
  BY <1>23, TroubleType DEF vars
<1>24. CASE CalendarEmpty
  <2>1. run' \in Runs
    BY <1>24, RunFacts DEF CalendarEmpty
  <2> QED
    BY <1>24, <2>1, TroubleType, CalendarStep DEF CalendarEmpty, CalendarsKept
<1> QED
  BY <1>1, <1>2, <1>3, <1>4, <1>5, <1>6, <1>7, <1>8, <1>9, <1>10, <1>11, <1>12,
     <1>13, <1>14, <1>15, <1>16, <1>17, <1>18, <1>19, <1>20, <1>21, <1>22, <1>23, <1>24
  DEF Next, ContinueRun, ContinueBundle

-----------------------------------------------------------------------------
(* The steps of the order *)

(* Whatever comes under way next, the months before it had their turn.     *)
LEMMA EarlierReachedStep ==
    TypeOK /\ PlanOfMonth /\ EarlierReached /\ [Next]_vars => EarlierReached'
<1> SUFFICES ASSUME TypeOK, PlanOfMonth, EarlierReached, [Next]_vars,
                    NEW m \in Months, Underway(m)', NEW k \in 1..(m - 1)
             PROVE  Reached(k)'
  BY DEF EarlierReached
<1>1. k \in Months /\ m \in Nat /\ k \in Nat /\ k < m
  BY MonthsAssumption DEF Months
<1>2. Reached(k)
  <2>1. CASE Underway(m)
    BY <2>1 DEF EarlierReached
  <2>2. CASE m = 1
    BY <1>1, <2>2
  <2>3. CASE m = NextMonth
    <3>1. MonthComplete(k)
      BY <2>3, NextMonthIsFirst
    <3> QED
      BY <3>1 DEF MonthComplete, CalendarCovered, Reached
  <2>4. CASE GateReady(m)
    <3>1. m - 1 \in Months /\ Reached(m - 1) /\ Underway(m - 1)
      BY <2>4, GateLooksBack DEF Underway
    <3>2. k = m - 1 \/ k \in 1..((m - 1) - 1)
      BY <1>1
    <3> QED
      BY <3>1, <3>2 DEF EarlierReached
  <2> QED
    BY <2>1, <2>2, <2>3, <2>4, NewlyUnderway
<1> QED
  BY <1>1, <1>2, CatalogGrows, PartFacts DEF Reached

(* A complete month stays complete while the lake validates.               *)
LEMMA CompleteStays ==
    ASSUME TypeOK, [Next]_vars, sound', NEW m \in Months, MonthComplete(m)
    PROVE  MonthComplete(m)'
BY CatalogGrows, PartFacts DEF MonthComplete, CalendarCovered

(* Unless a run was killed, the months before it are complete.             *)
LEMMA EarlierCompleteStep ==
    TypeOK /\ PlanOfMonth /\ NoneKilled /\ EarlierComplete /\ [Next]_vars => EarlierComplete'
<1> SUFFICES ASSUME TypeOK, PlanOfMonth, NoneKilled, EarlierComplete, [Next]_vars,
                    ~killed', sound',
                    NEW m \in Months, Underway(m)', NEW k \in 1..(m - 1)
             PROVE  MonthComplete(k)'
  BY DEF EarlierComplete
<1>1. k \in Months /\ m \in Nat /\ k \in Nat /\ k < m /\ ~killed /\ sound
  BY MonthsAssumption, CatalogGrows DEF Months
<1>2. MonthComplete(k)
  <2>1. CASE Underway(m)
    BY <1>1, <2>1 DEF EarlierComplete
  <2>2. CASE m = 1
    BY <1>1, <2>2
  <2>3. CASE m = NextMonth
    BY <2>3, NextMonthIsFirst
  <2>4. CASE GateReady(m)
    <3>1. m - 1 \in Months /\ MatrixComplete(m - 1) /\ Underway(m - 1)
      BY <2>4, GateLooksBack DEF Underway
    <3>2. MonthComplete(m - 1)
      BY <1>1, <3>1, MatrixIsComplete
    <3>3. k = m - 1 \/ k \in 1..((m - 1) - 1)
      BY <1>1
    <3> QED
      BY <1>1, <3>1, <3>2, <3>3 DEF EarlierComplete
  <2> QED
    BY <2>1, <2>2, <2>3, <2>4, NewlyUnderway
<1> QED
  BY <1>1, <1>2, CompleteStays

(* A certificate of a complete month stays true while the lake validates.  *)
LEMMA CertificateStaysStep ==
    TypeOK /\ NoneKilled /\ CertificateStaysTrue /\ [Next]_vars => CertificateStaysTrue'
<1> SUFFICES ASSUME TypeOK, NoneKilled, CertificateStaysTrue, [Next]_vars,
                    ~killed', sound',
                    NEW m \in certs'
             PROVE  MonthComplete(m)'
  BY DEF CertificateStaysTrue
<1>1. ~killed /\ sound
  BY CatalogGrows
<1>2. m \in Months /\ MonthComplete(m)
  BY <1>1, CertificateStep, MatrixIsComplete DEF CertificateStaysTrue, TypeOK
<1> QED
  BY <1>2, CompleteStays

-----------------------------------------------------------------------------
(* The theorems *)

(* The inductive invariant: of every month that a run has touched or may   *)
(* still be started on, all earlier months had their turn.                 *)
THEOREM WorkInvariant == Spec => []WorkInv
<1>1. Init => WorkInv
  <2> SUFFICES ASSUME Init
               PROVE  WorkInv
    OBVIOUS
  <2> USE DEF Init
  <2>1. Idle \in Runs /\ 1 \in Months
    BY MonthsAssumption DEF Idle, Runs, Steps, Months
  <2>2. TypeOK
    <3>1. cover \in [Parts -> Statuses]
      BY DEF Statuses
    <3>2. bundle \in Stages /\ trouble \in 0..MaxTrouble
      BY TroubleAssumption DEF Stages
    <3> QED
      BY <2>1, <3>1, <3>2 DEF TypeOK, Runs
  <2>3. PlanOfMonth /\ NoneKilled /\ EmbeddedGateBlocked /\ CertificateStaysTrue
    BY DEF PlanOfMonth, NoneKilled, EmbeddedGateBlocked, CertificateStaysTrue, Idle
  <2>4. \A m \in Months : Underway(m) => m = 1
    BY PartFacts DEF Underway, Touched, Idle
  <2>5. EarlierReached /\ EarlierComplete
    BY <2>4 DEF EarlierReached, EarlierComplete
  <2> QED
    BY <2>2, <2>3, <2>5 DEF WorkInv
<1>2. WorkInv /\ [Next]_vars => WorkInv'
  <2>1. Typed' => TypeOK'
    BY DEF TypeOK, Typed, Runs
  <2> QED
    BY <2>1, TypedStep, PlanStep, KilledStep, EarlierReachedStep, EarlierCompleteStep,
       CertificateStaysStep, EmbeddedStep DEF WorkInv
<1> QED
  BY <1>1, <1>2, PTL DEF Spec

(* Every variable keeps its type.                                          *)
THEOREM WorkflowTypeCorrect == Spec => []TypeOK
<1>1. WorkInv => TypeOK
  BY DEF WorkInv
<1> QED
  BY <1>1, WorkInvariant, PTL

(* Months are done in order, whatever scripts are lying about and whatever *)
(* failed or was killed.                                                   *)
THEOREM MonthsInOrder == Spec => []InOrder
<1>1. WorkInv => InOrder
  BY DEF WorkInv, EarlierReached, Underway, Reached, InOrder
<1> QED
  BY <1>1, WorkInvariant, PTL

(* The gate, which looks back one month, lets no month pass that is beyond *)
(* the one mirror-next-batch recommends, unless a run was killed.          *)
THEOREM GateNotAhead == Spec => []GateWithinNextBatch
<1>1. WorkInv => GateWithinNextBatch
  <2> SUFFICES ASSUME WorkInv, ~killed, NEW m \in Months, GateReady(m), ~(m <= NextMonth)
               PROVE  FALSE
    BY DEF GateWithinNextBatch
  <2> USE DEF WorkInv
  <2>1. m - 1 \in Months /\ MatrixComplete(m - 1) /\ Underway(m - 1)
    BY GateLooksBack DEF Underway
  <2>2. MonthComplete(m - 1)
    BY <2>1, MatrixIsComplete
  <2>3. \A k \in 1..((m - 1) - 1) : MonthComplete(k)
    BY <2>1 DEF EarlierComplete, GateReady, Rehearsed, ReviewClear
  <2>4. NextMonth \in 1..(LastMonth + 1) /\ NextMonth < m /\ m \in 1..LastMonth
    BY NextMonthIsFirst, MonthsAssumption DEF Months
  <2>5. ~MonthComplete(NextMonth)
    BY <2>4, NextMonthIsFirst, MonthsAssumption
  <2>6. NextMonth = m - 1 \/ NextMonth \in 1..((m - 1) - 1)
    BY <2>4, MonthsAssumption
  <2> QED
    BY <2>2, <2>3, <2>5, <2>6
<1> QED
  BY <1>1, WorkInvariant, PTL

(* A certificate stays true whatever is run later, unless a run was killed *)
(* or the latest snapshots have ceased to validate.                        *)
THEOREM CertificatesStayTrue == Spec => []CertificateStaysTrue
<1>1. WorkInv => CertificateStaysTrue
  BY DEF WorkInv
<1> QED
  BY <1>1, WorkInvariant, PTL

(* The gate report inside a bundle never says that a month may be run.     *)
THEOREM BundledGateBlocks == Spec => []EmbeddedGateBlocked
<1>1. WorkInv => EmbeddedGateBlocked
  BY DEF WorkInv
<1> QED
  BY <1>1, WorkInvariant, PTL
=============================================================================
