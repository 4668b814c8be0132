-------------------------- MODULE MirrorRunProofs ---------------------------
(***************************************************************************)
(* The safety of mirror runs and of the window loop around them, for any   *)
(* calendar, endpoints, windows, caps, attempts and troubles.              *)
(***************************************************************************)
EXTENDS MirrorRun, FiniteSetTheorems, WellFoundedInduction, TLAPS

-----------------------------------------------------------------------------
(* The inductive invariant, in parts *)

Dated == Dailies \union Periodics

(* A run works on the endpoints of its scope.                              *)
InRun == pc \in {"items", "jobs"} /\ caller # "missing"

(* A call starts without problems, and has a caller until its end.         *)
CallShape ==
    /\ pc \in {"idle", "probe"} => problems = {}
    /\ pc \in {"probe", "items", "check"} => caller # "missing"
    /\ pc = "check" => pending = {}
    /\ pc = "idle" => announced = {}
    /\ caller \in {"sync", "smoke"} => announced = {}
    /\ caller = "missing" => announced = {}

(* Until the calendar had its turn no other endpoint had one.              *)
CalendarFirst ==
    InRun =>
        /\ pending \subseteq ScopeEndpoints
        /\ Cal \in pending => pending = ScopeEndpoints

(* A backfill has jobs left, of open days for a daily endpoint, and in a   *)
(* run it has its turn.                                                    *)
JobsShape ==
    pc = "jobs" =>
        /\ api \in Dated /\ plan # {}
        /\ api \in Dailies => plan \subseteq OpenDays
        /\ caller # "missing" => api \in pending /\ Cal \notin pending

(* The window loop runs the window that comes next, no longer than the cap *)
(* on the jobs of an endpoint.                                             *)
SyncWindow == caller = "sync" => win[1] = next /\ Cardinality(Span(win)) <= cap

HasItem(e) == \E i \in problems : i.endpoint = e

(* An endpoint without a problem has data of all dates that were planned,  *)
(* or of those that its backfill is through with.                          *)
ItemsDone ==
    InRun \/ pc = "check" =>
        \A e \in Dated \intersect ScopeEndpoints :
            e \notin pending /\ ~HasItem(e) =>
                \A d \in PlannedDates(e) : DateJob(e, d) \in active

JobsDone ==
    pc = "jobs" /\ caller # "missing" /\ ~HasItem(api) =>
        \A d \in PlannedDates(api) \ plan : DateJob(api, d) \in active

(* An endpoint is blocked by its probe, or by the calendar that this run   *)
(* could not fetch or never had.                                           *)
BlockedWhy ==
    \A i \in problems : i.status = "blocked" =>
        \/ Refused(i.endpoint)
        \/ Cal \notin pending /\ (CalendarFailed \/ ~HasCalendar)

(* What was announced is among the dates the run plans itself, unless a    *)
(* calendar that was listed has been overwritten since.                    *)
AnnouncedPlanned ==
    announced # {} /\ Valid =>
        /\ Cardinality(Span(win)) <= cap
        /\ \A j \in announced : \E e \in Dailies, d \in TradingDays(win) : j = DateJob(e, d)

(* Without a kill no job is left half done.                                *)
RowsClean ==
    ~killed =>
        /\ staged = {}
        /\ \A j \in DateJobs : row[j] \in {"none", "failed"} \/ j \in active

RunInv ==
    /\ TypeOK /\ CallShape /\ CalendarFirst /\ JobsShape /\ SyncWindow
    /\ ItemsDone /\ JobsDone /\ BlockedWhy /\ AnnouncedPlanned /\ RowsClean
    /\ CheckpointComplete /\ SettledPeriodsKept /\ OpenDaysOnly

-----------------------------------------------------------------------------
(* The operators a run is built from *)

(* A set of numbers has a least one.                                       *)
LEMMA LeastNumber ==
    ASSUME NEW S, S \subseteq Nat, S # {}
    PROVE  \E n \in S : \A k \in S : n <= k
<1> DEFINE R == OpToRel(<, Nat)
<1>1. IsWellFoundedOn(R, Nat)
  BY NatLessThanWellFounded, Zenon
<1>2. R = {p \in Nat \X Nat : p[1] < p[2]}
  BY Zenon DEF OpToRel
<1> HIDE DEF R
<1>3. PICK n \in S : \A k \in S : <<k, n>> \notin R
  BY <1>1, WFMin
<1>4. ASSUME NEW k \in S
      PROVE  n <= k
  <2>1. n \in Nat /\ k \in Nat
    OBVIOUS
  <2>2. <<k, n>> \notin {p \in Nat \X Nat : p[1] < p[2]}
    BY <1>2, <1>3
  <2> QED
    BY <2>1, <2>2
<1> QED
  BY <1>4

(* The next job of a backfill is one of its jobs.                          *)
LEMMA DayInPlan == plan \subseteq Days /\ plan # {} => Day \in plan
<1> SUFFICES ASSUME plan \subseteq Days, plan # {}
             PROVE  Day \in plan
  OBVIOUS
<1>1. plan \subseteq Nat
  BY DaysAssumption DEF Days
<1>2. \E d \in plan : \A x \in plan : d <= x
  BY <1>1, LeastNumber
<1> QED
  BY <1>2 DEF Day

(* Dates are cut only when there are more of them than jobs.               *)
LEMMA CutAll ==
    ASSUME NEW w \in Windows, NEW n \in Nat, NEW days \in SUBSET Span(w),
           Cardinality(Span(w)) <= n
    PROVE  Cut(days, n) = days
<1>1. IsFiniteSet(Span(w)) /\ Cardinality(Span(w)) \in Nat
  <2>1. w[1] \in Int /\ w[2] \in Int
    BY DaysAssumption DEF Windows, Days
  <2> QED
    BY <2>1, FS_Interval, FS_CardinalityType DEF Span
<1>2. ASSUME NEW d \in days
      PROVE  Cardinality({x \in days : x < d}) < n
  <2> DEFINE T == {x \in days : x < d}
  <2>1. T \in SUBSET Span(w)
    OBVIOUS
  <2>2. d \in Span(w) /\ d \in Int
    BY DaysAssumption DEF Windows, Days, Span
  <2>3. d \notin T
    BY <2>2
  <2> HIDE DEF T
  <2>4. IsFiniteSet(T) /\ Cardinality(T) <= Cardinality(Span(w))
        /\ (Cardinality(Span(w)) = Cardinality(T) => Span(w) = T)
    BY <1>1, <2>1, FS_Subset
  <2>5. Cardinality(T) \in Nat
    BY <2>4, FS_CardinalityType
  <2>6. Cardinality(T) < n
    BY <1>1, <2>2, <2>3, <2>4, <2>5
  <2> QED
    BY <2>6 DEF T
<1> QED
  BY <1>2 DEF Cut

(* The n days from a day on, up to the last day of the call.               *)
LEMMA WindowIsWindow ==
    ASSUME NEW d \in Days, NEW n \in Nat \ {0}
    PROVE  /\ WindowFrom(d, n) \in Windows
           /\ WindowFrom(d, n)[1] = d
           /\ Cardinality(Span(WindowFrom(d, n))) \in 1..n
<1> DEFINE w == WindowFrom(d, n)
<1>1. w \in Windows /\ w[1] = d
  BY DaysAssumption DEF WindowFrom, Windows, Days
<1>2. w[1] \in Int /\ w[2] \in Int /\ w[1] <= w[2] /\ w[2] <= d + n - 1
  BY DaysAssumption DEF WindowFrom, Days
<1> HIDE DEF w
<1>3. Cardinality(Span(w)) = w[2] - w[1] + 1
  BY <1>2, FS_Interval DEF Span
<1>4. Cardinality(Span(w)) \in 1..n
  BY <1>1, <1>2, <1>3 DEF Days
<1> QED
  BY <1>1, <1>4 DEF w

(* A window has at least one day.                                          *)
LEMMA SpanSize ==
    ASSUME NEW w \in Windows
    PROVE  Cardinality(Span(w)) \in Nat \ {0}
<1>1. w[1] \in Int /\ w[2] \in Int /\ w[1] <= w[2]
  BY DaysAssumption DEF Windows, Days
<1>2. Cardinality(Span(w)) = w[2] - w[1] + 1
  BY <1>1, FS_Interval DEF Span
<1> QED
  BY <1>1, <1>2

(* What a run plans changes with the calendar's jobs only.                 *)
LEMMA CalendarStable ==
    ASSUME hollow' = hollow,
           \A w \in Windows : CalendarJob(w) \in active' \union half'
                               <=> CalendarJob(w) \in active \union half
    PROVE  KnownDays' = KnownDays /\ (HasCalendar' <=> HasCalendar)
<1>1. \A w \in Windows : /\ CalendarJob(w) \in Listed' <=> CalendarJob(w) \in Listed
                         /\ CalendarJob(w)' = CalendarJob(w)
  BY DEF Listed, CalendarJob
<1> QED
  BY <1>1 DEF KnownDays, HasCalendar, Windows, Days, Span

(* A fetch of anything but the calendar leaves the calendar as it is.      *)
LEMMA OtherFetch ==
    ASSUME TypeOK, NEW j, \A w \in Windows : j # CalendarJob(w),
           \/ FetchSucceeds(j) /\ hollow' \in {hollow, hollow \ {j}}
           \/ \E far, q : FetchFails(j, far, q)
    PROVE  KnownDays' = KnownDays /\ (HasCalendar' <=> HasCalendar)
<1>1. hollow' = hollow
  <2>1. j \notin hollow
    BY DEF TypeOK
  <2> QED
    BY <2>1 DEF FetchFails, MayBeHollow
<1>2. \A k : k # j => (k \in active' \union half' <=> k \in active \union half)
  BY DEF FetchSucceeds, FetchFails, Reaches
<1> QED
  BY <1>1, <1>2, CalendarStable

(* As long as no listed file is overwritten, the calendar only learns.     *)
LEMMA FetchTeaches ==
    ASSUME NEW j, j \notin active, ~spoiled',
           \/ FetchSucceeds(j) /\ hollow' \in {hollow, hollow \ {j}, hollow \union {j}}
           \/ \E far, q : FetchFails(j, far, q)
           \/ \E far : Reaches(j, far) /\ MayBeHollow(j, far) /\ active' = active
    PROVE  KnownDays \subseteq KnownDays'
<1>1. Listed \subseteq Listed'
  BY DEF FetchSucceeds, FetchFails, Reaches, Listed
<1>2. \A k \in hollow' \ hollow : k \notin Listed
  BY DEF FetchSucceeds, FetchFails, Reaches, MayBeHollow, Listed
<1>3. \A w \in Windows : CalendarJob(w) \in Listed \ hollow => CalendarJob(w)' \in Listed' \ hollow'
  BY <1>1, <1>2 DEF CalendarJob
<1> QED
  BY <1>3 DEF KnownDays, Windows, Days, Span

(* The job of a date is a date's job and never the calendar's, and another *)
(* endpoint or date has another.                                           *)
LEMMA DateJobFacts ==
    ASSUME NEW e \in Dated, NEW d \in Days
    PROVE  /\ DateJob(e, d) \in DateJobs
           /\ \A w \in Windows : DateJob(e, d) # CalendarJob(w)
           /\ \A f \in Refs : DateJob(e, d) # ReferenceJob(f)
           /\ \A f, c : DateJob(e, d) = DateJob(f, c) <=> e = f /\ d = c
BY EndpointsAssumption
   DEF Dated, DateJob, DateJobs, CalendarJob, ReferenceJob, Periodics, Windows

(* Neither is the job of a reference.                                      *)
LEMMA ReferenceJobFacts ==
    ASSUME NEW e \in Refs
    PROVE  /\ ReferenceJob(e) \in Jobs
           /\ \A w \in Windows : ReferenceJob(e) # CalendarJob(w)
BY EndpointsAssumption DEF Jobs, CalendarJob, ReferenceJob, Windows

(* The dates planned for a window are days of it.                          *)
LEMMA DatesAreDays ==
    ASSUME NEW e, NEW w \in Windows
    PROVE  /\ TradingDays(w) \subseteq Days \intersect OpenDays
           /\ PeriodDates(e, w) \subseteq Span(w)
           /\ Span(w) \subseteq Days
<1>1. Span(w) \subseteq Days
  BY DaysAssumption DEF Span, Windows, Days
<1>2. PeriodDates(e, w) \subseteq Span(w)
  BY DEF PeriodDates, CalendarPeriodDates, NaturalPeriodDates, LastIn
<1> QED
  BY <1>1, <1>2 DEF TradingDays, KnownOpen

(* The dates of a backfill are days.                                       *)
LEMMA PlannedAreDays ==
    ASSUME NEW e \in Dated, TypeOK
    PROVE  /\ PlannedDates(e) \subseteq Days
           /\ e \in Dailies => PlannedDates(e) \subseteq OpenDays
<1>1. win \in Windows
  BY DEF TypeOK
<1>2. DatesOf(e, win) \subseteq Days /\ (e \in Dailies => DatesOf(e, win) \subseteq OpenDays)
  BY <1>1, DatesAreDays, DaysAssumption DEF DatesOf, Days
<1> QED
  BY <1>2 DEF PlannedDates, Cut

(* The plan of a run is fixed as long as its window and the calendar are.  *)
LEMMA PlanStable ==
    ASSUME KnownDays' = KnownDays, caller' = caller, win' = win, cap' = cap
    PROVE  /\ \A e : PlannedDates(e)' = PlannedDates(e)
           /\ TradingDays(win)' = TradingDays(win)
<1> USE DEF KnownOpen
<1>1. KnownOpen' = KnownOpen
  OBVIOUS
<1>2. TradingDays(win)' = TradingDays(win)
  BY <1>1 DEF TradingDays
<1>3. ASSUME NEW e
      PROVE  PlannedDates(e)' = PlannedDates(e)
  <2>1. PeriodDates(e, win)' = PeriodDates(e, win)
    BY <1>1 DEF PeriodDates, CalendarPeriodDates
  <2>2. DatesOf(e, win)' = DatesOf(e, win)
    BY <1>2, <2>1 DEF DatesOf
  <2> QED
    BY <2>2 DEF PlannedDates
<1> QED
  BY <1>2, <1>3

(* The job at hand of a backfill, of an open day for a daily endpoint.     *)
LEMMA JobFacts ==
    ASSUME TypeOK, JobsShape, pc = "jobs"
    PROVE  /\ Day \in plan /\ Day \in Days /\ api \in Dated
           /\ Job = DateJob(api, Day) /\ Job \in DateJobs
           /\ \A w \in Windows : Job # CalendarJob(w)
           /\ \A e \in Dailies, d \in Days \ OpenDays : Job # DateJob(e, d)
<1>1. plan \subseteq Days /\ plan # {} /\ api \in Dated
      /\ (api \in Dailies => plan \subseteq OpenDays)
  BY DEF TypeOK, JobsShape
<1>2. Day \in plan /\ Day \in Days
  BY <1>1, DayInPlan
<1>3. Job = DateJob(api, Day)
  BY DEF Job
<1>4. Job \in DateJobs /\ \A w \in Windows : Job # CalendarJob(w)
  BY <1>1, <1>2, <1>3, DateJobFacts
<1>5. \A e \in Dailies, d \in Days \ OpenDays : Job # DateJob(e, d)
  BY <1>1, <1>2, <1>3, DateJobFacts
<1> QED
  BY <1>1, <1>2, <1>3, <1>4, <1>5

(* The job of an item that is one fetch.                                   *)
LEMMA FetchJobFacts ==
    ASSUME TypeOK, NEW e \in {Cal} \union Refs
    PROVE  /\ FetchJob(e, win) \in Jobs /\ FetchJob(e, win) \notin DateJobs
           /\ e = Cal => FetchJob(e, win) = CalendarJob(win)
           /\ e # Cal => \A w \in Windows : FetchJob(e, win) # CalendarJob(w)
<1>1. win \in Windows
  BY DEF TypeOK
<1>2. e # Cal => FetchJob(e, win) = ReferenceJob(e) /\ e \in Refs
  BY DEF FetchJob
<1>3. CASE e = Cal
  <2>1. FetchJob(e, win) = CalendarJob(win) /\ CalendarJob(win) \in Jobs
    BY <1>1, <1>3 DEF FetchJob, Jobs
  <2> QED
    BY <1>1, <1>3, <2>1, EndpointsAssumption
       DEF DateJobs, DateJob, CalendarJob, Periodics
<1>4. CASE e # Cal
  <2>1. FetchJob(e, win) \notin DateJobs
    BY <1>2, <1>4, EndpointsAssumption DEF DateJobs, DateJob, ReferenceJob, Periodics
  <2> QED
    BY <1>2, <1>4, <2>1, ReferenceJobFacts
<1> QED
  BY <1>3, <1>4

(* Writing the row of another job keeps the closed days without one.       *)
LEMMA RecordKeepsClosed ==
    ASSUME TypeOK, OpenDaysOnly, NEW j, NEW status, Record(j, status),
           \A e \in Dailies, d \in Days \ OpenDays : j # DateJob(e, d)
    PROVE  OpenDaysOnly'
<1>1. \A e \in Dailies, d \in Days \ OpenDays : DateJob(e, d) \in DateJobs
  BY DateJobFacts DEF Dated
<1>2. \A e \in Dailies, d \in Days \ OpenDays : row'[DateJob(e, d)] = row[DateJob(e, d)]
  BY <1>1 DEF Record
<1> QED
  BY <1>2 DEF OpenDaysOnly

-----------------------------------------------------------------------------
(* Every action keeps every part of the invariant *)

(* A call starts and ends clean.                                           *)
LEMMA CallStep == CallShape /\ [Next]_vars => CallShape'
<1> SUFFICES ASSUME CallShape, [Next]_vars
             PROVE  CallShape'
  OBVIOUS
<1> USE DEF CallShape, catalog, history, bounds, call, backfill, NoFault, Fault, Trouble
<1>1. ASSUME NEW n \in Days, NEW c \in Caps, StartWindow(n, c)
      PROVE  CallShape'
  BY <1>1 DEF StartWindow, Begin
<1>2. ASSUME NEW w \in Windows, NEW n \in Caps, StartDirect(w, n)
      PROVE  CallShape'
  BY <1>2 DEF StartDirect, Begin
<1>3. ASSUME NEW n \in Caps, StartSmoke(n)
      PROVE  CallShape'
  BY <1>3 DEF StartSmoke, Begin
<1>4. ASSUME NEW e \in Dailies, NEW w \in Windows, NEW n \in Caps, NEW b \in BOOLEAN, StartMissing(e, w, n, b)
      PROVE  CallShape'
  BY <1>4 DEF StartMissing
<1>5. CASE ProbeAll
  BY <1>5 DEF ProbeAll
<1>6. ASSUME NEW e \in Endpoints, BlockedItem(e)
      PROVE  CallShape'
  BY <1>6 DEF BlockedItem, Turn, Report
<1>7. ASSUME NEW e \in Endpoints, PlanBackfill(e)
      PROVE  CallShape'
  BY <1>7 DEF PlanBackfill, CanBackfill, Turn, Report
<1>8. ASSUME NEW e \in Endpoints, FetchItemSkipped(e)
      PROVE  CallShape'
  BY <1>8 DEF FetchItemSkipped, CanFetch, Turn, Report
<1>9. ASSUME NEW e \in Endpoints, FetchItemSucceeds(e)
      PROVE  CallShape'
  BY <1>9 DEF FetchItemSucceeds, FetchSucceeds, CanFetch, Turn, Report
<1>10. ASSUME NEW e \in Endpoints, FetchItemFails(e)
      PROVE  CallShape'
  BY <1>10 DEF FetchItemFails, FetchFails, CanFetch, Turn, Report
<1>11. CASE FetchItemEmpty
  BY <1>11 DEF FetchItemEmpty, FetchSucceeds, CanFetch, Turn, Report
<1>12. CASE JobSkipped
  BY <1>12 DEF JobSkipped, ToNextJob, Report, Idle
<1>13. CASE JobSucceeds
  BY <1>13 DEF JobSucceeds, FetchSucceeds, ToNextJob, Report, Idle
<1>14. CASE JobFails
  BY <1>14 DEF JobFails, FetchFails, ToNextJob, Report, Idle
<1>15. CASE EndItems
  BY <1>15 DEF EndItems
<1>16. CASE PassLast
  BY <1>16 DEF PassLast, PassWindow, Idle
<1>17. CASE PassToNext
  BY <1>17 DEF PassToNext, PassWindow
<1>18. CASE RetryWindow
  BY <1>18 DEF RetryWindow
<1>19. CASE FailWindow
  BY <1>19 DEF FailWindow, Idle
<1>20. CASE CheckFails
  BY <1>20 DEF CheckFails, Idle
<1>21. CASE EndDirect
  BY <1>21 DEF EndDirect, Idle
<1>22. CASE Die
  BY <1>22 DEF Die, Idle
<1>23. CASE UNCHANGED vars
  BY <1>23 DEF vars
<1> QED
  BY <1>1, <1>2, <1>3, <1>4, <1>5, <1>6, <1>7, <1>8, <1>9, <1>10, <1>11, <1>12,
     <1>13, <1>14, <1>15, <1>16, <1>17, <1>18, <1>19, <1>20, <1>21, <1>22, <1>23
  DEF Next, StartSync, StartOther, Continue

(* The calendar is the first to have its turn.                             *)
LEMMA CalendarStep == CallShape /\ JobsShape /\ CalendarFirst /\ [Next]_vars => CalendarFirst'
<1> SUFFICES ASSUME CallShape, JobsShape, CalendarFirst, [Next]_vars
             PROVE  CalendarFirst'
  OBVIOUS
<1> USE DEF CallShape, JobsShape, CalendarFirst, catalog, history, bounds, call, backfill, NoFault, Fault, Trouble, InRun, ScopeEndpoints
<1> USE EndpointsAssumption DEF Periodics, Dated
<1>1. ASSUME NEW n \in Days, NEW c \in Caps, StartWindow(n, c)
      PROVE  CalendarFirst'
  BY <1>1 DEF StartWindow, Begin
<1>2. ASSUME NEW w \in Windows, NEW n \in Caps, StartDirect(w, n)
      PROVE  CalendarFirst'
  BY <1>2 DEF StartDirect, Begin
<1>3. ASSUME NEW n \in Caps, StartSmoke(n)
      PROVE  CalendarFirst'
  BY <1>3 DEF StartSmoke, Begin
<1>4. ASSUME NEW e \in Dailies, NEW w \in Windows, NEW n \in Caps, NEW b \in BOOLEAN, StartMissing(e, w, n, b)
      PROVE  CalendarFirst'
  BY <1>4 DEF StartMissing
<1>5. CASE ProbeAll
  BY <1>5 DEF ProbeAll
<1>6. ASSUME NEW e \in Endpoints, BlockedItem(e)
      PROVE  CalendarFirst'
  BY <1>6 DEF BlockedItem, Turn, Report
<1>7. ASSUME NEW e \in Endpoints, PlanBackfill(e)
      PROVE  CalendarFirst'
  BY <1>7 DEF PlanBackfill, CanBackfill, Turn, Report
<1>8. ASSUME NEW e \in Endpoints, FetchItemSkipped(e)
      PROVE  CalendarFirst'
  BY <1>8 DEF FetchItemSkipped, CanFetch, Turn, Report
<1>9. ASSUME NEW e \in Endpoints, FetchItemSucceeds(e)
      PROVE  CalendarFirst'
  BY <1>9 DEF FetchItemSucceeds, FetchSucceeds, CanFetch, Turn, Report
<1>10. ASSUME NEW e \in Endpoints, FetchItemFails(e)
      PROVE  CalendarFirst'
  BY <1>10 DEF FetchItemFails, FetchFails, CanFetch, Turn, Report
<1>11. CASE FetchItemEmpty
  BY <1>11 DEF FetchItemEmpty, FetchSucceeds, CanFetch, Turn, Report
<1>12. CASE JobSkipped
  BY <1>12 DEF JobSkipped, ToNextJob, Report, Idle
<1>13. CASE JobSucceeds
  BY <1>13 DEF JobSucceeds, FetchSucceeds, ToNextJob, Report, Idle
<1>14. CASE JobFails
  BY <1>14 DEF JobFails, FetchFails, ToNextJob, Report, Idle
<1>15. CASE EndItems
  BY <1>15 DEF EndItems
<1>16. CASE PassLast
  BY <1>16 DEF PassLast, PassWindow, Idle
<1>17. CASE PassToNext
  BY <1>17 DEF PassToNext, PassWindow
<1>18. CASE RetryWindow
  BY <1>18 DEF RetryWindow
<1>19. CASE FailWindow
  BY <1>19 DEF FailWindow, Idle
<1>20. CASE CheckFails
  BY <1>20 DEF CheckFails, Idle
<1>21. CASE EndDirect
  BY <1>21 DEF EndDirect, Idle
<1>22. CASE Die
  BY <1>22 DEF Die, Idle
<1>23. CASE UNCHANGED vars
  BY <1>23 DEF vars
<1> QED
  BY <1>1, <1>2, <1>3, <1>4, <1>5, <1>6, <1>7, <1>8, <1>9, <1>10, <1>11, <1>12,
     <1>13, <1>14, <1>15, <1>16, <1>17, <1>18, <1>19, <1>20, <1>21, <1>22, <1>23
  DEF Next, StartSync, StartOther, Continue

(* Without a kill no job is left half done.                                *)
LEMMA RowsStep == TypeOK /\ RowsClean /\ [Next]_vars => RowsClean'
<1> SUFFICES ASSUME TypeOK, RowsClean, [Next]_vars
             PROVE  RowsClean'
  OBVIOUS
<1> USE DEF TypeOK, RowsClean, catalog, history, bounds, call, backfill, NoFault, Fault, Trouble, Record
<1>1. ASSUME NEW n \in Days, NEW c \in Caps, StartWindow(n, c)
      PROVE  RowsClean'
  BY <1>1 DEF StartWindow, Begin
<1>2. ASSUME NEW w \in Windows, NEW n \in Caps, StartDirect(w, n)
      PROVE  RowsClean'
  BY <1>2 DEF StartDirect, Begin
<1>3. ASSUME NEW n \in Caps, StartSmoke(n)
      PROVE  RowsClean'
  BY <1>3 DEF StartSmoke, Begin
<1>4. ASSUME NEW e \in Dailies, NEW w \in Windows, NEW n \in Caps, NEW b \in BOOLEAN, StartMissing(e, w, n, b)
      PROVE  RowsClean'
  BY <1>4 DEF StartMissing
<1>5. CASE ProbeAll
  BY <1>5 DEF ProbeAll
<1>6. ASSUME NEW e \in Endpoints, BlockedItem(e)
      PROVE  RowsClean'
  BY <1>6 DEF BlockedItem, Turn, Report
<1>7. ASSUME NEW e \in Endpoints, PlanBackfill(e)
      PROVE  RowsClean'
  BY <1>7 DEF PlanBackfill, CanBackfill, Turn, Report
<1>8. ASSUME NEW e \in Endpoints, FetchItemSkipped(e)
      PROVE  RowsClean'
  BY <1>8 DEF FetchItemSkipped, CanFetch, Turn, Report
<1>9. ASSUME NEW e \in Endpoints, FetchItemSucceeds(e)
      PROVE  RowsClean'
  BY <1>9 DEF FetchItemSucceeds, FetchSucceeds, CanFetch, Turn, Report
<1>10. ASSUME NEW e \in Endpoints, FetchItemFails(e)
      PROVE  RowsClean'
  BY <1>10 DEF FetchItemFails, FetchFails, CanFetch, Turn, Report
<1>11. CASE FetchItemEmpty
  BY <1>11 DEF FetchItemEmpty, FetchSucceeds, CanFetch, Turn, Report
<1>12. CASE JobSkipped
  BY <1>12 DEF JobSkipped, ToNextJob, Report, Idle
<1>13. CASE JobSucceeds
  BY <1>13 DEF JobSucceeds, FetchSucceeds, ToNextJob, Report, Idle
<1>14. CASE JobFails
  BY <1>14 DEF JobFails, FetchFails, ToNextJob, Report, Idle
<1>15. CASE EndItems
  BY <1>15 DEF EndItems
<1>16. CASE PassLast
  BY <1>16 DEF PassLast, PassWindow, Idle
<1>17. CASE PassToNext
  BY <1>17 DEF PassToNext, PassWindow
<1>18. CASE RetryWindow
  BY <1>18 DEF RetryWindow
<1>19. CASE FailWindow
  BY <1>19 DEF FailWindow, Idle
<1>20. CASE CheckFails
  BY <1>20 DEF CheckFails, Idle
<1>21. CASE EndDirect
  BY <1>21 DEF EndDirect, Idle
<1>22. CASE Die
  BY <1>22 DEF Die, Idle
<1>23. CASE UNCHANGED vars
  BY <1>23 DEF vars
<1> QED
  BY <1>1, <1>2, <1>3, <1>4, <1>5, <1>6, <1>7, <1>8, <1>9, <1>10, <1>11, <1>12,
     <1>13, <1>14, <1>15, <1>16, <1>17, <1>18, <1>19, <1>20, <1>21, <1>22, <1>23
  DEF Next, StartSync, StartOther, Continue

(* No job of a day on which the exchange is closed is ever written.        *)
LEMMA OpenDaysStep == TypeOK /\ JobsShape /\ OpenDaysOnly /\ [Next]_vars => OpenDaysOnly'
<1> SUFFICES ASSUME TypeOK, JobsShape, OpenDaysOnly, [Next]_vars
             PROVE  OpenDaysOnly'
  OBVIOUS
<1> USE DEF TypeOK, JobsShape, OpenDaysOnly, catalog, history, bounds, call, backfill, NoFault, Fault, Trouble
<1>1. ASSUME NEW n \in Days, NEW c \in Caps, StartWindow(n, c)
      PROVE  OpenDaysOnly'
  BY <1>1 DEF StartWindow, Begin
<1>2. ASSUME NEW w \in Windows, NEW n \in Caps, StartDirect(w, n)
      PROVE  OpenDaysOnly'
  BY <1>2 DEF StartDirect, Begin
<1>3. ASSUME NEW n \in Caps, StartSmoke(n)
      PROVE  OpenDaysOnly'
  BY <1>3 DEF StartSmoke, Begin
<1>4. ASSUME NEW e \in Dailies, NEW w \in Windows, NEW n \in Caps, NEW b \in BOOLEAN, StartMissing(e, w, n, b)
      PROVE  OpenDaysOnly'
  BY <1>4 DEF StartMissing
<1>5. CASE ProbeAll
  BY <1>5 DEF ProbeAll
<1>6. ASSUME NEW e \in Endpoints, BlockedItem(e)
      PROVE  OpenDaysOnly'
  BY <1>6 DEF BlockedItem, Turn, Report
<1>7. ASSUME NEW e \in Endpoints, PlanBackfill(e)
      PROVE  OpenDaysOnly'
  BY <1>7 DEF PlanBackfill, CanBackfill, Turn, Report
<1>8. ASSUME NEW e \in Endpoints, FetchItemSkipped(e)
      PROVE  OpenDaysOnly'
  BY <1>8 DEF FetchItemSkipped, CanFetch, Turn, Report
<1>9. ASSUME NEW e \in Endpoints, FetchItemSucceeds(e)
      PROVE  OpenDaysOnly'
  <2>1. \A x \in Dailies, c \in Days \ OpenDays : FetchJob(e, win) # DateJob(x, c)
    BY <1>9, FetchJobFacts, DateJobFacts DEF FetchItemSucceeds, CanFetch, Dated
  <2>2. \E s : Record(FetchJob(e, win), s)
    BY <1>9 DEF FetchItemSucceeds, FetchSucceeds
  <2> QED
    BY <2>1, <2>2, RecordKeepsClosed
<1>10. ASSUME NEW e \in Endpoints, FetchItemFails(e)
      PROVE  OpenDaysOnly'
  <2>1. \A x \in Dailies, c \in Days \ OpenDays : FetchJob(e, win) # DateJob(x, c)
    BY <1>10, FetchJobFacts, DateJobFacts DEF FetchItemFails, CanFetch, Dated
  <2>2. \E s : Record(FetchJob(e, win), s)
    BY <1>10 DEF FetchItemFails, FetchFails
  <2> QED
    BY <2>1, <2>2, RecordKeepsClosed
<1>11. CASE FetchItemEmpty
  <2>1. \A x \in Dailies, c \in Days \ OpenDays : CalendarJob(win) # DateJob(x, c)
    BY DateJobFacts DEF Dated
  <2>2. \E s : Record(CalendarJob(win), s)
    BY <1>11 DEF FetchItemEmpty, FetchSucceeds
  <2> QED
    BY <2>1, <2>2, RecordKeepsClosed
<1>12. CASE JobSkipped
  BY <1>12 DEF JobSkipped, ToNextJob, Report, Idle
<1>13. CASE JobSucceeds
  <2>1. \A x \in Dailies, c \in Days \ OpenDays : Job # DateJob(x, c)
    BY <1>13, JobFacts DEF JobSucceeds
  <2>2. \E s : Record(Job, s)
    BY <1>13 DEF JobSucceeds, FetchSucceeds
  <2> QED
    BY <2>1, <2>2, RecordKeepsClosed
<1>14. CASE JobFails
  <2>1. \A x \in Dailies, c \in Days \ OpenDays : Job # DateJob(x, c)
    BY <1>14, JobFacts DEF JobFails
  <2>2. \E s : Record(Job, s)
    BY <1>14 DEF JobFails, FetchFails
  <2> QED
    BY <2>1, <2>2, RecordKeepsClosed
<1>15. CASE EndItems
  BY <1>15 DEF EndItems
<1>16. CASE PassLast
  BY <1>16 DEF PassLast, PassWindow, Idle
<1>17. CASE PassToNext
  BY <1>17 DEF PassToNext, PassWindow
<1>18. CASE RetryWindow
  BY <1>18 DEF RetryWindow
<1>19. CASE FailWindow
  BY <1>19 DEF FailWindow, Idle
<1>20. CASE CheckFails
  BY <1>20 DEF CheckFails, Idle
<1>21. CASE EndDirect
  BY <1>21 DEF EndDirect, Idle
<1>22. CASE Die
  <2>1. CASE UNCHANGED row
    BY <2>1
  <2>2. ASSUME NEW j \in InFlight, Record(j, "running")
        PROVE  OpenDaysOnly'
    <3>1. CASE pc = "jobs"
      <4>1. j = Job
        BY <2>2, <3>1 DEF InFlight
      <4> QED
        BY <2>2, <3>1, <4>1, JobFacts, RecordKeepsClosed
    <3>2. CASE pc # "jobs"
      <4>1. PICK e \in {Cal} \union Refs : j = FetchJob(e, win)
        BY <2>2, <3>2 DEF InFlight
      <4>2. \A x \in Dailies, c \in Days \ OpenDays : j # DateJob(x, c)
        BY <4>1, FetchJobFacts, DateJobFacts DEF Dated
      <4> QED
        BY <2>2, <4>2, RecordKeepsClosed
    <3> QED
      BY <3>1, <3>2
  <2> QED
    BY <1>22, <2>1, <2>2 DEF Die
<1>23. CASE UNCHANGED vars
  BY <1>23 DEF vars
<1> QED
  BY <1>1, <1>2, <1>3, <1>4, <1>5, <1>6, <1>7, <1>8, <1>9, <1>10, <1>11, <1>12,
     <1>13, <1>14, <1>15, <1>16, <1>17, <1>18, <1>19, <1>20, <1>21, <1>22, <1>23
  DEF Next, StartSync, StartOther, Continue

(* What an item holds.                                                     *)
LEMMA ItemShape ==
    \A e, status, reason :
        LET i == Item(e, status, reason)
        IN  i.endpoint = e /\ i.status = status /\ i.reason = reason
BY DEF Item

(* What is done stays done while the calendar and the call are the same.   *)
LEMMA ItemsKept ==
    ASSUME ItemsDone, InRun \/ pc = "check", UNCHANGED <<scope, caller, win, cap>>,
           KnownDays' = KnownDays, active \subseteq active', problems \subseteq problems',
           \A e \in Dated \intersect ScopeEndpoints :
               e \notin pending' /\ ~HasItem(e)' =>
                   \/ e \notin pending
                   \/ \A d \in PlannedDates(e) : DateJob(e, d) \in active'
    PROVE  ItemsDone'
<1>1. \A e : PlannedDates(e)' = PlannedDates(e)
  BY PlanStable
<1>2. ScopeEndpoints' = ScopeEndpoints
  BY DEF ScopeEndpoints
<1>3. \A e : HasItem(e) => HasItem(e)'
  BY DEF HasItem
<1> SUFFICES ASSUME NEW e \in Dated \intersect ScopeEndpoints, e \notin pending',
                    ~HasItem(e)', NEW d \in PlannedDates(e)
             PROVE  DateJob(e, d) \in active'
  BY <1>1, <1>2 DEF ItemsDone
<1> QED
  BY <1>3 DEF ItemsDone

(* The turn of the calendar comes before any backfill.                     *)
LEMMA FirstTurn ==
    ASSUME CalendarFirst, InRun, Cal \in pending, pending' = pending \ {Cal}, scope' = scope
    PROVE  ItemsDone'
<1>1. \A e \in Dated \intersect ScopeEndpoints' : e \in pending'
  BY EndpointsAssumption DEF CalendarFirst, ScopeEndpoints, Dated, Periodics
<1> QED
  BY <1>1 DEF ItemsDone

(* A job of a backfill leaves the calendar as it is.                       *)
LEMMA JobKeepsCalendar ==
    ASSUME TypeOK, JobsShape, JobSkipped \/ JobSucceeds \/ JobFails
    PROVE  /\ KnownDays' = KnownDays /\ (HasCalendar' <=> HasCalendar)
           /\ UNCHANGED scope /\ active \subseteq active'
<1> USE DEF catalog
<1>1. CASE JobSkipped
  BY <1>1, CalendarStable DEF JobSkipped
<1>2. CASE JobSucceeds
  <2>1. pc = "jobs" /\ \A w \in Windows : Job # CalendarJob(w)
    BY <1>2, JobFacts DEF JobSucceeds
  <2> QED
    BY <1>2, <2>1, OtherFetch DEF JobSucceeds, FetchSucceeds
<1>3. CASE JobFails
  <2>1. pc = "jobs" /\ \A w \in Windows : Job # CalendarJob(w)
    BY <1>3, JobFacts DEF JobFails
  <2>2. \E far, q : FetchFails(Job, far, q)
    BY <1>3 DEF JobFails
  <2> QED
    BY <1>3, <2>1, <2>2, OtherFetch DEF JobFails, FetchFails
<1> QED
  BY <1>1, <1>2, <1>3

(* An item without a problem is the whole of its plan.                     *)
LEMMA ItemsStep == TypeOK /\ CallShape /\ CalendarFirst /\ JobsShape /\ JobsDone /\ ItemsDone /\ [Next]_vars => ItemsDone'
<1> SUFFICES ASSUME TypeOK, CallShape, CalendarFirst, JobsShape, JobsDone, ItemsDone, [Next]_vars
             PROVE  ItemsDone'
  OBVIOUS
<1> USE DEF catalog, history, bounds, call, backfill, NoFault, Fault, Trouble
<1>0. pc \in {"items", "check"} => caller # "missing"
  BY DEF CallShape
<1> USE <1>0
<1>1. ASSUME NEW n \in Days, NEW c \in Caps, StartWindow(n, c)
      PROVE  ItemsDone'
  BY <1>1 DEF StartWindow, Begin, ItemsDone, InRun, CallShape, ScopeEndpoints
<1>2. ASSUME NEW w \in Windows, NEW n \in Caps, StartDirect(w, n)
      PROVE  ItemsDone'
  BY <1>2 DEF StartDirect, Begin, ItemsDone, InRun, CallShape, ScopeEndpoints
<1>3. ASSUME NEW n \in Caps, StartSmoke(n)
      PROVE  ItemsDone'
  BY <1>3 DEF StartSmoke, Begin, ItemsDone, InRun, CallShape, ScopeEndpoints
<1>4. ASSUME NEW e \in Dailies, NEW w \in Windows, NEW n \in Caps, NEW b \in BOOLEAN, StartMissing(e, w, n, b)
      PROVE  ItemsDone'
  BY <1>4 DEF StartMissing, ItemsDone, InRun, CallShape, ScopeEndpoints
<1>5. CASE ProbeAll
  BY <1>5 DEF ProbeAll, ItemsDone, InRun, CallShape, ScopeEndpoints
<1>6. ASSUME NEW e \in Endpoints, BlockedItem(e)
      PROVE  ItemsDone'
  <2>1. HasItem(e)'
    BY <1>6, ItemShape DEF BlockedItem, Report, HasItem
  <2> QED
    BY <1>6, <2>1, CalendarStable, ItemsKept DEF BlockedItem, Turn, Report, InRun
<1>7. ASSUME NEW e \in Endpoints, PlanBackfill(e)
      PROVE  ItemsDone'
  BY <1>7, CalendarStable, ItemsKept DEF PlanBackfill, CanBackfill, Turn, Report, InRun
<1>8. ASSUME NEW e \in Endpoints, FetchItemSkipped(e)
      PROVE  ItemsDone'
  <2>1. CASE e = Cal
    BY <1>8, <2>1, FirstTurn DEF FetchItemSkipped, CanFetch, Turn, Report, InRun
  <2>2. CASE e # Cal
    <3>1. e \in Refs /\ e \notin Dated
      BY <1>8, <2>2, EndpointsAssumption DEF FetchItemSkipped, CanFetch, Dated, Periodics
    <3>2. \A w \in Windows : FetchJob(e, win) # CalendarJob(w)
      BY <2>2, <3>1, FetchJobFacts
    <3>3. KnownDays' = KnownDays
      BY <1>8, <3>2, CalendarStable DEF FetchItemSkipped
    <3> QED
      BY <1>8, <3>1, <3>3, ItemsKept DEF FetchItemSkipped, CanFetch, Turn, Report, InRun
  <2> QED
    BY <2>1, <2>2
<1>9. ASSUME NEW e \in Endpoints, FetchItemSucceeds(e)
      PROVE  ItemsDone'
  <2>1. CASE e = Cal
    BY <1>9, <2>1, FirstTurn DEF FetchItemSucceeds, CanFetch, Turn, Report, InRun
  <2>2. CASE e # Cal
    <3>1. e \in Refs /\ e \notin Dated
      BY <1>9, <2>2, EndpointsAssumption DEF FetchItemSucceeds, CanFetch, Dated, Periodics
    <3>2. \A w \in Windows : FetchJob(e, win) # CalendarJob(w)
      BY <2>2, <3>1, FetchJobFacts
    <3>3. KnownDays' = KnownDays
      BY <1>9, <3>2, OtherFetch DEF FetchItemSucceeds
    <3> QED
      BY <1>9, <3>1, <3>3, ItemsKept DEF FetchItemSucceeds, FetchSucceeds, CanFetch, Turn, Report, InRun
  <2> QED
    BY <2>1, <2>2
<1>10. ASSUME NEW e \in Endpoints, FetchItemFails(e)
      PROVE  ItemsDone'
  <2>1. CASE e = Cal
    BY <1>10, <2>1, FirstTurn DEF FetchItemFails, CanFetch, Turn, Report, InRun
  <2>2. CASE e # Cal
    <3>1. e \in Refs /\ e \notin Dated
      BY <1>10, <2>2, EndpointsAssumption DEF FetchItemFails, CanFetch, Dated, Periodics
    <3>2. \A w \in Windows : FetchJob(e, win) # CalendarJob(w)
      BY <2>2, <3>1, FetchJobFacts
    <3>3. KnownDays' = KnownDays
      BY <1>10, <3>2, OtherFetch DEF FetchItemFails
    <3> QED
      BY <1>10, <3>1, <3>3, ItemsKept DEF FetchItemFails, FetchFails, CanFetch, Turn, Report, InRun
  <2> QED
    BY <2>1, <2>2
<1>11. CASE FetchItemEmpty
  BY <1>11, FirstTurn DEF FetchItemEmpty, CanFetch, Turn, Report, InRun
<1>12. CASE JobSkipped
  <2>1. CASE plan # {Day} \/ caller = "missing"
    <3>1. CASE caller = "missing"
      BY <1>12, <3>1 DEF JobSkipped, ToNextJob, Idle, InRun, ItemsDone
    <3>2. CASE caller # "missing"
      BY <1>12, <2>1, <3>2, JobKeepsCalendar, ItemsKept DEF JobSkipped, ToNextJob, InRun
    <3> QED
      BY <3>1, <3>2
  <2>2. CASE plan = {Day} /\ caller # "missing"
    <3>1. UNCHANGED <<caller, win, cap>> /\ pending' = pending \ {api}
          /\ problems \subseteq problems' /\ active \subseteq active'
      BY <1>12, <2>2 DEF JobSkipped, ToNextJob, Report
    <3>2. ASSUME NEW e, e = api, ~HasItem(e)', NEW x \in PlannedDates(e)
          PROVE  DateJob(e, x) \in active'
      <4>1. ~HasItem(api)
        BY <3>1, <3>2 DEF HasItem
      <4>2. CASE x # Day
        BY <1>12, <2>2, <3>1, <3>2, <4>1, <4>2 DEF JobsDone, JobSkipped
      <4>3. CASE x = Day
        <5>1. ~JobBlocked
          BY <1>12, <2>2, <3>2, ItemShape DEF JobSkipped, ToNextJob, Report, Failure, HasItem
        <5> QED
          BY <1>12, <3>1, <3>2, <4>3, <5>1, JobFacts DEF JobSkipped
      <4> QED
        BY <4>2, <4>3
    <3> QED
      BY <1>12, <2>2, <3>1, <3>2, JobKeepsCalendar, ItemsKept DEF JobSkipped, InRun
  <2> QED
    BY <2>1, <2>2
<1>13. CASE JobSucceeds
  <2>1. CASE plan # {Day} \/ caller = "missing"
    <3>1. CASE caller = "missing"
      BY <1>13, <3>1 DEF JobSucceeds, FetchSucceeds, ToNextJob, Idle, InRun, ItemsDone
    <3>2. CASE caller # "missing"
      BY <1>13, <2>1, <3>2, JobKeepsCalendar, ItemsKept DEF JobSucceeds, FetchSucceeds, ToNextJob, InRun
    <3> QED
      BY <3>1, <3>2
  <2>2. CASE plan = {Day} /\ caller # "missing"
    <3>1. UNCHANGED <<caller, win, cap>> /\ pending' = pending \ {api}
          /\ problems \subseteq problems' /\ active \subseteq active'
      BY <1>13, <2>2 DEF JobSucceeds, FetchSucceeds, ToNextJob, Report
    <3>2. ASSUME NEW e, e = api, ~HasItem(e)', NEW x \in PlannedDates(e)
          PROVE  DateJob(e, x) \in active'
      <4>1. ~HasItem(api)
        BY <3>1, <3>2 DEF HasItem
      <4>2. CASE x # Day
        BY <1>13, <2>2, <3>1, <3>2, <4>1, <4>2 DEF JobsDone, JobSucceeds
      <4>3. CASE x = Day
        BY <1>13, <3>2, <4>3, JobFacts DEF JobSucceeds, FetchSucceeds
      <4> QED
        BY <4>2, <4>3
    <3> QED
      BY <1>13, <2>2, <3>1, <3>2, JobKeepsCalendar, ItemsKept DEF JobSucceeds, InRun
  <2> QED
    BY <2>1, <2>2
<1>14. CASE JobFails
  <2>1. CASE plan # {Day} \/ caller = "missing"
    <3>1. CASE caller = "missing"
      BY <1>14, <3>1 DEF JobFails, FetchFails, ToNextJob, Idle, InRun, ItemsDone
    <3>2. CASE caller # "missing"
      BY <1>14, <2>1, <3>2, JobKeepsCalendar, ItemsKept DEF JobFails, FetchFails, ToNextJob, InRun
    <3> QED
      BY <3>1, <3>2
  <2>2. CASE plan = {Day} /\ caller # "missing"
    <3>1. UNCHANGED <<caller, win, cap>> /\ pending' = pending \ {api}
          /\ problems \subseteq problems' /\ active \subseteq active'
      BY <1>14, <2>2 DEF JobFails, FetchFails, ToNextJob, Report
    <3>2. ASSUME NEW e, e = api, ~HasItem(e)', NEW x \in PlannedDates(e)
          PROVE  DateJob(e, x) \in active'
      <4>1. ~HasItem(api)
        BY <3>1, <3>2 DEF HasItem
      <4>2. CASE x # Day
        BY <1>14, <2>2, <3>1, <3>2, <4>1, <4>2 DEF JobsDone, JobFails
      <4>3. CASE x = Day
        <5>1. HasItem(e)'
          BY <1>14, <2>2, <3>2, ItemShape DEF JobFails, ToNextJob, Report, Failure, HasItem
        <5> QED
          BY <3>2, <5>1
      <4> QED
        BY <4>2, <4>3
    <3> QED
      BY <1>14, <2>2, <3>1, <3>2, JobKeepsCalendar, ItemsKept DEF JobFails, InRun
  <2> QED
    BY <2>1, <2>2
<1>15. CASE EndItems
  BY <1>15, CalendarStable, ItemsKept DEF EndItems, InRun
<1>16. CASE PassLast
  BY <1>16 DEF PassLast, PassWindow, Idle, ItemsDone, InRun, CallShape, ScopeEndpoints
<1>17. CASE PassToNext
  BY <1>17 DEF PassToNext, PassWindow, ItemsDone, InRun, CallShape, ScopeEndpoints
<1>18. CASE RetryWindow
  BY <1>18 DEF RetryWindow, ItemsDone, InRun, CallShape, ScopeEndpoints
<1>19. CASE FailWindow
  BY <1>19 DEF FailWindow, Idle, ItemsDone, InRun, CallShape, ScopeEndpoints
<1>20. CASE CheckFails
  BY <1>20 DEF CheckFails, Idle, ItemsDone, InRun, CallShape, ScopeEndpoints
<1>21. CASE EndDirect
  BY <1>21 DEF EndDirect, Idle, ItemsDone, InRun, CallShape, ScopeEndpoints
<1>22. CASE Die
  BY <1>22 DEF Die, Idle, ItemsDone, InRun, CallShape, ScopeEndpoints
<1>23. CASE UNCHANGED vars
  <2>1. CASE InRun \/ pc = "check"
    BY <1>23, <2>1, CalendarStable, ItemsKept DEF vars, HasItem
  <2>2. CASE ~(InRun \/ pc = "check")
    BY <1>23, <2>2 DEF vars, ItemsDone, InRun
  <2> QED
    BY <2>1, <2>2
<1> QED
  BY <1>1, <1>2, <1>3, <1>4, <1>5, <1>6, <1>7, <1>8, <1>9, <1>10, <1>11, <1>12,
     <1>13, <1>14, <1>15, <1>16, <1>17, <1>18, <1>19, <1>20, <1>21, <1>22, <1>23
  DEF Next, StartSync, StartOther, Continue

(* A backfill has jobs left, and its turn.                                 *)
LEMMA ShapeStep == TypeOK /\ CallShape /\ CalendarFirst /\ JobsShape /\ [Next]_vars => JobsShape'
<1> SUFFICES ASSUME TypeOK, CallShape, CalendarFirst, JobsShape, [Next]_vars
             PROVE  JobsShape'
  OBVIOUS
<1> USE DEF TypeOK, CallShape, CalendarFirst, JobsShape, catalog, history, bounds, call, backfill, NoFault, Fault, Trouble, Periodics
<1>1. ASSUME NEW n \in Days, NEW c \in Caps, StartWindow(n, c)
      PROVE  JobsShape'
  BY <1>1 DEF StartWindow, Begin
<1>2. ASSUME NEW w \in Windows, NEW n \in Caps, StartDirect(w, n)
      PROVE  JobsShape'
  BY <1>2 DEF StartDirect, Begin
<1>3. ASSUME NEW n \in Caps, StartSmoke(n)
      PROVE  JobsShape'
  BY <1>3 DEF StartSmoke, Begin
<1>4. ASSUME NEW e \in Dailies, NEW w \in Windows, NEW n \in Caps, NEW b \in BOOLEAN, StartMissing(e, w, n, b)
      PROVE  JobsShape'
  <2>1. plan' \subseteq TradingDays(w) /\ plan' # {} /\ api' = e
    BY <1>4 DEF StartMissing, Cut, StatusDays
  <2>2. TradingDays(w) \subseteq OpenDays
    BY DatesAreDays
  <2> QED
    BY <1>4, <2>1, <2>2 DEF StartMissing, Dated
<1>5. CASE ProbeAll
  BY <1>5 DEF ProbeAll
<1>6. ASSUME NEW e \in Endpoints, BlockedItem(e)
      PROVE  JobsShape'
  BY <1>6 DEF BlockedItem, Turn, Report
<1>7. ASSUME NEW e \in Endpoints, PlanBackfill(e)
      PROVE  JobsShape'
  <2>1. e \in Dated /\ e \in pending /\ Cal \notin pending
    BY <1>7, EndpointsAssumption DEF PlanBackfill, CanBackfill, Turn, Dated
  <2>2. CASE PlannedDates(e) = {}
    BY <1>7, <2>2 DEF PlanBackfill, CanBackfill, Turn
  <2>3. CASE PlannedDates(e) # {}
    BY <1>7, <2>1, <2>3, PlannedAreDays DEF PlanBackfill
  <2> QED
    BY <2>2, <2>3
<1>8. ASSUME NEW e \in Endpoints, FetchItemSkipped(e)
      PROVE  JobsShape'
  BY <1>8 DEF FetchItemSkipped, CanFetch, Turn, Report
<1>9. ASSUME NEW e \in Endpoints, FetchItemSucceeds(e)
      PROVE  JobsShape'
  BY <1>9 DEF FetchItemSucceeds, FetchSucceeds, CanFetch, Turn, Report
<1>10. ASSUME NEW e \in Endpoints, FetchItemFails(e)
      PROVE  JobsShape'
  BY <1>10 DEF FetchItemFails, FetchFails, CanFetch, Turn, Report
<1>11. CASE FetchItemEmpty
  BY <1>11 DEF FetchItemEmpty, FetchSucceeds, CanFetch, Turn, Report
<1>12. CASE JobSkipped
  BY <1>12 DEF JobSkipped, ToNextJob, Report, Idle
<1>13. CASE JobSucceeds
  BY <1>13 DEF JobSucceeds, FetchSucceeds, ToNextJob, Report, Idle
<1>14. CASE JobFails
  BY <1>14 DEF JobFails, FetchFails, ToNextJob, Report, Idle
<1>15. CASE EndItems
  BY <1>15 DEF EndItems
<1>16. CASE PassLast
  BY <1>16 DEF PassLast, PassWindow, Idle
<1>17. CASE PassToNext
  BY <1>17 DEF PassToNext, PassWindow
<1>18. CASE RetryWindow
  BY <1>18 DEF RetryWindow
<1>19. CASE FailWindow
  BY <1>19 DEF FailWindow, Idle
<1>20. CASE CheckFails
  BY <1>20 DEF CheckFails, Idle
<1>21. CASE EndDirect
  BY <1>21 DEF EndDirect, Idle
<1>22. CASE Die
  BY <1>22 DEF Die, Idle
<1>23. CASE UNCHANGED vars
  BY <1>23 DEF vars
<1> QED
  BY <1>1, <1>2, <1>3, <1>4, <1>5, <1>6, <1>7, <1>8, <1>9, <1>10, <1>11, <1>12,
     <1>13, <1>14, <1>15, <1>16, <1>17, <1>18, <1>19, <1>20, <1>21, <1>22, <1>23
  DEF Next, StartSync, StartOther, Continue

(* The next window is that after the one that passed, and no longer.       *)
LEMMA WindowStep == TypeOK /\ SyncWindow /\ [Next]_vars => SyncWindow'
<1> SUFFICES ASSUME TypeOK, SyncWindow, [Next]_vars
             PROVE  SyncWindow'
  OBVIOUS
<1> USE DEF TypeOK, SyncWindow, catalog, history, bounds, call, backfill, NoFault, Fault, Trouble
<1>1. ASSUME NEW n \in Days, NEW c \in Caps, StartWindow(n, c)
      PROVE  SyncWindow'
  <2>1. next \in Days /\ n \in Nat \ {0} /\ c \in Nat
    BY <1>1, DaysAssumption, BoundsAssumption DEF StartWindow, Days
  <2>2. WindowFrom(next, n)[1] = next /\ Cardinality(Span(WindowFrom(next, n))) \in 1..n
    BY <2>1, WindowIsWindow
  <2> QED
    BY <1>1, <2>1, <2>2 DEF StartWindow, Begin, WindowFits
<1>2. ASSUME NEW w \in Windows, NEW n \in Caps, StartDirect(w, n)
      PROVE  SyncWindow'
  BY <1>2 DEF StartDirect, Begin
<1>3. ASSUME NEW n \in Caps, StartSmoke(n)
      PROVE  SyncWindow'
  BY <1>3 DEF StartSmoke, Begin
<1>4. ASSUME NEW e \in Dailies, NEW w \in Windows, NEW n \in Caps, NEW b \in BOOLEAN, StartMissing(e, w, n, b)
      PROVE  SyncWindow'
  BY <1>4 DEF StartMissing
<1>5. CASE ProbeAll
  BY <1>5 DEF ProbeAll
<1>6. ASSUME NEW e \in Endpoints, BlockedItem(e)
      PROVE  SyncWindow'
  BY <1>6 DEF BlockedItem, Turn, Report
<1>7. ASSUME NEW e \in Endpoints, PlanBackfill(e)
      PROVE  SyncWindow'
  BY <1>7 DEF PlanBackfill, CanBackfill, Turn, Report
<1>8. ASSUME NEW e \in Endpoints, FetchItemSkipped(e)
      PROVE  SyncWindow'
  BY <1>8 DEF FetchItemSkipped, CanFetch, Turn, Report
<1>9. ASSUME NEW e \in Endpoints, FetchItemSucceeds(e)
      PROVE  SyncWindow'
  BY <1>9 DEF FetchItemSucceeds, FetchSucceeds, CanFetch, Turn, Report
<1>10. ASSUME NEW e \in Endpoints, FetchItemFails(e)
      PROVE  SyncWindow'
  BY <1>10 DEF FetchItemFails, FetchFails, CanFetch, Turn, Report
<1>11. CASE FetchItemEmpty
  BY <1>11 DEF FetchItemEmpty, FetchSucceeds, CanFetch, Turn, Report
<1>12. CASE JobSkipped
  BY <1>12 DEF JobSkipped, ToNextJob, Report, Idle
<1>13. CASE JobSucceeds
  BY <1>13 DEF JobSucceeds, FetchSucceeds, ToNextJob, Report, Idle
<1>14. CASE JobFails
  BY <1>14 DEF JobFails, FetchFails, ToNextJob, Report, Idle
<1>15. CASE EndItems
  BY <1>15 DEF EndItems
<1>16. CASE PassLast
  BY <1>16 DEF PassLast, Idle
<1>17. CASE PassToNext
  <2> DEFINE size == Cardinality(Span(win))
  <2>1. size \in Nat \ {0} /\ win[2] + 1 \in Days
    BY <1>17, SpanSize, DaysAssumption DEF PassToNext, Windows, Days
  <2>2. cap \in Nat
    BY BoundsAssumption
  <2> HIDE DEF size
  <2>3. WindowFrom(win[2] + 1, size)[1] = win[2] + 1
        /\ Cardinality(Span(WindowFrom(win[2] + 1, size))) \in 1..size
    BY <2>1, WindowIsWindow
  <2>4. win' = WindowFrom(win[2] + 1, size) /\ next' = win[2] + 1 /\ cap' = cap
        /\ caller = "sync"
    BY <1>17 DEF PassToNext, PassWindow, size
  <2>5. size <= cap
    BY <2>4 DEF size
  <2> QED
    BY <2>1, <2>2, <2>3, <2>4, <2>5
<1>18. CASE RetryWindow
  BY <1>18 DEF RetryWindow
<1>19. CASE FailWindow
  BY <1>19 DEF FailWindow, Idle
<1>20. CASE CheckFails
  BY <1>20 DEF CheckFails, Idle
<1>21. CASE EndDirect
  BY <1>21 DEF EndDirect, Idle
<1>22. CASE Die
  BY <1>22 DEF Die, Idle
<1>23. CASE UNCHANGED vars
  BY <1>23 DEF vars
<1> QED
  BY <1>1, <1>2, <1>3, <1>4, <1>5, <1>6, <1>7, <1>8, <1>9, <1>10, <1>11, <1>12,
     <1>13, <1>14, <1>15, <1>16, <1>17, <1>18, <1>19, <1>20, <1>21, <1>22, <1>23
  DEF Next, StartSync, StartOther, Continue

(* A backfill is through with the dates it has left its plan.             *)
LEMMA JobsStep == TypeOK /\ JobsShape /\ JobsDone /\ [Next]_vars => JobsDone'
<1> SUFFICES ASSUME TypeOK, JobsShape, JobsDone, [Next]_vars
             PROVE  JobsDone'
  OBVIOUS
<1> USE DEF catalog, history, bounds, call, backfill, NoFault, Fault, Trouble
<1>1. ASSUME NEW n \in Days, NEW c \in Caps, StartWindow(n, c)
      PROVE  JobsDone'
  BY <1>1 DEF StartWindow, Begin, JobsDone
<1>2. ASSUME NEW w \in Windows, NEW n \in Caps, StartDirect(w, n)
      PROVE  JobsDone'
  BY <1>2 DEF StartDirect, Begin, JobsDone
<1>3. ASSUME NEW n \in Caps, StartSmoke(n)
      PROVE  JobsDone'
  BY <1>3 DEF StartSmoke, Begin, JobsDone
<1>4. ASSUME NEW e \in Dailies, NEW w \in Windows, NEW n \in Caps, NEW b \in BOOLEAN, StartMissing(e, w, n, b)
      PROVE  JobsDone'
  BY <1>4 DEF StartMissing, JobsDone
<1>5. CASE ProbeAll
  BY <1>5 DEF ProbeAll, JobsDone
<1>6. ASSUME NEW e \in Endpoints, BlockedItem(e)
      PROVE  JobsDone'
  BY <1>6 DEF BlockedItem, Turn, Report, JobsDone
<1>7. ASSUME NEW e \in Endpoints, PlanBackfill(e)
      PROVE  JobsDone'
  <2>1. CASE PlannedDates(e) = {}
    BY <1>7, <2>1 DEF PlanBackfill, CanBackfill, Turn, JobsDone
  <2>2. CASE PlannedDates(e) # {}
    <3>1. api' = e /\ plan' = PlannedDates(e) /\ UNCHANGED <<caller, win, cap>>
      BY <1>7, <2>2 DEF PlanBackfill
    <3>2. \A f : PlannedDates(f)' = PlannedDates(f)
      BY <1>7, <3>1, CalendarStable, PlanStable DEF PlanBackfill
    <3> QED
      BY <3>1, <3>2 DEF JobsDone
  <2> QED
    BY <2>1, <2>2
<1>8. ASSUME NEW e \in Endpoints, FetchItemSkipped(e)
      PROVE  JobsDone'
  BY <1>8 DEF FetchItemSkipped, CanFetch, Turn, Report, JobsDone
<1>9. ASSUME NEW e \in Endpoints, FetchItemSucceeds(e)
      PROVE  JobsDone'
  BY <1>9 DEF FetchItemSucceeds, FetchSucceeds, CanFetch, Turn, Report, JobsDone
<1>10. ASSUME NEW e \in Endpoints, FetchItemFails(e)
      PROVE  JobsDone'
  BY <1>10 DEF FetchItemFails, FetchFails, CanFetch, Turn, Report, JobsDone
<1>11. CASE FetchItemEmpty
  BY <1>11 DEF FetchItemEmpty, CanFetch, Turn, Report, JobsDone
<1>12. CASE JobSkipped
  <2>1. CASE pc' = "jobs" /\ caller' # "missing"
    <3>1. plan' = plan \ {Day} /\ UNCHANGED <<caller, win, cap, pc, api>>
          /\ problems \subseteq problems' /\ active \subseteq active'
      BY <1>12, <2>1 DEF JobSkipped, ToNextJob, Idle
    <3>2. \A e : PlannedDates(e)' = PlannedDates(e)
      BY <1>12, <3>1, JobKeepsCalendar, PlanStable
    <3> SUFFICES ASSUME NEW e, e = api, ~HasItem(e)', NEW x \in PlannedDates(e) \ plan'
                 PROVE  DateJob(e, x) \in active'
      BY <3>1, <3>2 DEF JobsDone, HasItem
    <3>3. ~HasItem(api)
      BY <3>1 DEF HasItem
    <3>4. CASE x \notin plan
      BY <2>1, <3>1, <3>3, <3>4 DEF JobsDone
    <3>5. CASE x = Day
      <4>1. ~JobBlocked
        BY <1>12, <3>1, <2>1, ItemShape DEF JobSkipped, ToNextJob, Failure, Idle, HasItem
      <4> QED
        BY <1>12, <3>5, <4>1, JobFacts DEF JobSkipped
    <3> QED
      BY <3>1, <3>4, <3>5
  <2>2. CASE ~(pc' = "jobs" /\ caller' # "missing")
    BY <2>2 DEF JobsDone
  <2> QED
    BY <2>1, <2>2
<1>13. CASE JobSucceeds
  <2>1. CASE pc' = "jobs" /\ caller' # "missing"
    <3>1. plan' = plan \ {Day} /\ UNCHANGED <<caller, win, cap, pc, api>>
          /\ problems \subseteq problems' /\ active \subseteq active'
      BY <1>13, <2>1 DEF JobSucceeds, FetchSucceeds, ToNextJob, Idle
    <3>2. \A e : PlannedDates(e)' = PlannedDates(e)
      BY <1>13, <3>1, JobKeepsCalendar, PlanStable
    <3> SUFFICES ASSUME NEW e, e = api, ~HasItem(e)', NEW x \in PlannedDates(e) \ plan'
                 PROVE  DateJob(e, x) \in active'
      BY <3>1, <3>2 DEF JobsDone, HasItem
    <3>3. ~HasItem(api)
      BY <3>1 DEF HasItem
    <3>4. CASE x \notin plan
      BY <2>1, <3>1, <3>3, <3>4 DEF JobsDone
    <3>5. CASE x = Day
      BY <1>13, <3>5, JobFacts DEF JobSucceeds, FetchSucceeds
    <3> QED
      BY <3>1, <3>4, <3>5
  <2>2. CASE ~(pc' = "jobs" /\ caller' # "missing")
    BY <2>2 DEF JobsDone
  <2> QED
    BY <2>1, <2>2
<1>14. CASE JobFails
  <2>1. CASE pc' = "jobs" /\ caller' # "missing"
    <3>1. plan' = plan \ {Day} /\ UNCHANGED <<caller, win, cap, pc, api>>
          /\ problems \subseteq problems' /\ active \subseteq active'
      BY <1>14, <2>1 DEF JobFails, FetchFails, ToNextJob, Idle
    <3>2. \A e : PlannedDates(e)' = PlannedDates(e)
      BY <1>14, <3>1, JobKeepsCalendar, PlanStable
    <3> SUFFICES ASSUME NEW e, e = api, ~HasItem(e)', NEW x \in PlannedDates(e) \ plan'
                 PROVE  DateJob(e, x) \in active'
      BY <3>1, <3>2 DEF JobsDone, HasItem
    <3>3. ~HasItem(api)
      BY <3>1 DEF HasItem
    <3>4. CASE x \notin plan
      BY <2>1, <3>1, <3>3, <3>4 DEF JobsDone
    <3>5. CASE x = Day
      <4>1. HasItem(e)'
        BY <1>14, <3>1, <2>1, ItemShape DEF JobFails, ToNextJob, Failure, Idle, HasItem
      <4> QED
        BY <1>14, <3>5, <4>1, JobFacts DEF JobFails
    <3> QED
      BY <3>1, <3>4, <3>5
  <2>2. CASE ~(pc' = "jobs" /\ caller' # "missing")
    BY <2>2 DEF JobsDone
  <2> QED
    BY <2>1, <2>2
<1>15. CASE EndItems
  BY <1>15 DEF EndItems, JobsDone
<1>16. CASE PassLast
  BY <1>16 DEF PassLast, PassWindow, Idle, JobsDone
<1>17. CASE PassToNext
  BY <1>17 DEF PassToNext, PassWindow, JobsDone
<1>18. CASE RetryWindow
  BY <1>18 DEF RetryWindow, JobsDone
<1>19. CASE FailWindow
  BY <1>19 DEF FailWindow, Idle, JobsDone
<1>20. CASE CheckFails
  BY <1>20 DEF CheckFails, Idle, JobsDone
<1>21. CASE EndDirect
  BY <1>21 DEF EndDirect, Idle, JobsDone
<1>22. CASE Die
  BY <1>22 DEF Die, Idle, JobsDone
<1>23. CASE UNCHANGED vars
  <2>1. \A e : PlannedDates(e)' = PlannedDates(e)
    BY <1>23, CalendarStable, PlanStable DEF vars
  <2> QED
    BY <1>23, <2>1 DEF vars, JobsDone, HasItem
<1> QED
  BY <1>1, <1>2, <1>3, <1>4, <1>5, <1>6, <1>7, <1>8, <1>9, <1>10, <1>11, <1>12,
     <1>13, <1>14, <1>15, <1>16, <1>17, <1>18, <1>19, <1>20, <1>21, <1>22, <1>23
  DEF Next, StartSync, StartOther, Continue

(* What blocked an item still does while the probes and the calendar are   *)
(* the same.                                                               *)
LEMMA BlockedKept ==
    ASSUME BlockedWhy, refused' = refused, HasCalendar' <=> HasCalendar,
           problems \subseteq problems', pending' \subseteq pending,
           \A i \in problems' \ problems : i.status # "blocked"
    PROVE  BlockedWhy'
BY DEF BlockedWhy, Refused, CalendarFailed

(* Only its probe or the calendar blocks an endpoint.                      *)
LEMMA BlockedStep == TypeOK /\ CallShape /\ CalendarFirst /\ JobsShape /\ BlockedWhy /\ [Next]_vars => BlockedWhy'
<1> SUFFICES ASSUME TypeOK, CallShape, CalendarFirst, JobsShape, BlockedWhy, [Next]_vars
             PROVE  BlockedWhy'
  OBVIOUS
<1> USE DEF catalog, history, bounds, call, backfill, NoFault, Fault, Trouble
<1>1. ASSUME NEW n \in Days, NEW c \in Caps, StartWindow(n, c)
      PROVE  BlockedWhy'
  BY <1>1 DEF StartWindow, Begin, CallShape, BlockedWhy
<1>2. ASSUME NEW w \in Windows, NEW n \in Caps, StartDirect(w, n)
      PROVE  BlockedWhy'
  BY <1>2 DEF StartDirect, Begin, BlockedWhy, CallShape
<1>3. ASSUME NEW n \in Caps, StartSmoke(n)
      PROVE  BlockedWhy'
  BY <1>3 DEF StartSmoke, Begin, BlockedWhy, CallShape
<1>4. ASSUME NEW e \in Dailies, NEW w \in Windows, NEW n \in Caps, NEW b \in BOOLEAN, StartMissing(e, w, n, b)
      PROVE  BlockedWhy'
  BY <1>4 DEF StartMissing, BlockedWhy, CallShape
<1>5. CASE ProbeAll
  BY <1>5 DEF ProbeAll, BlockedWhy, CallShape
<1>6. ASSUME NEW e \in Endpoints, BlockedItem(e)
      PROVE  BlockedWhy'
  <2>1. HasCalendar' <=> HasCalendar
    BY <1>6, CalendarStable DEF BlockedItem
  <2>2. MissesCalendar(e) => Cal \notin pending /\ (CalendarFailed \/ ~HasCalendar)
    BY <1>6, EndpointsAssumption DEF BlockedItem, Turn, MissesCalendar
  <2>3. \A i \in problems' \ problems : i.endpoint = e /\ (MissesCalendar(e) \/ Refused(e))
    BY <1>6, ItemShape DEF BlockedItem, Report
  <2>4. pending' \subseteq pending /\ problems \subseteq problems' /\ refused' = refused
    BY <1>6 DEF BlockedItem, Report
  <2> QED
    BY <2>1, <2>2, <2>3, <2>4 DEF BlockedWhy, Refused, CalendarFailed
<1>7. ASSUME NEW e \in Endpoints, PlanBackfill(e)
      PROVE  BlockedWhy'
  BY <1>7, CalendarStable, BlockedKept DEF PlanBackfill, Report
<1>8. ASSUME NEW e \in Endpoints, FetchItemSkipped(e)
      PROVE  BlockedWhy'
  <2>1. CASE e = Cal
    <3>1. \A i \in problems : i.status = "blocked" => Refused(i.endpoint)
      BY <1>8, <2>1 DEF FetchItemSkipped, CanFetch, Turn, BlockedWhy
    <3>2. \A i \in problems' \ problems : i.status # "blocked"
      BY <1>8, ItemShape DEF FetchItemSkipped, Report
    <3> QED
      BY <1>8, <3>1, <3>2 DEF FetchItemSkipped, BlockedWhy, Refused
  <2>2. CASE e # Cal
    <3>1. \A w \in Windows : FetchJob(e, win) # CalendarJob(w)
      BY <1>8, <2>2, FetchJobFacts DEF FetchItemSkipped, CanFetch
    <3>2. HasCalendar' <=> HasCalendar
      BY <1>8, <3>1, CalendarStable DEF FetchItemSkipped
    <3>3. \A i \in problems' \ problems : i.status # "blocked"
      BY <1>8, ItemShape DEF FetchItemSkipped, Report
    <3> QED
      BY <1>8, <3>2, <3>3, BlockedKept DEF FetchItemSkipped, Report
  <2> QED
    BY <2>1, <2>2
<1>9. ASSUME NEW e \in Endpoints, FetchItemSucceeds(e)
      PROVE  BlockedWhy'
  <2>1. CASE e = Cal
    <3>1. \A i \in problems : i.status = "blocked" => Refused(i.endpoint)
      BY <1>9, <2>1 DEF FetchItemSucceeds, CanFetch, Turn, BlockedWhy
    <3>2. \A i \in problems' \ problems : i.status # "blocked"
      BY <1>9, ItemShape DEF FetchItemSucceeds, Report
    <3> QED
      BY <1>9, <3>1, <3>2 DEF FetchItemSucceeds, BlockedWhy, Refused
  <2>2. CASE e # Cal
    <3>1. \A w \in Windows : FetchJob(e, win) # CalendarJob(w)
      BY <1>9, <2>2, FetchJobFacts DEF FetchItemSucceeds, CanFetch
    <3>2. HasCalendar' <=> HasCalendar
      BY <1>9, <3>1, OtherFetch DEF FetchItemSucceeds
    <3>3. \A i \in problems' \ problems : i.status # "blocked"
      BY <1>9, ItemShape DEF FetchItemSucceeds, Report
    <3> QED
      BY <1>9, <3>2, <3>3, BlockedKept DEF FetchItemSucceeds, Report
  <2> QED
    BY <2>1, <2>2
<1>10. ASSUME NEW e \in Endpoints, FetchItemFails(e)
      PROVE  BlockedWhy'
  <2>1. CASE e = Cal
    <3>1. \A i \in problems : i.status = "blocked" => Refused(i.endpoint)
      BY <1>10, <2>1 DEF FetchItemFails, CanFetch, Turn, BlockedWhy
    <3>2. \A i \in problems' \ problems : i.status # "blocked"
      BY <1>10, ItemShape DEF FetchItemFails, Report
    <3> QED
      BY <1>10, <3>1, <3>2 DEF FetchItemFails, BlockedWhy, Refused
  <2>2. CASE e # Cal
    <3>1. \A w \in Windows : FetchJob(e, win) # CalendarJob(w)
      BY <1>10, <2>2, FetchJobFacts DEF FetchItemFails, CanFetch
    <3>2. HasCalendar' <=> HasCalendar
      BY <1>10, <3>1, OtherFetch DEF FetchItemFails
    <3>3. \A i \in problems' \ problems : i.status # "blocked"
      BY <1>10, ItemShape DEF FetchItemFails, Report
    <3> QED
      BY <1>10, <3>2, <3>3, BlockedKept DEF FetchItemFails, Report
  <2> QED
    BY <2>1, <2>2
<1>11. CASE FetchItemEmpty
  <2>1. \A i \in problems : i.status = "blocked" => Refused(i.endpoint)
    BY <1>11 DEF FetchItemEmpty, CanFetch, Turn, BlockedWhy
  <2> QED
    BY <1>11, <2>1 DEF FetchItemEmpty, Report, BlockedWhy, Refused
<1>12. CASE JobSkipped
  <2>1. CASE problems' = {}
    BY <2>1 DEF BlockedWhy
  <2>2. CASE problems' # {}
    <3>1. \A i \in problems' \ problems : i.status # "blocked"
      BY <1>12, <2>2, ItemShape DEF JobSkipped, ToNextJob, Report, Idle, Failure
    <3>2. refused' = refused /\ problems \subseteq problems' /\ pending' \subseteq pending
      BY <1>12, <2>2 DEF JobSkipped, ToNextJob, Report, Idle
    <3> QED
      BY <1>12, <3>1, <3>2, JobKeepsCalendar, BlockedKept
  <2> QED
    BY <2>1, <2>2
<1>13. CASE JobSucceeds
  <2>1. CASE problems' = {}
    BY <2>1 DEF BlockedWhy
  <2>2. CASE problems' # {}
    <3>1. \A i \in problems' \ problems : i.status # "blocked"
      BY <1>13, <2>2, ItemShape DEF JobSucceeds, ToNextJob, Report, Idle, Failure
    <3>2. refused' = refused /\ problems \subseteq problems' /\ pending' \subseteq pending
      BY <1>13, <2>2 DEF JobSucceeds, ToNextJob, Report, Idle
    <3> QED
      BY <1>13, <3>1, <3>2, JobKeepsCalendar, BlockedKept
  <2> QED
    BY <2>1, <2>2
<1>14. CASE JobFails
  <2>1. CASE problems' = {}
    BY <2>1 DEF BlockedWhy
  <2>2. CASE problems' # {}
    <3>1. \A i \in problems' \ problems : i.status # "blocked"
      BY <1>14, <2>2, ItemShape DEF JobFails, ToNextJob, Report, Idle, Failure
    <3>2. refused' = refused /\ problems \subseteq problems' /\ pending' \subseteq pending
      BY <1>14, <2>2 DEF JobFails, ToNextJob, Report, Idle
    <3> QED
      BY <1>14, <3>1, <3>2, JobKeepsCalendar, BlockedKept
  <2> QED
    BY <2>1, <2>2
<1>15. CASE EndItems
  BY <1>15, CalendarStable, BlockedKept DEF EndItems
<1>16. CASE PassLast
  BY <1>16 DEF PassLast, PassWindow, Idle, BlockedWhy, CallShape
<1>17. CASE PassToNext
  BY <1>17 DEF PassToNext, PassWindow, BlockedWhy, CallShape
<1>18. CASE RetryWindow
  BY <1>18 DEF RetryWindow, BlockedWhy, CallShape
<1>19. CASE FailWindow
  BY <1>19 DEF FailWindow, Idle, BlockedWhy, CallShape
<1>20. CASE CheckFails
  BY <1>20 DEF CheckFails, Idle, BlockedWhy, CallShape
<1>21. CASE EndDirect
  BY <1>21 DEF EndDirect, Idle, BlockedWhy, CallShape
<1>22. CASE Die
  BY <1>22 DEF Die, Idle, BlockedWhy, CallShape
<1>23. CASE UNCHANGED vars
  BY <1>23, CalendarStable, BlockedKept DEF vars
<1> QED
  BY <1>1, <1>2, <1>3, <1>4, <1>5, <1>6, <1>7, <1>8, <1>9, <1>10, <1>11, <1>12,
     <1>13, <1>14, <1>15, <1>16, <1>17, <1>18, <1>19, <1>20, <1>21, <1>22, <1>23
  DEF Next, StartSync, StartOther, Continue

(* The plan shown before a run names jobs of open days of the window.      *)
LEMMA PlannedJobFacts ==
    ASSUME NEW w \in Windows, NEW n
    PROVE  \A j \in PlannedJobs(w, n) :
               /\ j \in Jobs
               /\ \E e \in Dailies, d \in TradingDays(w) : j = DateJob(e, d)
<1> SUFFICES ASSUME NEW j \in PlannedJobs(w, n)
             PROVE  /\ j \in Jobs
                    /\ \E e \in Dailies, d \in TradingDays(w) : j = DateJob(e, d)
  OBVIOUS
<1>1. PICK e \in Dailies, d \in Cut(TradingDays(w), n) : j = DateJob(e, d)
  BY DEF PlannedJobs
<1>2. d \in TradingDays(w) /\ d \in Days /\ e \in Dated
  BY <1>1, DatesAreDays DEF Cut, Dated
<1> QED
  BY <1>1, <1>2, DateJobFacts DEF Jobs

(* What was announced stays planned as the calendar learns of days.        *)
LEMMA AnnouncedKept ==
    ASSUME AnnouncedPlanned, announced' \subseteq announced,
           announced' # {} /\ Valid' =>
               Valid /\ UNCHANGED <<win, cap>> /\ KnownDays \subseteq KnownDays'
    PROVE  AnnouncedPlanned'
BY DEF AnnouncedPlanned, TradingDays, KnownOpen

(* Without a fetch the calendar and the listed files are the same.         *)
LEMMA NoFetch ==
    ASSUME UNCHANGED <<active, half, spoiled, hollow>>
    PROVE  (Valid' => Valid) /\ KnownDays \subseteq KnownDays'
BY CalendarStable DEF Valid

(* What the plan announced is among what the run plans.                    *)
LEMMA AnnouncedStep == TypeOK /\ CallShape /\ AnnouncedPlanned /\ [Next]_vars => AnnouncedPlanned'
<1> SUFFICES ASSUME TypeOK, CallShape, AnnouncedPlanned, [Next]_vars
             PROVE  AnnouncedPlanned'
  OBVIOUS
<1> USE DEF CallShape, catalog, history, bounds, call, backfill, NoFault, Fault, Trouble
<1>1. ASSUME NEW n \in Days, NEW c \in Caps, StartWindow(n, c)
      PROVE  AnnouncedPlanned'
  BY <1>1, AnnouncedKept, NoFetch DEF StartWindow, Begin, CallShape
<1>2. ASSUME NEW w \in Windows, NEW n \in Caps, StartDirect(w, n)
      PROVE  AnnouncedPlanned'
  <2>1. CASE announced' = {}
    BY <2>1 DEF AnnouncedPlanned
  <2>2. CASE announced' # {}
    <3>1. Cardinality(Span(w)) <= n /\ announced' = PlannedJobs(w, n) /\ win' = w /\ cap' = n
      BY <1>2, <2>2 DEF StartDirect, Begin
    <3>2. \A j \in PlannedJobs(w, n) : \E e \in Dailies, d \in TradingDays(w) : j = DateJob(e, d)
      BY PlannedJobFacts
    <3>3. KnownDays' = KnownDays
      BY <1>2, CalendarStable DEF StartDirect
    <3> QED
      BY <3>1, <3>2, <3>3 DEF AnnouncedPlanned, TradingDays, KnownOpen
  <2> QED
    BY <2>1, <2>2
<1>3. ASSUME NEW n \in Caps, StartSmoke(n)
      PROVE  AnnouncedPlanned'
  BY <1>3, AnnouncedKept, NoFetch DEF StartSmoke, Begin, CallShape
<1>4. ASSUME NEW e \in Dailies, NEW w \in Windows, NEW n \in Caps, NEW b \in BOOLEAN, StartMissing(e, w, n, b)
      PROVE  AnnouncedPlanned'
  BY <1>4, AnnouncedKept, NoFetch DEF StartMissing, CallShape
<1>5. CASE ProbeAll
  BY <1>5, AnnouncedKept, NoFetch DEF ProbeAll
<1>6. ASSUME NEW e \in Endpoints, BlockedItem(e)
      PROVE  AnnouncedPlanned'
  BY <1>6, AnnouncedKept, NoFetch DEF BlockedItem, Turn, Report
<1>7. ASSUME NEW e \in Endpoints, PlanBackfill(e)
      PROVE  AnnouncedPlanned'
  BY <1>7, AnnouncedKept, NoFetch DEF PlanBackfill, CanBackfill, Turn, Report
<1>8. ASSUME NEW e \in Endpoints, FetchItemSkipped(e)
      PROVE  AnnouncedPlanned'
  BY <1>8, AnnouncedKept, NoFetch DEF FetchItemSkipped, CanFetch, Turn, Report
<1>9. ASSUME NEW e \in Endpoints, FetchItemSucceeds(e)
      PROVE  AnnouncedPlanned'
  <2>1. Valid' => Valid /\ KnownDays \subseteq KnownDays'
    BY <1>9, FetchTeaches DEF FetchItemSucceeds, Fetched, Valid, FetchSucceeds
  <2> QED
    BY <1>9, <2>1, AnnouncedKept DEF FetchItemSucceeds
<1>10. ASSUME NEW e \in Endpoints, FetchItemFails(e)
      PROVE  AnnouncedPlanned'
  <2>1. Valid' => Valid /\ KnownDays \subseteq KnownDays'
    BY <1>10, FetchTeaches DEF FetchItemFails, Fetched, Valid, FetchFails, Reaches
  <2> QED
    BY <1>10, <2>1, AnnouncedKept DEF FetchItemFails
<1>11. CASE FetchItemEmpty
  <2>1. Valid' => Valid /\ KnownDays \subseteq KnownDays'
    BY <1>11, FetchTeaches DEF FetchItemEmpty, Fetched, FetchJob, Valid, FetchSucceeds
  <2> QED
    BY <1>11, <2>1, AnnouncedKept DEF FetchItemEmpty
<1>12. CASE JobSkipped
  BY <1>12, AnnouncedKept, NoFetch DEF JobSkipped, ToNextJob, Report, Idle
<1>13. CASE JobSucceeds
  <2>1. Valid' => Valid /\ KnownDays \subseteq KnownDays'
    BY <1>13, FetchTeaches DEF JobSucceeds, Valid, FetchSucceeds
  <2> QED
    BY <1>13, <2>1, AnnouncedKept DEF JobSucceeds, ToNextJob, Idle, CallShape
<1>14. CASE JobFails
  <2>1. Valid' => Valid /\ KnownDays \subseteq KnownDays'
    BY <1>14, FetchTeaches DEF JobFails, Valid, FetchFails, Reaches
  <2> QED
    BY <1>14, <2>1, AnnouncedKept DEF JobFails, ToNextJob, Idle, CallShape
<1>15. CASE EndItems
  BY <1>15, AnnouncedKept, NoFetch DEF EndItems
<1>16. CASE PassLast
  <2>1. announced' = {}
    BY <1>16 DEF PassLast, PassWindow, CallShape
  <2> QED
    BY <2>1 DEF AnnouncedPlanned
<1>17. CASE PassToNext
  <2>1. announced' = {}
    BY <1>17 DEF PassToNext, PassWindow, CallShape
  <2> QED
    BY <2>1 DEF AnnouncedPlanned
<1>18. CASE RetryWindow
  BY <1>18, AnnouncedKept, NoFetch DEF RetryWindow
<1>19. CASE FailWindow
  BY <1>19, AnnouncedKept, NoFetch DEF FailWindow, Idle
<1>20. CASE CheckFails
  BY <1>20, AnnouncedKept, NoFetch DEF CheckFails, Idle
<1>21. CASE EndDirect
  BY <1>21, AnnouncedKept, NoFetch DEF EndDirect, Idle
<1>22. CASE Die
  BY <1>22, AnnouncedKept, NoFetch DEF Die, Idle
<1>23. CASE UNCHANGED vars
  BY <1>23, AnnouncedKept, NoFetch DEF vars
<1> QED
  BY <1>1, <1>2, <1>3, <1>4, <1>5, <1>6, <1>7, <1>8, <1>9, <1>10, <1>11, <1>12,
     <1>13, <1>14, <1>15, <1>16, <1>17, <1>18, <1>19, <1>20, <1>21, <1>22, <1>23
  DEF Next, StartSync, StartOther, Continue

(* The types, in parts.                                                    *)
CalendarJobs == {CalendarJob(w) : w \in Windows}
Statuses == {"none", "running", "failed", "done"}
CatalogType ==
    /\ active \subseteq Jobs /\ staged \subseteq DateJobs /\ quarantined \subseteq DateJobs
    /\ half \subseteq Jobs /\ spoiled \in BOOLEAN /\ dirty \in BOOLEAN
    /\ hollow \subseteq CalendarJobs
    /\ row \in [DateJobs -> Statuses]
HistoryType ==
    /\ scope \in {"a_share", "hk_us"}
    /\ next \in 1..(LastDay + 1)
    /\ excused \subseteq (Dailies \union Periodics) \X Days
    /\ announced \subseteq Jobs
    /\ trouble \in 0..MaxTrouble /\ killed \in BOOLEAN
CallType ==
    /\ caller \in {"none", "sync", "direct", "smoke", "missing"}
    /\ win \in Windows /\ cap \in Caps \union {1}
    /\ attempt \in 0..MaxAttempts
    /\ pc \in {"idle", "probe", "items", "jobs", "check"}
RunType ==
    /\ refused \subseteq [endpoint : Endpoints, reason : Reasons]
    /\ pending \subseteq Endpoints
    /\ problems \subseteq Items
    /\ api \in Endpoints /\ plan \subseteq Days

(* The four parts together are the type invariant.                         *)
LEMMA TypeParts == TypeOK <=> CatalogType /\ HistoryType /\ CallType /\ RunType
BY DEF TypeOK, CatalogType, HistoryType, CallType, RunType, Statuses, CalendarJobs

(* A row is written with a status.                                         *)
LEMMA RecordType ==
    ASSUME CatalogType, NEW j, NEW status \in Statuses, Record(j, status)
    PROVE  row' \in [DateJobs -> Statuses]
BY DEF CatalogType, Record

(* However far a fetch comes, what it leaves is of the right kind.         *)
LEMMA FetchTypes ==
    ASSUME CatalogType, NEW j \in Jobs, NEW far, Reaches(j, far), MayBeHollow(j, far)
    PROVE  half' \subseteq Jobs /\ spoiled' \in BOOLEAN /\ hollow' \subseteq CalendarJobs
<1>1. half' \subseteq Jobs
  BY DEF CatalogType, Reaches
<1>2. spoiled' \in BOOLEAN
  BY DEF CatalogType, Reaches
<1>3. hollow' \subseteq CalendarJobs
  BY DEF CatalogType, MayBeHollow, CalendarJobs
<1> QED
  BY <1>1, <1>2, <1>3

(* A call that is over leaves nothing behind.                              *)
LEMMA IdleType == Idle => CallType' /\ RunType'
BY DaysAssumption, BoundsAssumption
   DEF Idle, CallType, RunType, Windows, Days, Endpoints

(* An item is one of the items.                                            *)
LEMMA ItemIsItem ==
    ASSUME NEW e \in Endpoints, NEW status \in {"failed", "blocked"}, NEW reason \in Reasons
    PROVE  Item(e, status, reason) \in Items
BY DEF Item, Items

(* The catalog keeps its types.                                            *)
LEMMA CatalogStep == TypeOK /\ JobsShape /\ [Next]_vars => CatalogType'
<1> SUFFICES ASSUME TypeOK, JobsShape, [Next]_vars
             PROVE  CatalogType'
  OBVIOUS
<1>0. CatalogType
  BY TypeParts
<1> USE <1>0 DEF catalog, history, bounds, call, backfill, NoFault, Fault, Trouble
<1>1. ASSUME NEW n \in Days, NEW c \in Caps, StartWindow(n, c)
      PROVE  CatalogType'
  BY <1>1 DEF StartWindow, Begin, CatalogType
<1>2. ASSUME NEW w \in Windows, NEW n \in Caps, StartDirect(w, n)
      PROVE  CatalogType'
  BY <1>2 DEF StartDirect, Begin, CatalogType
<1>3. ASSUME NEW n \in Caps, StartSmoke(n)
      PROVE  CatalogType'
  BY <1>3 DEF StartSmoke, Begin, CatalogType
<1>4. ASSUME NEW e \in Dailies, NEW w \in Windows, NEW n \in Caps, NEW b \in BOOLEAN, StartMissing(e, w, n, b)
      PROVE  CatalogType'
  BY <1>4 DEF StartMissing, CatalogType
<1>5. CASE ProbeAll
  BY <1>5 DEF ProbeAll, CatalogType
<1>6. ASSUME NEW e \in Endpoints, BlockedItem(e)
      PROVE  CatalogType'
  BY <1>6 DEF BlockedItem, Turn, Report, CatalogType
<1>7. ASSUME NEW e \in Endpoints, PlanBackfill(e)
      PROVE  CatalogType'
  BY <1>7 DEF PlanBackfill, CanBackfill, Turn, Report, CatalogType
<1>8. ASSUME NEW e \in Endpoints, FetchItemSkipped(e)
      PROVE  CatalogType'
  BY <1>8 DEF FetchItemSkipped, CanFetch, Turn, Report, CatalogType
<1>9. ASSUME NEW e \in Endpoints, FetchItemSucceeds(e)
      PROVE  CatalogType'
  <2>1. FetchJob(e, win) \in Jobs
    BY <1>9, FetchJobFacts DEF FetchItemSucceeds, CanFetch
  <2>2. row' \in [DateJobs -> Statuses]
    BY <1>9, RecordType DEF FetchItemSucceeds, FetchSucceeds, Statuses
  <2> QED
    BY <1>9, <2>1, <2>2 DEF FetchItemSucceeds, FetchSucceeds, CatalogType
<1>10. ASSUME NEW e \in Endpoints, FetchItemFails(e)
      PROVE  CatalogType'
  <2>1. FetchJob(e, win) \in Jobs
    BY <1>10, FetchJobFacts DEF FetchItemFails, CanFetch
  <2>2. row' \in [DateJobs -> Statuses]
    BY <1>10, RecordType DEF FetchItemFails, FetchFails, Statuses
  <2>3. half' \subseteq Jobs /\ spoiled' \in BOOLEAN /\ hollow' \subseteq CalendarJobs
    BY <1>10, <2>1, FetchTypes DEF FetchItemFails, FetchFails
  <2> QED
    BY <1>10, <2>1, <2>2, <2>3 DEF FetchItemFails, FetchFails, CatalogType
<1>11. CASE FetchItemEmpty
  <2>1. win \in Windows /\ CalendarJob(win) \in Jobs
    BY DEF TypeOK, Jobs
  <2>2. CalendarJob(win) \in CalendarJobs
    BY <2>1 DEF CalendarJobs
  <2>3. row' \in [DateJobs -> Statuses]
    BY <1>11, RecordType DEF FetchItemEmpty, FetchSucceeds, Statuses
  <2> QED
    BY <1>11, <2>1, <2>2, <2>3 DEF FetchItemEmpty, FetchSucceeds, CatalogType
<1>12. CASE JobSkipped
  BY <1>12 DEF JobSkipped, ToNextJob, Report, Idle, CatalogType
<1>13. CASE JobSucceeds
  <2>1. Job \in Jobs
    BY <1>13, JobFacts DEF JobSucceeds, Jobs
  <2>2. row' \in [DateJobs -> Statuses]
    BY <1>13, RecordType DEF JobSucceeds, FetchSucceeds, Statuses
  <2> QED
    BY <1>13, <2>1, <2>2 DEF JobSucceeds, FetchSucceeds, CatalogType
<1>14. CASE JobFails
  <2>1. Job \in Jobs
    BY <1>14, JobFacts DEF JobFails, Jobs
  <2>2. row' \in [DateJobs -> Statuses]
    BY <1>14, RecordType DEF JobFails, FetchFails, Statuses
  <2>3. half' \subseteq Jobs /\ spoiled' \in BOOLEAN /\ hollow' \subseteq CalendarJobs
    BY <1>14, <2>1, FetchTypes DEF JobFails, FetchFails
  <2> QED
    BY <1>14, <2>1, <2>2, <2>3 DEF JobFails, FetchFails, CatalogType
<1>15. CASE EndItems
  BY <1>15 DEF EndItems, CatalogType
<1>16. CASE PassLast
  BY <1>16 DEF PassLast, PassWindow, Idle, CatalogType
<1>17. CASE PassToNext
  BY <1>17 DEF PassToNext, PassWindow, CatalogType
<1>18. CASE RetryWindow
  BY <1>18 DEF RetryWindow, CatalogType
<1>19. CASE FailWindow
  BY <1>19 DEF FailWindow, Idle, CatalogType
<1>20. CASE CheckFails
  BY <1>20 DEF CheckFails, Idle, CatalogType
<1>21. CASE EndDirect
  BY <1>21 DEF EndDirect, Idle, CatalogType
<1>22. CASE Die
  <2>1. CASE UNCHANGED <<half, spoiled, hollow, row, staged>>
    BY <1>22, <2>1 DEF Die, CatalogType
  <2>2. ASSUME NEW j \in InFlight, NEW far \in Steps, Record(j, "running"),
               Reaches(j, far), MayBeHollow(j, far),
               staged' \in {staged, staged \union
                               (IF far = "committed" THEN {} ELSE {j} \intersect DateJobs)}
        PROVE  CatalogType'
    <3>1. j \in Jobs
      <4>1. CASE pc = "jobs"
        BY <2>2, <4>1, JobFacts DEF InFlight, Jobs
      <4>2. CASE pc # "jobs"
        BY <2>2, <4>2, FetchJobFacts DEF InFlight
      <4> QED
        BY <4>1, <4>2
    <3>2. row' \in [DateJobs -> Statuses]
      BY <2>2, RecordType DEF Statuses
    <3>3. half' \subseteq Jobs /\ spoiled' \in BOOLEAN /\ hollow' \subseteq CalendarJobs
      BY <2>2, <3>1, FetchTypes
    <3>4. staged' \subseteq DateJobs
      BY <2>2 DEF CatalogType
    <3> QED
      BY <1>22, <3>2, <3>3, <3>4 DEF Die, CatalogType
  <2> QED
    BY <1>22, <2>1, <2>2 DEF Die
<1>23. CASE UNCHANGED vars
  BY <1>23 DEF vars, CatalogType
<1> QED
  BY <1>1, <1>2, <1>3, <1>4, <1>5, <1>6, <1>7, <1>8, <1>9, <1>10, <1>11, <1>12,
     <1>13, <1>14, <1>15, <1>16, <1>17, <1>18, <1>19, <1>20, <1>21, <1>22, <1>23
  DEF Next, StartSync, StartOther, Continue

(* A passed window is one of the call.                                     *)
LEMMA PassedType ==
    ASSUME TypeOK, PassWindow
    PROVE  HistoryType'
<1>1. HistoryType /\ win \in Windows
  BY TypeParts DEF CallType
<1>2. Span(win) \subseteq Days /\ win[2] + 1 \in 1..(LastDay + 1)
  BY <1>1, DaysAssumption DEF Span, Windows, Days
<1> QED
  BY <1>1, <1>2 DEF PassWindow, HistoryType, bounds

(* The checkpoint, the announced jobs and the counters keep theirs.        *)
LEMMA HistoryStep == TypeOK /\ [Next]_vars => HistoryType'
<1> SUFFICES ASSUME TypeOK, [Next]_vars
             PROVE  HistoryType'
  OBVIOUS
<1>0. HistoryType
  BY TypeParts
<1> USE <1>0 DEF catalog, history, bounds, call, backfill, NoFault, Fault, Trouble
<1>1. ASSUME NEW n \in Days, NEW c \in Caps, StartWindow(n, c)
      PROVE  HistoryType'
  BY <1>1, BoundsAssumption DEF StartWindow, Begin, HistoryType
<1>2. ASSUME NEW w \in Windows, NEW n \in Caps, StartDirect(w, n)
      PROVE  HistoryType'
  <2>2. PlannedJobs(w, n) \subseteq Jobs
    BY PlannedJobFacts
  <2> QED
    BY <1>2, <2>2, BoundsAssumption DEF StartDirect, Begin, HistoryType
<1>3. ASSUME NEW n \in Caps, StartSmoke(n)
      PROVE  HistoryType'
  BY <1>3, BoundsAssumption DEF StartSmoke, Begin, HistoryType
<1>4. ASSUME NEW e \in Dailies, NEW w \in Windows, NEW n \in Caps, NEW b \in BOOLEAN, StartMissing(e, w, n, b)
      PROVE  HistoryType'
  BY <1>4, BoundsAssumption DEF StartMissing, HistoryType
<1>5. CASE ProbeAll
  BY <1>5, BoundsAssumption DEF ProbeAll, HistoryType
<1>6. ASSUME NEW e \in Endpoints, BlockedItem(e)
      PROVE  HistoryType'
  BY <1>6, BoundsAssumption DEF BlockedItem, Turn, Report, HistoryType
<1>7. ASSUME NEW e \in Endpoints, PlanBackfill(e)
      PROVE  HistoryType'
  BY <1>7, BoundsAssumption DEF PlanBackfill, CanBackfill, Turn, Report, HistoryType
<1>8. ASSUME NEW e \in Endpoints, FetchItemSkipped(e)
      PROVE  HistoryType'
  BY <1>8, BoundsAssumption DEF FetchItemSkipped, CanFetch, Turn, Report, HistoryType
<1>9. ASSUME NEW e \in Endpoints, FetchItemSucceeds(e)
      PROVE  HistoryType'
  BY <1>9, BoundsAssumption DEF FetchItemSucceeds, FetchSucceeds, CanFetch, Turn, Report, HistoryType
<1>10. ASSUME NEW e \in Endpoints, FetchItemFails(e)
      PROVE  HistoryType'
  BY <1>10, BoundsAssumption DEF FetchItemFails, FetchFails, CanFetch, Turn, Report, HistoryType
<1>11. CASE FetchItemEmpty
  BY <1>11, BoundsAssumption DEF FetchItemEmpty, CanFetch, Turn, Report, HistoryType
<1>12. CASE JobSkipped
  BY <1>12, BoundsAssumption DEF JobSkipped, ToNextJob, Report, Idle, HistoryType
<1>13. CASE JobSucceeds
  BY <1>13, BoundsAssumption DEF JobSucceeds, FetchSucceeds, ToNextJob, Report, Idle, HistoryType
<1>14. CASE JobFails
  BY <1>14, BoundsAssumption DEF JobFails, FetchFails, ToNextJob, Report, Idle, HistoryType
<1>15. CASE EndItems
  BY <1>15, BoundsAssumption DEF EndItems, HistoryType
<1>16. CASE PassLast
  BY <1>16, PassedType DEF PassLast
<1>17. CASE PassToNext
  BY <1>17, PassedType DEF PassToNext
<1>18. CASE RetryWindow
  BY <1>18, BoundsAssumption DEF RetryWindow, HistoryType
<1>19. CASE FailWindow
  BY <1>19, BoundsAssumption DEF FailWindow, Idle, HistoryType
<1>20. CASE CheckFails
  BY <1>20, BoundsAssumption DEF CheckFails, Idle, HistoryType
<1>21. CASE EndDirect
  BY <1>21, BoundsAssumption DEF EndDirect, Idle, HistoryType
<1>22. CASE Die
  BY <1>22, BoundsAssumption DEF Die, Idle, HistoryType
<1>23. CASE UNCHANGED vars
  BY <1>23, BoundsAssumption DEF vars, HistoryType
<1> QED
  BY <1>1, <1>2, <1>3, <1>4, <1>5, <1>6, <1>7, <1>8, <1>9, <1>10, <1>11, <1>12,
     <1>13, <1>14, <1>15, <1>16, <1>17, <1>18, <1>19, <1>20, <1>21, <1>22, <1>23
  DEF Next, StartSync, StartOther, Continue

(* The call keeps its types.                                               *)
LEMMA CallTypeStep == TypeOK /\ [Next]_vars => CallType'
<1> SUFFICES ASSUME TypeOK, [Next]_vars
             PROVE  CallType'
  OBVIOUS
<1>0. CallType /\ HistoryType
  BY TypeParts
<1> USE <1>0 DEF catalog, history, bounds, call, backfill, NoFault, Fault, Trouble
<1>1. ASSUME NEW n \in Days, NEW c \in Caps, StartWindow(n, c)
      PROVE  CallType'
  <2>1. next \in Days /\ n \in Nat \ {0}
    BY <1>1, DaysAssumption DEF StartWindow, Days, HistoryType
  <2>2. WindowFrom(next, n) \in Windows
    BY <2>1, WindowIsWindow
  <2> QED
    BY <1>1, <2>2, BoundsAssumption DEF StartWindow, Begin, CallType
<1>2. ASSUME NEW w \in Windows, NEW n \in Caps, StartDirect(w, n)
      PROVE  CallType'
  BY <1>2, IdleType DEF StartDirect, Begin, CallType
<1>3. ASSUME NEW n \in Caps, StartSmoke(n)
      PROVE  CallType'
  <2>1. <<1, SmokeDays>> \in Windows
    BY DaysAssumption DEF Windows, Days
  <2> QED
    BY <1>3, <2>1 DEF StartSmoke, Begin, CallType
<1>4. ASSUME NEW e \in Dailies, NEW w \in Windows, NEW n \in Caps, NEW b \in BOOLEAN, StartMissing(e, w, n, b)
      PROVE  CallType'
  BY <1>4, IdleType DEF StartMissing, CallType
<1>5. CASE ProbeAll
  BY <1>5, IdleType DEF ProbeAll, CallType
<1>6. ASSUME NEW e \in Endpoints, BlockedItem(e)
      PROVE  CallType'
  BY <1>6, IdleType DEF BlockedItem, Turn, Report, CallType
<1>7. ASSUME NEW e \in Endpoints, PlanBackfill(e)
      PROVE  CallType'
  BY <1>7, IdleType DEF PlanBackfill, CanBackfill, Turn, Report, CallType
<1>8. ASSUME NEW e \in Endpoints, FetchItemSkipped(e)
      PROVE  CallType'
  BY <1>8, IdleType DEF FetchItemSkipped, CanFetch, Turn, Report, CallType
<1>9. ASSUME NEW e \in Endpoints, FetchItemSucceeds(e)
      PROVE  CallType'
  BY <1>9, IdleType DEF FetchItemSucceeds, FetchSucceeds, CanFetch, Turn, Report, CallType
<1>10. ASSUME NEW e \in Endpoints, FetchItemFails(e)
      PROVE  CallType'
  BY <1>10, IdleType DEF FetchItemFails, FetchFails, CanFetch, Turn, Report, CallType
<1>11. CASE FetchItemEmpty
  BY <1>11, IdleType DEF FetchItemEmpty, CanFetch, Turn, Report, CallType
<1>12. CASE JobSkipped
  BY <1>12, IdleType DEF JobSkipped, ToNextJob, CallType
<1>13. CASE JobSucceeds
  BY <1>13, IdleType DEF JobSucceeds, ToNextJob, CallType
<1>14. CASE JobFails
  BY <1>14, IdleType DEF JobFails, ToNextJob, CallType
<1>15. CASE EndItems
  BY <1>15, IdleType DEF EndItems, CallType
<1>16. CASE PassLast
  BY <1>16, IdleType DEF PassLast
<1>17. CASE PassToNext
  <2>1. Cardinality(Span(win)) \in Nat \ {0} /\ win[2] + 1 \in Days
    BY <1>17, SpanSize, DaysAssumption DEF PassToNext, CallType, Windows, Days
  <2>2. WindowFrom(win[2] + 1, Cardinality(Span(win))) \in Windows
    BY <2>1, WindowIsWindow
  <2> QED
    BY <1>17, <2>2, BoundsAssumption DEF PassToNext, CallType
<1>18. CASE RetryWindow
  BY <1>18, BoundsAssumption DEF RetryWindow, CallType
<1>19. CASE FailWindow
  BY <1>19, IdleType DEF FailWindow
<1>20. CASE CheckFails
  BY <1>20, IdleType DEF CheckFails
<1>21. CASE EndDirect
  BY <1>21, IdleType DEF EndDirect
<1>22. CASE Die
  BY <1>22, IdleType DEF Die
<1>23. CASE UNCHANGED vars
  BY <1>23, IdleType DEF vars, CallType
<1> QED
  BY <1>1, <1>2, <1>3, <1>4, <1>5, <1>6, <1>7, <1>8, <1>9, <1>10, <1>11, <1>12,
     <1>13, <1>14, <1>15, <1>16, <1>17, <1>18, <1>19, <1>20, <1>21, <1>22, <1>23
  DEF Next, StartSync, StartOther, Continue

(* The run keeps its types.                                                *)
LEMMA RunTypeStep == TypeOK /\ [Next]_vars => RunType'
<1> SUFFICES ASSUME TypeOK, [Next]_vars
             PROVE  RunType'
  OBVIOUS
<1>0. RunType
  BY TypeParts
<1> USE <1>0 DEF catalog, history, bounds, call, backfill, NoFault, Fault, Trouble
<1>1. ASSUME NEW n \in Days, NEW c \in Caps, StartWindow(n, c)
      PROVE  RunType'
  BY <1>1 DEF StartWindow, Begin, RunType
<1>2. ASSUME NEW w \in Windows, NEW n \in Caps, StartDirect(w, n)
      PROVE  RunType'
  BY <1>2 DEF StartDirect, Begin, RunType
<1>3. ASSUME NEW n \in Caps, StartSmoke(n)
      PROVE  RunType'
  BY <1>3 DEF StartSmoke, Begin, RunType
<1>4. ASSUME NEW e \in Dailies, NEW w \in Windows, NEW n \in Caps, NEW b \in BOOLEAN, StartMissing(e, w, n, b)
      PROVE  RunType'
  <2>1. plan' \subseteq TradingDays(w)
    BY <1>4 DEF StartMissing, Cut, StatusDays
  <2>2. plan' \subseteq Days /\ e \in Endpoints
    BY <2>1, DatesAreDays DEF Endpoints
  <2> QED
    BY <1>4, <2>2 DEF StartMissing, RunType
<1>5. CASE ProbeAll
  <2>1. ScopeEndpoints \subseteq Endpoints
    BY DEF ScopeEndpoints, Endpoints
  <2> QED
    BY <1>5, <2>1 DEF ProbeAll, RunType, Reasons
<1>6. ASSUME NEW e \in Endpoints, BlockedItem(e)
      PROVE  RunType'
  <2>1. Refused(e) => ProbeReason(e) \in Reasons
    <3>1. ASSUME NEW p \in refused, p.endpoint = e
          PROVE  ProbeReason(e) \in Reasons
      <4>1. (CHOOSE q \in refused : q.endpoint = e) \in refused
        BY <3>1
      <4> QED
        BY <4>1 DEF ProbeReason, RunType
    <3> QED
      BY <3>1 DEF Refused
  <2> DEFINE reason == IF MissesCalendar(e) THEN "missing_calendar" ELSE ProbeReason(e)
  <2>2. reason \in Reasons
    BY <1>6, <2>1 DEF BlockedItem, Reasons
  <2>3. Report(e, {Item(e, "blocked", reason)})
        /\ UNCHANGED <<refused, api, plan>>
    BY <1>6 DEF BlockedItem
  <2> HIDE DEF reason
  <2>4. Item(e, "blocked", reason) \in Items
    BY <2>2, ItemIsItem
  <2> QED
    BY <2>3, <2>4 DEF Report, RunType
<1>7. ASSUME NEW e \in Endpoints, PlanBackfill(e)
      PROVE  RunType'
  <2>1. e \in Dated
    BY <1>7 DEF PlanBackfill, CanBackfill, Dated
  <2>2. PlannedDates(e) \subseteq Days
    BY <2>1, PlannedAreDays
  <2> QED
    BY <1>7, <2>2 DEF PlanBackfill, Report, RunType
<1>8. ASSUME NEW e \in Endpoints, FetchItemSkipped(e)
      PROVE  RunType'
  BY <1>8 DEF FetchItemSkipped, CanFetch, Turn, Report, RunType
<1>9. ASSUME NEW e \in Endpoints, FetchItemSucceeds(e)
      PROVE  RunType'
  BY <1>9 DEF FetchItemSucceeds, FetchSucceeds, CanFetch, Turn, Report, RunType
<1>10. ASSUME NEW e \in Endpoints, FetchItemFails(e)
      PROVE  RunType'
  <2>1. \A r \in {"transient", "permanent"} : Item(e, "failed", r) \in Items
    BY <1>10, ItemIsItem DEF Reasons
  <2> QED
    BY <1>10, <2>1 DEF FetchItemFails, Report, RunType
<1>11. CASE FetchItemEmpty
  BY <1>11 DEF FetchItemEmpty, CanFetch, Turn, Report, RunType
<1>12. CASE JobSkipped
  <2>1. api \in Endpoints /\ Item(api, "failed", "transient") \in Items
    BY <1>12, ItemIsItem DEF RunType, Reasons
  <2> QED
    BY <1>12, <2>1, IdleType DEF JobSkipped, ToNextJob, Report, Failure, RunType, Endpoints
<1>13. CASE JobSucceeds
  <2>1. api \in Endpoints /\ Item(api, "failed", "transient") \in Items
    BY <1>13, ItemIsItem DEF RunType, Reasons
  <2> QED
    BY <1>13, <2>1, IdleType DEF JobSucceeds, ToNextJob, Report, Failure, RunType, Endpoints
<1>14. CASE JobFails
  <2>1. api \in Endpoints /\ Item(api, "failed", "transient") \in Items
    BY <1>14, ItemIsItem DEF RunType, Reasons
  <2> QED
    BY <1>14, <2>1, IdleType DEF JobFails, ToNextJob, Report, Failure, RunType, Endpoints
<1>15. CASE EndItems
  BY <1>15 DEF EndItems, RunType
<1>16. CASE PassLast
  BY <1>16, IdleType DEF PassLast
<1>17. CASE PassToNext
  BY <1>17 DEF PassToNext, PassWindow, RunType
<1>18. CASE RetryWindow
  BY <1>18 DEF RetryWindow, RunType
<1>19. CASE FailWindow
  BY <1>19, IdleType DEF FailWindow
<1>20. CASE CheckFails
  BY <1>20, IdleType DEF CheckFails
<1>21. CASE EndDirect
  BY <1>21, IdleType DEF EndDirect
<1>22. CASE Die
  BY <1>22, IdleType DEF Die
<1>23. CASE UNCHANGED vars
  BY <1>23 DEF vars, RunType
<1> QED
  BY <1>1, <1>2, <1>3, <1>4, <1>5, <1>6, <1>7, <1>8, <1>9, <1>10, <1>11, <1>12,
     <1>13, <1>14, <1>15, <1>16, <1>17, <1>18, <1>19, <1>20, <1>21, <1>22, <1>23
  DEF Next, StartSync, StartOther, Continue

(* Every variable keeps its type.                                          *)
LEMMA TypeStep == TypeOK /\ JobsShape /\ [Next]_vars => TypeOK'
<1>1. CatalogType' /\ HistoryType' /\ CallType' /\ RunType' => TypeOK'
  BY DEF TypeOK, CatalogType, HistoryType, CallType, RunType, Statuses,
         CalendarJobs
<1> QED
  BY <1>1, CatalogStep, HistoryStep, CallTypeStep, RunTypeStep

-----------------------------------------------------------------------------
(* What a passed window leaves behind it *)

(* Where neither a probe nor the calendar is an excuse, no item kept the   *)
(* jobs of the window out.                                                 *)
LEMMA WindowDone ==
    ASSUME TypeOK, CallShape, SyncWindow, ItemsDone, BlockedWhy, PassWindow,
           NEW e \in Dated \intersect ScopeEndpoints, ~Refused(e),
           NEW d \in KnownDays, d \in DatesOf(e, win)
    PROVE  DateJob(e, d) \in active
<1>1. pc = "check" /\ caller = "sync" /\ RunSucceeded /\ e \notin pending
  BY DEF PassWindow, CallShape
<1>2. HasCalendar
  BY DEF HasCalendar, KnownDays
<1>3. ~HasItem(e)
  <2> SUFFICES ASSUME NEW i \in problems, i.endpoint = e
               PROVE  FALSE
    BY DEF HasItem
  <2>1. i.status # "failed" /\ ~CalendarFailed
    BY <1>1 DEF RunSucceeded
  <2>2. i.status = "blocked"
    BY <2>1 DEF TypeOK, Items
  <2> QED
    BY <1>2, <2>1, <2>2 DEF BlockedWhy
<1>4. win \in Windows /\ cap \in Nat /\ Cardinality(Span(win)) <= cap
  BY <1>1, BoundsAssumption DEF TypeOK, SyncWindow
<1>5. DatesOf(e, win) \subseteq Span(win)
  BY <1>1, <1>4, DatesAreDays DEF DatesOf, TradingDays
<1>6. PlannedDates(e) = DatesOf(e, win)
  BY <1>4, <1>5, CutAll DEF PlannedDates
<1> QED
  BY <1>1, <1>3, <1>6 DEF ItemsDone

(* A day that a passed window adds to those before the checkpoint is one   *)
(* of the window.                                                          *)
LEMMA NewDays ==
    ASSUME TypeOK, SyncWindow, PassWindow, NEW d \in Days, d < next', ~(d < next)
    PROVE  d \in Span(win)
<1>1. win \in Windows /\ win[1] = next /\ next' = win[2] + 1
  BY DEF PassWindow, SyncWindow, TypeOK
<1> QED
  BY <1>1, DaysAssumption DEF Span, Windows, Days

(* The excuses of a passed window.                                         *)
LEMMA NewExcuses ==
    ASSUME PassWindow, NEW e \in Dated, NEW d \in Span(win), <<e, d>> \notin excused'
    PROVE  ~Refused(e) /\ d \in KnownDays
BY DEF PassWindow, Dated

(* The window leaves no open day of a daily endpoint out.                  *)
LEMMA PassCheckpoint ==
    ASSUME TypeOK, CallShape, SyncWindow, ItemsDone, BlockedWhy, CheckpointComplete, PassWindow
    PROVE  CheckpointComplete'
<1> SUFFICES ASSUME NEW e \in Dailies, NEW d \in OpenDays, d < next', <<e, d>> \notin excused'
             PROVE  DateJob(e, d) \in active
  BY DEF CheckpointComplete, PassWindow, catalog
<1>1. CASE d < next
  BY <1>1 DEF CheckpointComplete, PassWindow
<1>2. CASE ~(d < next)
  <2>1. d \in Span(win)
    BY <1>2, NewDays, DaysAssumption DEF Days
  <2>2. ~Refused(e) /\ d \in KnownDays
    BY <2>1, NewExcuses DEF Dated
  <2>3. d \in DatesOf(e, win)
    BY <2>1, <2>2 DEF DatesOf, TradingDays, KnownOpen
  <2> QED
    BY <2>2, <2>3, WindowDone DEF Dated, ScopeEndpoints
<1> QED
  BY <1>1, <1>2

(* Nor does it a day that closes its period, wherever windows begin.       *)
LEMMA PassSettled ==
    ASSUME TypeOK, CallShape, SyncWindow, ItemsDone, BlockedWhy, SettledPeriodsKept, PassWindow
    PROVE  SettledPeriodsKept'
<1> SUFFICES ASSUME scope = "a_share", NEW e \in Periodics,
                    NEW d \in LastIn(e, OpenDays) \ PilotDays,
                    d < next', Settled(e, d), <<e, d>> \notin excused'
             PROVE  DateJob(e, d) \in active
  BY DEF SettledPeriodsKept, PassWindow, catalog
<1>0. d \in OpenDays /\ d \in Days
  BY DaysAssumption DEF LastIn, Days
<1>1. CASE d < next
  BY <1>1 DEF SettledPeriodsKept, PassWindow
<1>2. CASE ~(d < next)
  <2>1. d \in Span(win)
    BY <1>0, <1>2, NewDays
  <2>2. ~Refused(e) /\ d \in KnownDays
    BY <2>1, NewExcuses DEF Dated
  <2>3. caller = "sync" /\ e \notin Dailies
    BY EndpointsAssumption DEF PassWindow, Periodics
  <2> DEFINE touched == {x \in Days : \E y \in Span(win) : SamePeriod(e, x, y)}
  <2>4. d \in touched \intersect KnownOpen
    BY <1>0, <2>1, <2>2 DEF SamePeriod, KnownOpen
  <2>5. touched \intersect KnownOpen \subseteq OpenDays
    BY DEF KnownOpen
  <2> HIDE DEF touched
  <2>6. d \in LastIn(e, touched \intersect KnownOpen)
    BY <2>4, <2>5 DEF LastIn
  <2>7. d \in CalendarPeriodDates(e, win)
    BY <2>1, <2>6 DEF CalendarPeriodDates, CandidateComplete, touched
  <2>8. d \in DatesOf(e, win)
    BY <2>1, <2>2, <2>3, <2>7 DEF DatesOf, PeriodDates
  <2> QED
    BY <2>2, <2>8, WindowDone DEF Dated, ScopeEndpoints
<1> QED
  BY <1>1, <1>2

(* Data that is there stays there.                                         *)
LEMMA CheckpointKept ==
    ASSUME CheckpointComplete, next' = next, excused' = excused, active \subseteq active'
    PROVE  CheckpointComplete'
BY DEF CheckpointComplete

(* What no window has passed yet is not spoken of, and data stays.         *)
LEMMA SettledKept ==
    ASSUME SettledPeriodsKept, scope' = scope, next' = next, excused' = excused,
           active \subseteq active'
    PROVE  SettledPeriodsKept'
BY DEF SettledPeriodsKept

(* The checkpoint moves by a passed window only, and no data is lost.      *)
LEMMA CheckpointStep == TypeOK /\ CallShape /\ SyncWindow /\ ItemsDone /\ BlockedWhy /\ CheckpointComplete /\ [Next]_vars => CheckpointComplete'
<1> SUFFICES ASSUME TypeOK, CallShape, SyncWindow, ItemsDone, BlockedWhy, CheckpointComplete, [Next]_vars
             PROVE  CheckpointComplete'
  OBVIOUS
<1> USE DEF catalog, history, bounds, call, backfill, NoFault, Fault, Trouble
<1>1. ASSUME NEW n \in Days, NEW c \in Caps, StartWindow(n, c)
      PROVE  CheckpointComplete'
  BY <1>1, CheckpointKept DEF StartWindow, Begin
<1>2. ASSUME NEW w \in Windows, NEW n \in Caps, StartDirect(w, n)
      PROVE  CheckpointComplete'
  BY <1>2, CheckpointKept DEF StartDirect, Begin
<1>3. ASSUME NEW n \in Caps, StartSmoke(n)
      PROVE  CheckpointComplete'
  BY <1>3, CheckpointKept DEF StartSmoke, Begin
<1>4. ASSUME NEW e \in Dailies, NEW w \in Windows, NEW n \in Caps, NEW b \in BOOLEAN, StartMissing(e, w, n, b)
      PROVE  CheckpointComplete'
  BY <1>4, CheckpointKept DEF StartMissing
<1>5. CASE ProbeAll
  BY <1>5, CheckpointKept DEF ProbeAll
<1>6. ASSUME NEW e \in Endpoints, BlockedItem(e)
      PROVE  CheckpointComplete'
  BY <1>6, CheckpointKept DEF BlockedItem, Turn, Report
<1>7. ASSUME NEW e \in Endpoints, PlanBackfill(e)
      PROVE  CheckpointComplete'
  BY <1>7, CheckpointKept DEF PlanBackfill, CanBackfill, Turn, Report
<1>8. ASSUME NEW e \in Endpoints, FetchItemSkipped(e)
      PROVE  CheckpointComplete'
  BY <1>8, CheckpointKept DEF FetchItemSkipped, CanFetch, Turn, Report
<1>9. ASSUME NEW e \in Endpoints, FetchItemSucceeds(e)
      PROVE  CheckpointComplete'
  BY <1>9, CheckpointKept DEF FetchItemSucceeds, FetchSucceeds, CanFetch, Turn, Report
<1>10. ASSUME NEW e \in Endpoints, FetchItemFails(e)
      PROVE  CheckpointComplete'
  BY <1>10, CheckpointKept DEF FetchItemFails, FetchFails, CanFetch, Turn, Report
<1>11. CASE FetchItemEmpty
  BY <1>11, CheckpointKept DEF FetchItemEmpty, FetchSucceeds
<1>12. CASE JobSkipped
  BY <1>12, CheckpointKept DEF JobSkipped, ToNextJob, Report, Idle
<1>13. CASE JobSucceeds
  BY <1>13, CheckpointKept DEF JobSucceeds, FetchSucceeds, ToNextJob, Report, Idle
<1>14. CASE JobFails
  BY <1>14, CheckpointKept DEF JobFails, FetchFails, ToNextJob, Report, Idle
<1>15. CASE EndItems
  BY <1>15, CheckpointKept DEF EndItems
<1>16. CASE PassLast
  BY <1>16, PassCheckpoint DEF PassLast
<1>17. CASE PassToNext
  BY <1>17, PassCheckpoint DEF PassToNext
<1>18. CASE RetryWindow
  BY <1>18, CheckpointKept DEF RetryWindow
<1>19. CASE FailWindow
  BY <1>19, CheckpointKept DEF FailWindow, Idle
<1>20. CASE CheckFails
  BY <1>20, CheckpointKept DEF CheckFails, Idle
<1>21. CASE EndDirect
  BY <1>21, CheckpointKept DEF EndDirect, Idle
<1>22. CASE Die
  BY <1>22, CheckpointKept DEF Die, Idle
<1>23. CASE UNCHANGED vars
  BY <1>23, CheckpointKept DEF vars
<1> QED
  BY <1>1, <1>2, <1>3, <1>4, <1>5, <1>6, <1>7, <1>8, <1>9, <1>10, <1>11, <1>12,
     <1>13, <1>14, <1>15, <1>16, <1>17, <1>18, <1>19, <1>20, <1>21, <1>22, <1>23
  DEF Next, StartSync, StartOther, Continue

(* The same for the dates that close a period.                             *)
LEMMA SettledStep == TypeOK /\ CallShape /\ SyncWindow /\ ItemsDone /\ BlockedWhy /\ SettledPeriodsKept /\ [Next]_vars => SettledPeriodsKept'
<1> SUFFICES ASSUME TypeOK, CallShape, SyncWindow, ItemsDone, BlockedWhy, SettledPeriodsKept, [Next]_vars
             PROVE  SettledPeriodsKept'
  OBVIOUS
<1> USE DEF catalog, history, bounds, call, backfill, NoFault, Fault, Trouble
<1>1. ASSUME NEW n \in Days, NEW c \in Caps, StartWindow(n, c)
      PROVE  SettledPeriodsKept'
  BY <1>1, SettledKept DEF StartWindow, Begin
<1>2. ASSUME NEW w \in Windows, NEW n \in Caps, StartDirect(w, n)
      PROVE  SettledPeriodsKept'
  BY <1>2, SettledKept DEF StartDirect, Begin
<1>3. ASSUME NEW n \in Caps, StartSmoke(n)
      PROVE  SettledPeriodsKept'
  BY <1>3, SettledKept DEF StartSmoke, Begin
<1>4. ASSUME NEW e \in Dailies, NEW w \in Windows, NEW n \in Caps, NEW b \in BOOLEAN, StartMissing(e, w, n, b)
      PROVE  SettledPeriodsKept'
  BY <1>4, SettledKept DEF StartMissing
<1>5. CASE ProbeAll
  BY <1>5, SettledKept DEF ProbeAll
<1>6. ASSUME NEW e \in Endpoints, BlockedItem(e)
      PROVE  SettledPeriodsKept'
  BY <1>6, SettledKept DEF BlockedItem, Turn, Report
<1>7. ASSUME NEW e \in Endpoints, PlanBackfill(e)
      PROVE  SettledPeriodsKept'
  BY <1>7, SettledKept DEF PlanBackfill, CanBackfill, Turn, Report
<1>8. ASSUME NEW e \in Endpoints, FetchItemSkipped(e)
      PROVE  SettledPeriodsKept'
  BY <1>8, SettledKept DEF FetchItemSkipped, CanFetch, Turn, Report
<1>9. ASSUME NEW e \in Endpoints, FetchItemSucceeds(e)
      PROVE  SettledPeriodsKept'
  BY <1>9, SettledKept DEF FetchItemSucceeds, FetchSucceeds, CanFetch, Turn, Report
<1>10. ASSUME NEW e \in Endpoints, FetchItemFails(e)
      PROVE  SettledPeriodsKept'
  BY <1>10, SettledKept DEF FetchItemFails, FetchFails, CanFetch, Turn, Report
<1>11. CASE FetchItemEmpty
  BY <1>11, SettledKept DEF FetchItemEmpty, FetchSucceeds
<1>12. CASE JobSkipped
  BY <1>12, SettledKept DEF JobSkipped, ToNextJob, Report, Idle
<1>13. CASE JobSucceeds
  BY <1>13, SettledKept DEF JobSucceeds, FetchSucceeds, ToNextJob, Report, Idle
<1>14. CASE JobFails
  BY <1>14, SettledKept DEF JobFails, FetchFails, ToNextJob, Report, Idle
<1>15. CASE EndItems
  BY <1>15, SettledKept DEF EndItems
<1>16. CASE PassLast
  BY <1>16, PassSettled DEF PassLast
<1>17. CASE PassToNext
  BY <1>17, PassSettled DEF PassToNext
<1>18. CASE RetryWindow
  BY <1>18, SettledKept DEF RetryWindow
<1>19. CASE FailWindow
  BY <1>19, SettledKept DEF FailWindow, Idle
<1>20. CASE CheckFails
  BY <1>20, SettledKept DEF CheckFails, Idle
<1>21. CASE EndDirect
  BY <1>21, SettledKept DEF EndDirect, Idle
<1>22. CASE Die
  BY <1>22, SettledKept DEF Die, Idle
<1>23. CASE UNCHANGED vars
  BY <1>23, SettledKept DEF vars
<1> QED
  BY <1>1, <1>2, <1>3, <1>4, <1>5, <1>6, <1>7, <1>8, <1>9, <1>10, <1>11, <1>12,
     <1>13, <1>14, <1>15, <1>16, <1>17, <1>18, <1>19, <1>20, <1>21, <1>22, <1>23
  DEF Next, StartSync, StartOther, Continue

-----------------------------------------------------------------------------
(* The theorems *)

(* An empty catalog has nothing to answer for.                             *)
LEMMA RunInit == Init => RunInv
<1> SUFFICES ASSUME Init
             PROVE  RunInv
  OBVIOUS
<1> USE DaysAssumption, BoundsAssumption DEF Init
<1>1. TypeOK
  <2>1. <<1, 1>> \in Windows /\ Cal \in Endpoints
    BY DEF Windows, Days, Endpoints
  <2>2. row \in [DateJobs -> {"none", "running", "failed", "done"}]
    OBVIOUS
  <2>3. next \in 1..(LastDay + 1) /\ trouble \in 0..MaxTrouble /\ attempt \in 0..MaxAttempts
    OBVIOUS
  <2> QED
    BY <2>1, <2>2, <2>3, Zenon DEF TypeOK
<1>2. CallShape /\ CalendarFirst /\ JobsShape /\ SyncWindow
  BY DEF CallShape, CalendarFirst, JobsShape, SyncWindow, InRun
<1>3. ItemsDone /\ JobsDone /\ BlockedWhy /\ AnnouncedPlanned /\ RowsClean
  BY DEF ItemsDone, JobsDone, BlockedWhy, AnnouncedPlanned, RowsClean, InRun
<1>4. CheckpointComplete
  BY DEF CheckpointComplete
<1>5. SettledPeriodsKept
  BY DEF SettledPeriodsKept, LastIn
<1>6. OpenDaysOnly
  BY DateJobFacts DEF OpenDaysOnly, Dated
<1> QED
  BY <1>1, <1>2, <1>3, <1>4, <1>5, <1>6 DEF RunInv

(* The inductive invariant: what runs of every kind and the window loop    *)
(* keep, whatever fails, is quarantined or is killed.                      *)
THEOREM RunInvariant == Spec => []RunInv
<1>1. RunInv /\ [Next]_vars => RunInv'
  <2> SUFFICES ASSUME RunInv, [Next]_vars
               PROVE  RunInv'
    OBVIOUS
  <2> USE DEF RunInv
  <2>1. TypeOK' /\ CallShape' /\ CalendarFirst' /\ JobsShape' /\ SyncWindow'
    BY TypeStep, CallStep, CalendarStep, ShapeStep, WindowStep
  <2>2. ItemsDone' /\ JobsDone' /\ BlockedWhy' /\ AnnouncedPlanned' /\ RowsClean'
    BY ItemsStep, JobsStep, BlockedStep, AnnouncedStep, RowsStep
  <2>3. CheckpointComplete' /\ SettledPeriodsKept' /\ OpenDaysOnly'
    BY CheckpointStep, SettledStep, OpenDaysStep
  <2> QED
    BY <2>1, <2>2, <2>3
<1> QED
  BY <1>1, RunInit, PTL DEF Spec

(* Every variable keeps its type.                                          *)
THEOREM MirrorTypeCorrect == Spec => []TypeOK
<1>1. RunInv => TypeOK
  BY DEF RunInv
<1> QED
  BY <1>1, RunInvariant, PTL

(* The checkpoint of the window loop stands for data: of each open day     *)
(* before it every daily endpoint has active data, but for what the probes *)
(* refused or the calendar did not know; for any sequence of calls, window *)
(* sizes, caps, failures and kills.                                        *)
THEOREM CheckpointStandsForData == Spec => []CheckpointComplete
<1>1. RunInv => CheckpointComplete
  BY DEF RunInv
<1> QED
  BY <1>1, RunInvariant, PTL

(* No cut of a range into windows loses a day that closes its period.      *)
THEOREM WindowsKeepPeriods == Spec => []SettledPeriodsKept
<1>1. RunInv => SettledPeriodsKept
  BY DEF RunInv
<1> QED
  BY <1>1, RunInvariant, PTL

(* No daily endpoint ever has a job of a day without trade.                *)
THEOREM NoNaturalDayFallback == Spec => []OpenDaysOnly
<1>1. RunInv => OpenDaysOnly
  BY DEF RunInv
<1> QED
  BY <1>1, RunInvariant, PTL

(* A direct run without a problem kept what the plan before it announced.  *)
THEOREM AnnouncedIsDone == Spec => []PlanKept
<1>1. RunInv => PlanKept
  <2> SUFFICES ASSUME RunInv, pc = "check", caller = "direct", problems = {}, Valid,
                      NEW j \in announced
               PROVE  j \in active
    BY DEF PlanKept
  <2> USE DEF RunInv
  <2>1. PICK e \in Dailies, d \in TradingDays(win) : j = DateJob(e, d)
    BY DEF AnnouncedPlanned
  <2>2. win \in Windows /\ cap \in Nat /\ Cardinality(Span(win)) <= cap
    BY BoundsAssumption DEF TypeOK, AnnouncedPlanned
  <2>3. DatesOf(e, win) = TradingDays(win) /\ TradingDays(win) \subseteq Span(win)
    BY DEF DatesOf, TradingDays
  <2>4. PlannedDates(e) = TradingDays(win)
    BY <2>2, <2>3, CutAll DEF PlannedDates
  <2>5. e \in Dated \intersect ScopeEndpoints /\ e \notin pending /\ ~HasItem(e)
    BY DEF Dated, ScopeEndpoints, CallShape, HasItem
  <2> QED
    BY <2>1, <2>4, <2>5 DEF ItemsDone
<1> QED
  BY <1>1, RunInvariant, PTL

(* Where nothing was killed, a range the coverage matrix calls complete is *)
(* covered: no job hides behind a status that is not counted.              *)
THEOREM CompleteIsCovered == Spec => []CompleteUnlessKilled
<1>1. RunInv => CompleteUnlessKilled
  <2> SUFFICES ASSUME RunInv, ~killed, NEW e \in Dailies, NEW w \in Windows,
                      Complete(e, w), NEW d \in TradingDays(w)
               PROVE  DateJob(e, d) \in active
    BY DEF CompleteUnlessKilled, CompleteMeansCovered
  <2> DEFINE j == DateJob(e, d)
  <2>1. d \in Days
    BY DatesAreDays
  <2>2. j \in DateJobs
    BY <2>1, DateJobFacts DEF Dated
  <2>3. ExistingStatus(j) \notin {"missing", "failed_exists", "quarantined_exists"}
    BY DEF Complete
  <2> HIDE DEF j
  <2>4. staged = {} /\ (row[j] \in {"none", "failed"} \/ j \in active)
    BY <2>2 DEF RunInv, RowsClean
  <2>5. j \in active
    BY <2>3, <2>4 DEF ExistingStatus
  <2> QED
    BY <2>5 DEF j
<1> QED
  BY <1>1, RunInvariant, PTL
=============================================================================
