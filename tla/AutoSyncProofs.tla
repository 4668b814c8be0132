--------------------------- MODULE AutoSyncProofs ---------------------------
(***************************************************************************)
(* Theorems about AutoSync for any number of calls, days, window sizes,    *)
(* attempts and kills, and for both versions of the state file: the        *)
(* checkpoint is covered by verified windows, the lock file has one holder *)
(* and a living one but for the errors and kills that are named, the       *)
(* status report announces the start of the next call, and calls that come *)
(* one after the other repeat no completed window.                         *)
(***************************************************************************)
EXTENDS AutoSync, TLAPS

Writing == {"openTmp", "fillTmp", "replace"}

(* Every day before n has been verified.                                   *)
Covered(n) == \A d \in Days : d < n => d \in verified

(* ... and so has every day before the two windows a payload may resume.   *)
StateCovered(s) == Covered(s.next) /\ Covered(s.progress.start)

(* A call has a start and a size; past the gate its window starts by its   *)
(* to-date.                                                                *)
InPlan ==
    \A p \in Procs :
        /\ pc[p] # "idle" => cur[p] >= 1 /\ size[p] \in WindowSizes
        /\ pc[p] \notin {"idle", "gate"} => cur[p] <= to[p]

(* Files, payloads and windows all start where the verified days end, and  *)
(* a call that records a success has its window verified.                  *)
AllCovered ==
    /\ StateCovered(file)
    /\ StateCovered(tmp)
    /\ \A p \in Procs :
        /\ StateCovered(payload[p])
        /\ Covered(cur[p])
        /\ pc[p] = "succeeded" => Covered(LastOf(p) + 1)
        /\ pc[p] \in Writing /\ after[p] = "next" => Covered(LastOf(p) + 1)

(* A lock file is released by the steps between its creation and the next  *)
(* window, so that a call that ends past them holds none.                  *)
HolderWorks ==
    \A p \in Procs : acquired[p] =>
        \/ pc[p] \in {"run", "succeeded", "failed"}
        \/ pc[p] \in Writing /\ after[p] = "run"

(* Completed windows end before the window that comes next.                *)
EndBefore(windows, n) == \A w \in windows : w.end < n

StateOrdered(s) ==
    /\ EndBefore(s.completed, s.next)
    /\ s.progress # NoWindow =>
        V2 /\ s.progress.start <= s.progress.end /\ EndBefore(s.completed, s.progress.start)

AllOrdered ==
    /\ StateOrdered(file)
    /\ StateOrdered(tmp)
    /\ \A p \in Procs :
        /\ StateOrdered(payload[p])
        /\ EndBefore(payload[p].completed,
                     IF pc[p] \in Writing /\ after[p] = "next" THEN LastOf(p) + 1 ELSE cur[p])

(* Recorded days end before what a payload resumes.                        *)
Beyond(s) ==
    /\ \A d \in recorded : d < s.next
    /\ s.progress # NoWindow => \A d \in recorded : d < s.progress.start

(* Until two calls meet over the state file, file, payload and window of   *)
(* every call start past the recorded days, and what a call has written is *)
(* there when it goes on, ...                                              *)
Remembered ==
    ~overlap =>
        /\ Beyond(file)
        /\ \A p \in Procs :
            /\ pc[p] # "idle" => Beyond(payload[p]) /\ \A d \in recorded : d < cur[p]
            /\ pc[p] = "fillTmp" => fd[p] = "tmp"
            /\ pc[p] = "replace" => tmp = payload[p]

(* ... since one call writes at a time.                                    *)
OneWriter ==
    ~overlap => \A p, q \in Procs :
        pc[p] \in {"fillTmp", "replace"} /\ pc[q] \in {"fillTmp", "replace"} => p = q

(* The inductive invariant.                                                *)
SyncInv ==
    /\ TypeOK /\ InPlan /\ AllCovered /\ OneLockHolder
    /\ HolderWorks /\ LockHasOwner /\ AllOrdered /\ Remembered
    /\ OneWriter

-----------------------------------------------------------------------------
(* A window that is worked on ends between its first day and the to-date.  *)
LEMMA WindowEnds ==
    ASSUME TypeOK, InPlan, NEW p \in Procs, pc[p] \notin {"idle", "gate"}
    PROVE  /\ LastOf(p) \in Days
           /\ cur[p] \in Days
           /\ cur[p] <= LastOf(p)
           /\ LastOf(p) <= to[p]
           /\ WindowOf(p) \in Windows
<1>1. cur[p] \in Nat /\ to[p] \in Nat /\ size[p] \in Nat
  <2>1. cur[p] \in 0..(LastDay + 1) /\ to[p] \in 0..LastDay
    BY DEF TypeOK
  <2>2. size[p] \in WindowSizes
    BY DEF InPlan
  <2>3. size[p] \in Nat \ {0}
    BY <2>2, SizesAssumption
  <2> QED
    BY <2>1, <2>3, LastDayAssumption
<1>2. 1 <= cur[p] /\ cur[p] <= to[p] /\ to[p] <= LastDay /\ size[p] >= 1
  BY <1>1, LastDayAssumption, SizesAssumption DEF TypeOK, InPlan
<1>3. LastOf(p) \in Nat /\ cur[p] <= LastOf(p) /\ LastOf(p) <= to[p]
  BY <1>1, <1>2 DEF LastOf, EndOf
<1> QED
  BY <1>1, <1>2, <1>3, LastDayAssumption DEF Days, WindowOf, Window, Windows

(* The history variables keep their types in every write of the state.     *)
LEMMA HistoryTypes ==
    ASSUME TypeOK, NEW p \in Procs, NEW windows, MeetOthers(p), Recorded(windows)
    PROVE  overlap' \in BOOLEAN /\ recorded' \in SUBSET Days
<1>1. overlap' \in BOOLEAN
  BY Zenon DEF MeetOthers, TypeOK
<1>2. recorded' \in SUBSET Days
  BY DEF Recorded, DaysOf, TypeOK
<1> QED
  BY <1>1, <1>2

(* ... and the files theirs in the rename.                                 *)
LEMMA RenameTypes ==
    ASSUME TypeOK, NEW p \in Procs, Rename(p)
    PROVE  /\ file' \in States /\ fileIs' \in Contents
           /\ tmp' \in States /\ tmpIs' \in Contents
           /\ fd' \in [Procs -> {"none", "tmp", "file", "gone"}]
           /\ overlap' \in BOOLEAN /\ recorded' \in SUBSET Days
           /\ UNCHANGED <<lockFile, left, dirty, verified, deaths, version>>
<1>1. overlap' \in BOOLEAN /\ recorded' \in SUBSET Days
  <2> HIDE DEF MeetOthers, Recorded
  <2> QED
    BY HistoryTypes DEF Rename
<1>2. NoState \in States
  BY LastDayAssumption DEF NoState, States, State, NoWindow
<1> QED
  BY <1>1, <1>2 DEF Rename, Renamed, TypeOK, Contents, lock

(* Every step keeps the types; a window in the plan ends by LastDay.       *)
LEMMA TypeStep == TypeOK /\ InPlan /\ [Next]_vars => TypeOK'
<1> SUFFICES ASSUME TypeOK, InPlan, [Next]_vars PROVE TypeOK'
  OBVIOUS
<1> USE LastDayAssumption, SizesAssumption, AttemptsAssumption, VersionsAssumption,
        DeathsAssumption
    DEF TypeOK, PCs, Contents, States, Windows, State, Window, NoWindow, NoState, Days,
        Goto, Leave, disk, lock, history, plan, V2
<1>1. CASE UNCHANGED vars
  BY <1>1 DEF vars, LastOf, EndOf
<1>2. CASE RemoveStaleLock
  BY <1>2 DEF RemoveStaleLock, LastOf, EndOf
<1>3. ASSUME NEW p \in Procs, NEW n \in WindowSizes, NEW last \in Days,
             ReadState(p, n, last)
      PROVE  TypeOK'
  BY <1>3 DEF ReadState, EffectiveStart, Interrupted, LastOf, EndOf
<1>4. ASSUME NEW p \in Procs, PassGate(p) PROVE TypeOK'
  BY <1>4 DEF PassGate, GateOpen
<1>5. ASSUME NEW p \in Procs, Refused(p) PROVE TypeOK'
  BY <1>5 DEF Refused, GateOpen
<1>6. ASSUME NEW p \in Procs, SeeNoLock(p) PROVE TypeOK'
  BY <1>6 DEF SeeNoLock
<1>7. ASSUME NEW p \in Procs, OpenLock(p) PROVE TypeOK'
  <2>1. LastOf(p) \in Days /\ cur[p] \in Days /\ WindowOf(p) \in Windows
    BY <1>7, WindowEnds DEF OpenLock
  <2>2. State(payload[p].next, WindowOf(p), payload[p].completed) \in States
    BY <2>1
  <2>3. CASE ToRun(p)
    BY <1>7, <2>3 DEF OpenLock, Acquire, Begin, ToRun, StartRun
  <2>4. CASE ToWrite(p)
    <3> HIDE DEF State, States
    <3> QED
      BY <1>7, <2>2, <2>4 DEF OpenLock, Acquire, Begin, ToWrite
  <2> QED
    BY <1>7, <2>3, <2>4 DEF OpenLock, Acquire, Begin
<1>8. ASSUME NEW p \in Procs, LockMet(p) PROVE TypeOK'
  BY <1>8 DEF LockMet
<1>9. ASSUME NEW p \in Procs, LockGone(p) PROVE TypeOK'
  <2>1. LastOf(p) \in Days /\ cur[p] \in Days /\ WindowOf(p) \in Windows
    BY <1>9, WindowEnds DEF LockGone
  <2>2. State(payload[p].next, WindowOf(p), payload[p].completed) \in States
    BY <2>1
  <2>3. CASE ToRun(p)
    BY <1>9, <2>3 DEF LockGone, Begin, ToRun, StartRun
  <2>4. CASE ToWrite(p)
    <3> HIDE DEF State, States
    <3> QED
      BY <1>9, <2>2, <2>4 DEF LockGone, Begin, ToWrite
  <2> QED
    BY <1>9, <2>3, <2>4 DEF LockGone, Begin
<1>10. ASSUME NEW p \in Procs, Blocked(p) PROVE TypeOK'
  BY <1>10 DEF Blocked
<1>11. ASSUME NEW p \in Procs, OpenTmp(p) PROVE TypeOK'
  <2>1. overlap' \in BOOLEAN /\ recorded' \in SUBSET Days
    <3> HIDE DEF TypeOK, Days
    <3> QED
      BY <1>11, HistoryTypes DEF OpenTmp
  <2>2. NoState \in States
    OBVIOUS
  <2> HIDE DEF NoState, States
  <2> QED
    BY <1>11, <2>1, <2>2 DEF OpenTmp
<1>12. ASSUME NEW p \in Procs, FillTmp(p) PROVE TypeOK'
  BY <1>12 DEF FillTmp, Written
<1>13. ASSUME NEW p \in Procs, ReplaceThenRun(p) PROVE TypeOK'
  <2>1. Rename(p)
    BY <1>13 DEF ReplaceThenRun
  <2> HIDE DEF States, Days, Contents
  <2> USE <2>1, RenameTypes
  <2> QED
    BY <1>13 DEF ReplaceThenRun, StartRun, NoState
<1>14. ASSUME NEW p \in Procs, ReplaceThenNext(p) PROVE TypeOK'
  <2>1. LastOf(p) \in Days /\ cur[p] \in Days /\ WindowOf(p) \in Windows
    BY <1>14, WindowEnds DEF ReplaceThenNext
  <2>2. Rename(p)
    BY <1>14 DEF ReplaceThenNext
  <2>3. LastOf(p) + 1 \in 0..(LastDay + 1)
    BY <2>1
  <2> HIDE DEF States, Days, Contents
  <2> QED
    BY <1>14, <2>2, <2>3, RenameTypes DEF ReplaceThenNext
<1>15. ASSUME NEW p \in Procs, ReplaceThenReturn(p) PROVE TypeOK'
  <2>1. Rename(p)
    BY <1>15 DEF ReplaceThenReturn
  <2>2. NoState \in States
    OBVIOUS
  <2> HIDE DEF States, Days, Contents, NoState
  <2> USE <2>2
  <2> USE <2>1, RenameTypes
  <2> QED
    BY <1>15 DEF ReplaceThenReturn
<1>16. ASSUME NEW p \in Procs, RunPasses(p) PROVE TypeOK'
  <2>1. LastOf(p) \in Days /\ cur[p] \in Days /\ WindowOf(p) \in Windows
    BY <1>16, WindowEnds DEF RunPasses, EndRun
  <2>2. verified' \in SUBSET Days
    <3>1. cur[p]..LastOf(p) \subseteq 1..LastDay
      BY <2>1, LastDayAssumption
    <3> QED
      BY <1>16, <3>1 DEF RunPasses, EndRun
  <2> QED
    BY <1>16, <2>2 DEF RunPasses, EndRun
<1>17. ASSUME NEW p \in Procs, RunRetried(p) PROVE TypeOK'
  <2>1. dirty' \in BOOLEAN
    BY <1>17, Zenon DEF RunRetried
  <2>2. attempt' \in [Procs -> 0..MaxAttempts]
    BY <1>17 DEF RunRetried
  <2> QED
    BY <1>17, <2>1, <2>2 DEF RunRetried
<1>18. ASSUME NEW p \in Procs, RunFails(p) PROVE TypeOK'
  <2>1. dirty' \in BOOLEAN
    BY <1>18, Zenon DEF RunFails
  <2>2. attempt' \in [Procs -> 0..MaxAttempts] /\ pc' \in [Procs -> PCs]
    BY <1>18 DEF RunFails, EndRun
  <2> QED
    BY <1>18, <2>1, <2>2 DEF RunFails
<1>19. ASSUME NEW p \in Procs, ReleaseSucceeded(p) PROVE TypeOK'
  <2>1. LastOf(p) \in Days /\ cur[p] \in Days /\ WindowOf(p) \in Windows
    BY <1>19, WindowEnds DEF ReleaseSucceeded
  <2>2. State(LastOf(p) + 1, NoWindow, payload[p].completed \union {WindowOf(p)}) \in States
    BY <2>1
  <2>3. lockFile' \in BOOLEAN
    BY <1>19 DEF ReleaseSucceeded, ReleaseAndWrite, Unlock
  <2> HIDE DEF State, States, Unlock
  <2> QED
    BY <1>19, <2>2, <2>3 DEF ReleaseSucceeded, ReleaseAndWrite
<1>20. ASSUME NEW p \in Procs, ReleaseFailed(p) PROVE TypeOK'
  <2>1. CASE FailedToWrite(p)
    <3>1. State(cur[p], NoWindow, payload[p].completed) \in States
      OBVIOUS
    <3>2. lockFile' \in BOOLEAN
      BY <2>1 DEF FailedToWrite, ReleaseAndWrite, Unlock
    <3> HIDE DEF State, States
    <3> QED
      BY <2>1, <3>1, <3>2 DEF FailedToWrite, ReleaseAndWrite
  <2>2. CASE FailedToReturn(p)
    <3>1. lockFile' \in BOOLEAN
      BY <2>2 DEF FailedToReturn, Unlock
    <3> QED
      BY <2>2, <3>1 DEF FailedToReturn
  <2> QED
    BY <1>20, <2>1, <2>2 DEF ReleaseFailed
<1>21. ASSUME NEW p \in Procs, Raise(p) PROVE TypeOK'
  BY <1>21 DEF Raise, MayRaise, Unlock
<1>22. ASSUME NEW p \in Procs, Die(p) PROVE TypeOK'
  BY <1>22 DEF Die
<1>23. ASSUME NEW p \in Procs, LockTorn(p) PROVE TypeOK'
  BY <1>23 DEF LockTorn
<1>24. ASSUME NEW p \in Procs, ReleaseRaises(p) PROVE TypeOK'
  BY <1>24 DEF ReleaseRaises
<1> QED
  BY <1>1, <1>2, <1>3, <1>4, <1>5, <1>6, <1>7, <1>8, <1>9, <1>10, <1>11, <1>12, <1>13, <1>14, <1>15, <1>16, <1>17, <1>18, <1>19, <1>20, <1>21, <1>22, <1>23, <1>24
  DEF Next, Start, Continue

(* A window is only worked on while it is in the plan.                     *)
LEMMA PlanStep == TypeOK /\ InPlan /\ [Next]_vars => InPlan'
<1> SUFFICES ASSUME TypeOK, InPlan, [Next]_vars PROVE InPlan'
  OBVIOUS
<1> USE LastDayAssumption, SizesAssumption, AttemptsAssumption, VersionsAssumption,
        DeathsAssumption
    DEF TypeOK, PCs, Contents, States, Windows, State, Window, NoWindow, NoState, Days,
        Goto, Leave, disk, lock, history, plan, V2, InPlan
<1>1. CASE UNCHANGED vars
  BY <1>1 DEF vars, LastOf, EndOf
<1>2. CASE RemoveStaleLock
  BY <1>2 DEF RemoveStaleLock, LastOf, EndOf
<1>3. ASSUME NEW p \in Procs, NEW n \in WindowSizes, NEW last \in Days,
             ReadState(p, n, last)
      PROVE  InPlan'
  BY <1>3 DEF ReadState, EffectiveStart, Interrupted, LastOf, EndOf
<1>4. ASSUME NEW p \in Procs, PassGate(p) PROVE InPlan'
  BY <1>4 DEF PassGate, GateOpen
<1>5. ASSUME NEW p \in Procs, Refused(p) PROVE InPlan'
  BY <1>5 DEF Refused, GateOpen
<1>6. ASSUME NEW p \in Procs, SeeNoLock(p) PROVE InPlan'
  BY <1>6 DEF SeeNoLock
<1>7. ASSUME NEW p \in Procs, OpenLock(p) PROVE InPlan'
  <2>1. CASE ToRun(p)
    BY <1>7, <2>1 DEF OpenLock, ToRun, StartRun, Acquire, Begin, WindowOf
  <2>2. CASE ToWrite(p)
    BY <1>7, <2>2 DEF OpenLock, ToWrite, Acquire, Begin, WindowOf
  <2> QED
    BY <1>7, <2>1, <2>2 DEF OpenLock, Acquire, Begin
<1>8. ASSUME NEW p \in Procs, LockMet(p) PROVE InPlan'
  BY <1>8 DEF LockMet
<1>9. ASSUME NEW p \in Procs, LockGone(p) PROVE InPlan'
  <2>1. CASE ToRun(p)
    BY <1>9, <2>1 DEF LockGone, ToRun, StartRun, Begin, WindowOf
  <2>2. CASE ToWrite(p)
    BY <1>9, <2>2 DEF LockGone, ToWrite, Begin, WindowOf
  <2> QED
    BY <1>9, <2>1, <2>2 DEF LockGone, Begin
<1>10. ASSUME NEW p \in Procs, Blocked(p) PROVE InPlan'
  BY <1>10 DEF Blocked
<1>11. ASSUME NEW p \in Procs, OpenTmp(p) PROVE InPlan'
  BY <1>11 DEF OpenTmp
<1>12. ASSUME NEW p \in Procs, FillTmp(p) PROVE InPlan'
  BY <1>12 DEF FillTmp, Written
<1>13. ASSUME NEW p \in Procs, ReplaceThenRun(p) PROVE InPlan'
  BY <1>13 DEF ReplaceThenRun, StartRun, Rename, Renamed
<1>14. ASSUME NEW p \in Procs, ReplaceThenNext(p) PROVE InPlan'
  <2>1. LastOf(p) \in Days
    BY <1>14, WindowEnds DEF ReplaceThenNext
  <2> QED
    BY <1>14, <2>1 DEF ReplaceThenNext, Rename
<1>15. ASSUME NEW p \in Procs, ReplaceThenReturn(p) PROVE InPlan'
  BY <1>15 DEF ReplaceThenReturn, Rename, Renamed
<1>16. ASSUME NEW p \in Procs, RunPasses(p) PROVE InPlan'
  BY <1>16 DEF RunPasses, EndRun
<1>17. ASSUME NEW p \in Procs, RunRetried(p) PROVE InPlan'
  BY <1>17 DEF RunRetried
<1>18. ASSUME NEW p \in Procs, RunFails(p) PROVE InPlan'
  BY <1>18 DEF RunFails, EndRun
<1>19. ASSUME NEW p \in Procs, ReleaseSucceeded(p) PROVE InPlan'
  BY <1>19 DEF ReleaseSucceeded, ReleaseAndWrite, Unlock
<1>20. ASSUME NEW p \in Procs, ReleaseFailed(p) PROVE InPlan'
  <2>1. CASE FailedToReturn(p)
    BY <1>20, <2>1 DEF ReleaseFailed, FailedToReturn, ReleaseAndWrite, Unlock
  <2>2. CASE FailedToWrite(p)
    BY <1>20, <2>2 DEF ReleaseFailed, FailedToWrite, ReleaseAndWrite, Unlock
  <2> QED
    BY <1>20, <2>1, <2>2 DEF ReleaseFailed
<1>21. ASSUME NEW p \in Procs, Raise(p) PROVE InPlan'
  BY <1>21 DEF Raise, MayRaise, Unlock
<1>22. ASSUME NEW p \in Procs, Die(p) PROVE InPlan'
  BY <1>22 DEF Die
<1>23. ASSUME NEW p \in Procs, LockTorn(p) PROVE InPlan'
  BY <1>23 DEF LockTorn
<1>24. ASSUME NEW p \in Procs, ReleaseRaises(p) PROVE InPlan'
  BY <1>24 DEF ReleaseRaises
<1> QED
  BY <1>1, <1>2, <1>3, <1>4, <1>5, <1>6, <1>7, <1>8, <1>9, <1>10, <1>11, <1>12, <1>13, <1>14, <1>15, <1>16, <1>17, <1>18, <1>19, <1>20, <1>21, <1>22, <1>23, <1>24
  DEF Next, Start, Continue

(* The lock file stays with the call that created it.                      *)
LEMMA LockStep == TypeOK /\ OneLockHolder /\ [Next]_vars => OneLockHolder'
<1> SUFFICES ASSUME TypeOK, OneLockHolder, [Next]_vars PROVE OneLockHolder'
  OBVIOUS
<1> USE VersionsAssumption DEF TypeOK, PCs, Contents, States, Windows, State, Window, NoWindow, NoState, Days,
        Goto, Leave, disk, lock, history, plan, V2, OneLockHolder
<1>1. CASE UNCHANGED vars
  BY <1>1 DEF vars, LastOf, EndOf
<1>2. CASE RemoveStaleLock
  BY <1>2 DEF RemoveStaleLock, LastOf, EndOf
<1>3. ASSUME NEW p \in Procs, NEW n \in WindowSizes, NEW last \in Days,
             ReadState(p, n, last)
      PROVE  OneLockHolder'
  BY <1>3 DEF ReadState, EffectiveStart, Interrupted, LastOf, EndOf
<1>4. ASSUME NEW p \in Procs, PassGate(p) PROVE OneLockHolder'
  BY <1>4 DEF PassGate, GateOpen
<1>5. ASSUME NEW p \in Procs, Refused(p) PROVE OneLockHolder'
  BY <1>5 DEF Refused, GateOpen
<1>6. ASSUME NEW p \in Procs, SeeNoLock(p) PROVE OneLockHolder'
  BY <1>6 DEF SeeNoLock
<1>7. ASSUME NEW p \in Procs, OpenLock(p) PROVE OneLockHolder'
  <2>1. CASE ToRun(p)
    BY <1>7, <2>1 DEF OpenLock, ToRun, StartRun, Acquire, Begin, WindowOf
  <2>2. CASE ToWrite(p)
    BY <1>7, <2>2 DEF OpenLock, ToWrite, Acquire, Begin, WindowOf
  <2> QED
    BY <1>7, <2>1, <2>2 DEF OpenLock, Acquire, Begin
<1>8. ASSUME NEW p \in Procs, LockMet(p) PROVE OneLockHolder'
  BY <1>8 DEF LockMet
<1>9. ASSUME NEW p \in Procs, LockGone(p) PROVE OneLockHolder'
  <2>1. CASE ToRun(p)
    BY <1>9, <2>1 DEF LockGone, ToRun, StartRun, Begin, WindowOf
  <2>2. CASE ToWrite(p)
    BY <1>9, <2>2 DEF LockGone, ToWrite, Begin, WindowOf
  <2> QED
    BY <1>9, <2>1, <2>2 DEF LockGone, Begin
<1>10. ASSUME NEW p \in Procs, Blocked(p) PROVE OneLockHolder'
  BY <1>10 DEF Blocked
<1>11. ASSUME NEW p \in Procs, OpenTmp(p) PROVE OneLockHolder'
  BY <1>11 DEF OpenTmp
<1>12. ASSUME NEW p \in Procs, FillTmp(p) PROVE OneLockHolder'
  BY <1>12 DEF FillTmp, Written
<1>13. ASSUME NEW p \in Procs, ReplaceThenRun(p) PROVE OneLockHolder'
  BY <1>13 DEF ReplaceThenRun, StartRun, Rename, Renamed
<1>14. ASSUME NEW p \in Procs, ReplaceThenNext(p) PROVE OneLockHolder'
  BY <1>14 DEF ReplaceThenNext, Rename, Renamed
<1>15. ASSUME NEW p \in Procs, ReplaceThenReturn(p) PROVE OneLockHolder'
  BY <1>15 DEF ReplaceThenReturn, Rename, Renamed
<1>16. ASSUME NEW p \in Procs, RunPasses(p) PROVE OneLockHolder'
  BY <1>16 DEF RunPasses, EndRun
<1>17. ASSUME NEW p \in Procs, RunRetried(p) PROVE OneLockHolder'
  BY <1>17 DEF RunRetried
<1>18. ASSUME NEW p \in Procs, RunFails(p) PROVE OneLockHolder'
  BY <1>18 DEF RunFails, EndRun
<1>19. ASSUME NEW p \in Procs, ReleaseSucceeded(p) PROVE OneLockHolder'
  BY <1>19 DEF ReleaseSucceeded, ReleaseAndWrite, Unlock
<1>20. ASSUME NEW p \in Procs, ReleaseFailed(p) PROVE OneLockHolder'
  <2>1. CASE FailedToReturn(p)
    BY <2>1 DEF FailedToReturn, Unlock
  <2>2. CASE FailedToWrite(p)
    BY <2>2 DEF FailedToWrite, ReleaseAndWrite, Unlock
  <2> QED
    BY <1>20, <2>1, <2>2 DEF ReleaseFailed
<1>21. ASSUME NEW p \in Procs, Raise(p) PROVE OneLockHolder'
  BY <1>21 DEF Raise, MayRaise, Unlock
<1>22. ASSUME NEW p \in Procs, Die(p) PROVE OneLockHolder'
  BY <1>22 DEF Die
<1>23. ASSUME NEW p \in Procs, LockTorn(p) PROVE OneLockHolder'
  BY <1>23 DEF LockTorn
<1>24. ASSUME NEW p \in Procs, ReleaseRaises(p) PROVE OneLockHolder'
  BY <1>24 DEF ReleaseRaises
<1> QED
  BY <1>1, <1>2, <1>3, <1>4, <1>5, <1>6, <1>7, <1>8, <1>9, <1>10, <1>11, <1>12, <1>13, <1>14, <1>15, <1>16, <1>17, <1>18, <1>19, <1>20, <1>21, <1>22, <1>23, <1>24
  DEF Next, Start, Continue

(* No payload, written, read or kept, starts past the verified days.       *)
LEMMA CoveredStep == TypeOK /\ InPlan /\ AllCovered /\ [Next]_vars => AllCovered'
<1> SUFFICES ASSUME TypeOK, InPlan, AllCovered, [Next]_vars PROVE AllCovered'
  OBVIOUS
<1> USE LastDayAssumption, SizesAssumption, AttemptsAssumption, VersionsAssumption,
        DeathsAssumption
    DEF TypeOK, PCs, Contents, States, Windows, State, Window, NoWindow, NoState, Days,
        Goto, Leave, disk, lock, history, plan, V2, InPlan,
        AllCovered, StateCovered, Covered, Writing
<1>1. CASE UNCHANGED vars
  BY <1>1 DEF vars, LastOf, EndOf
<1>2. CASE RemoveStaleLock
  BY <1>2 DEF RemoveStaleLock, LastOf, EndOf
<1>3. ASSUME NEW p \in Procs, NEW n \in WindowSizes, NEW last \in Days,
             ReadState(p, n, last)
      PROVE  AllCovered'
  BY <1>3 DEF ReadState, EffectiveStart, Interrupted, LastOf, EndOf
<1>4. ASSUME NEW p \in Procs, PassGate(p) PROVE AllCovered'
  BY <1>4 DEF PassGate, GateOpen, LastOf, EndOf
<1>5. ASSUME NEW p \in Procs, Refused(p) PROVE AllCovered'
  BY <1>5 DEF Refused, GateOpen, LastOf, EndOf
<1>6. ASSUME NEW p \in Procs, SeeNoLock(p) PROVE AllCovered'
  BY <1>6 DEF SeeNoLock, LastOf, EndOf
<1>7. ASSUME NEW p \in Procs, OpenLock(p) PROVE AllCovered'
  <2>1. CASE ToRun(p)
    BY <1>7, <2>1 DEF OpenLock, ToRun, StartRun, Acquire, Begin, WindowOf, LastOf, EndOf
  <2>2. CASE ToWrite(p)
    BY <1>7, <2>2 DEF OpenLock, ToWrite, Acquire, Begin, WindowOf, LastOf, EndOf
  <2> QED
    BY <1>7, <2>1, <2>2 DEF OpenLock, Acquire, Begin
<1>8. ASSUME NEW p \in Procs, LockMet(p) PROVE AllCovered'
  BY <1>8 DEF LockMet, LastOf, EndOf
<1>9. ASSUME NEW p \in Procs, LockGone(p) PROVE AllCovered'
  <2>1. CASE ToRun(p)
    BY <1>9, <2>1 DEF LockGone, ToRun, StartRun, Begin, WindowOf, LastOf, EndOf
  <2>2. CASE ToWrite(p)
    BY <1>9, <2>2 DEF LockGone, ToWrite, Begin, WindowOf, LastOf, EndOf
  <2> QED
    BY <1>9, <2>1, <2>2 DEF LockGone, Begin
<1>10. ASSUME NEW p \in Procs, Blocked(p) PROVE AllCovered'
  BY <1>10 DEF Blocked, LastOf, EndOf
<1>11. ASSUME NEW p \in Procs, OpenTmp(p) PROVE AllCovered'
  BY <1>11 DEF OpenTmp, LastOf, EndOf
<1>12. ASSUME NEW p \in Procs, FillTmp(p) PROVE AllCovered'
  BY <1>12 DEF FillTmp, Written, LastOf, EndOf
<1>13. ASSUME NEW p \in Procs, ReplaceThenRun(p) PROVE AllCovered'
  BY <1>13 DEF ReplaceThenRun, StartRun, Rename, Renamed, LastOf, EndOf
<1>14. ASSUME NEW p \in Procs, ReplaceThenNext(p) PROVE AllCovered'
  BY <1>14 DEF ReplaceThenNext, Rename, Renamed, LastOf, EndOf
<1>15. ASSUME NEW p \in Procs, ReplaceThenReturn(p) PROVE AllCovered'
  BY <1>15 DEF ReplaceThenReturn, Rename, Renamed, LastOf, EndOf
<1>16. ASSUME NEW p \in Procs, RunPasses(p) PROVE AllCovered'
  <2>1. LastOf(p) \in Days /\ cur[p] \in Days
    BY <1>16, WindowEnds DEF RunPasses, EndRun
  <2>2. verified \subseteq verified' /\ cur[p]..LastOf(p) \subseteq verified'
    BY <1>16 DEF RunPasses, EndRun
  <2>3. Covered(LastOf(p) + 1)'
    BY <1>16, <2>1, <2>2 DEF RunPasses, EndRun, LastOf, EndOf
  <2>4. \A q \in Procs : LastOf(q)' = LastOf(q)
    BY <1>16 DEF RunPasses, EndRun, LastOf, EndOf
  <2> QED
    BY <1>16, <2>2, <2>3, <2>4 DEF RunPasses, EndRun
<1>17. ASSUME NEW p \in Procs, RunRetried(p) PROVE AllCovered'
  BY <1>17 DEF RunRetried, LastOf, EndOf
<1>18. ASSUME NEW p \in Procs, RunFails(p) PROVE AllCovered'
  BY <1>18 DEF RunFails, EndRun, LastOf, EndOf
<1>19. ASSUME NEW p \in Procs, ReleaseSucceeded(p) PROVE AllCovered'
  BY <1>19 DEF ReleaseSucceeded, ReleaseAndWrite, Unlock, LastOf, EndOf
<1>20. ASSUME NEW p \in Procs, ReleaseFailed(p) PROVE AllCovered'
  <2>1. CASE FailedToReturn(p)
    BY <1>20, <2>1 DEF ReleaseFailed, FailedToReturn, ReleaseAndWrite, Unlock, LastOf, EndOf
  <2>2. CASE FailedToWrite(p)
    BY <1>20, <2>2 DEF ReleaseFailed, FailedToWrite, ReleaseAndWrite, Unlock, LastOf, EndOf
  <2> QED
    BY <1>20, <2>1, <2>2 DEF ReleaseFailed
<1>21. ASSUME NEW p \in Procs, Raise(p) PROVE AllCovered'
  BY <1>21 DEF Raise, MayRaise, Unlock, LastOf, EndOf
<1>22. ASSUME NEW p \in Procs, Die(p) PROVE AllCovered'
  BY <1>22 DEF Die, LastOf, EndOf
<1>23. ASSUME NEW p \in Procs, LockTorn(p) PROVE AllCovered'
  BY <1>23 DEF LockTorn, LastOf, EndOf
<1>24. ASSUME NEW p \in Procs, ReleaseRaises(p) PROVE AllCovered'
  BY <1>24 DEF ReleaseRaises, LastOf, EndOf
<1> QED
  BY <1>1, <1>2, <1>3, <1>4, <1>5, <1>6, <1>7, <1>8, <1>9, <1>10, <1>11, <1>12, <1>13, <1>14, <1>15, <1>16, <1>17, <1>18, <1>19, <1>20, <1>21, <1>22, <1>23, <1>24
  DEF Next, Start, Continue

(* A call gives the lock back before it writes down what became of its     *)
(* window.                                                                 *)
LEMMA HolderStep == TypeOK /\ HolderWorks /\ [Next]_vars => HolderWorks'
<1> SUFFICES ASSUME TypeOK, HolderWorks, [Next]_vars
             PROVE  HolderWorks'
  OBVIOUS
<1> USE DEF TypeOK, HolderWorks, PCs, Goto, Leave, disk, lock, history, plan, V2, Writing
<1>1. CASE UNCHANGED vars
  BY <1>1 DEF vars
<1>2. CASE RemoveStaleLock
  BY <1>2 DEF RemoveStaleLock
<1>3. ASSUME NEW p \in Procs, NEW n \in WindowSizes, NEW last \in Days,
             ReadState(p, n, last)
      PROVE  HolderWorks'
  BY <1>3 DEF ReadState
<1>4. ASSUME NEW p \in Procs, PassGate(p)
      PROVE  HolderWorks'
  BY <1>4 DEF PassGate, GateOpen
<1>5. ASSUME NEW p \in Procs, Refused(p)
      PROVE  HolderWorks'
  BY <1>5 DEF Refused
<1>6. ASSUME NEW p \in Procs, SeeNoLock(p)
      PROVE  HolderWorks'
  BY <1>6 DEF SeeNoLock
<1>7. ASSUME NEW p \in Procs, OpenLock(p)
      PROVE  HolderWorks'
  <2>1. CASE ToRun(p)
    BY <1>7, <2>1 DEF OpenLock, ToRun, StartRun, Acquire, Begin
  <2>2. CASE ToWrite(p)
    BY <1>7, <2>2 DEF OpenLock, ToWrite, Acquire, Begin
  <2> QED
    BY <1>7, <2>1, <2>2 DEF OpenLock, Acquire, Begin
<1>8. ASSUME NEW p \in Procs, LockMet(p)
      PROVE  HolderWorks'
  BY <1>8 DEF LockMet
<1>9. ASSUME NEW p \in Procs, LockGone(p)
      PROVE  HolderWorks'
  <2>1. CASE ToRun(p)
    BY <1>9, <2>1 DEF LockGone, ToRun, StartRun, Begin
  <2>2. CASE ToWrite(p)
    BY <1>9, <2>2 DEF LockGone, ToWrite, Begin
  <2> QED
    BY <1>9, <2>1, <2>2 DEF LockGone, Begin
<1>10. ASSUME NEW p \in Procs, Blocked(p)
      PROVE  HolderWorks'
  BY <1>10 DEF Blocked
<1>11. ASSUME NEW p \in Procs, OpenTmp(p)
      PROVE  HolderWorks'
  BY <1>11 DEF OpenTmp
<1>12. ASSUME NEW p \in Procs, FillTmp(p)
      PROVE  HolderWorks'
  BY <1>12 DEF FillTmp, Written
<1>13. ASSUME NEW p \in Procs, ReplaceThenRun(p)
      PROVE  HolderWorks'
  BY <1>13 DEF ReplaceThenRun, StartRun, Rename, Renamed
<1>14. ASSUME NEW p \in Procs, ReplaceThenNext(p)
      PROVE  HolderWorks'
  BY <1>14 DEF ReplaceThenNext, Rename, Renamed
<1>15. ASSUME NEW p \in Procs, ReplaceThenReturn(p)
      PROVE  HolderWorks'
  BY <1>15 DEF ReplaceThenReturn, Rename, Renamed
<1>16. ASSUME NEW p \in Procs, RunPasses(p)
      PROVE  HolderWorks'
  BY <1>16 DEF RunPasses, EndRun
<1>17. ASSUME NEW p \in Procs, RunRetried(p)
      PROVE  HolderWorks'
  BY <1>17 DEF RunRetried
<1>18. ASSUME NEW p \in Procs, RunFails(p)
      PROVE  HolderWorks'
  BY <1>18 DEF RunFails, EndRun
<1>19. ASSUME NEW p \in Procs, ReleaseSucceeded(p)
      PROVE  HolderWorks'
  BY <1>19 DEF ReleaseSucceeded, ReleaseAndWrite, Unlock
<1>20. ASSUME NEW p \in Procs, ReleaseFailed(p)
      PROVE  HolderWorks'
  <2>1. CASE FailedToReturn(p)
    BY <1>20, <2>1 DEF ReleaseFailed, FailedToReturn, ReleaseAndWrite, Unlock
  <2>2. CASE FailedToWrite(p)
    BY <1>20, <2>2 DEF ReleaseFailed, FailedToWrite, ReleaseAndWrite, Unlock
  <2> QED
    BY <1>20, <2>1, <2>2 DEF ReleaseFailed
<1>21. ASSUME NEW p \in Procs, Raise(p)
      PROVE  HolderWorks'
  BY <1>21 DEF Raise, MayRaise, Unlock
<1>22. ASSUME NEW p \in Procs, Die(p)
      PROVE  HolderWorks'
  BY <1>22 DEF Die
<1>23. ASSUME NEW p \in Procs, LockTorn(p)
      PROVE  HolderWorks'
  BY <1>23 DEF LockTorn
<1>24. ASSUME NEW p \in Procs, ReleaseRaises(p)
      PROVE  HolderWorks'
  BY <1>24 DEF ReleaseRaises
<1> QED
  BY <1>1, <1>2, <1>3, <1>4, <1>5, <1>6, <1>7, <1>8, <1>9, <1>10, <1>11, <1>12,
     <1>13, <1>14, <1>15, <1>16, <1>17, <1>18, <1>19, <1>20, <1>21, <1>22, <1>23, <1>24
  DEF Next, Start, Continue

(* No call ends with the lock, but one that is killed.                     *)
LEMMA OwnerStep == TypeOK /\ HolderWorks /\ LockHasOwner /\ [Next]_vars => LockHasOwner'
<1> SUFFICES ASSUME TypeOK, HolderWorks, LockHasOwner, [Next]_vars
             PROVE  LockHasOwner'
  OBVIOUS
<1> USE DeathsAssumption DEF TypeOK, HolderWorks, LockHasOwner, PCs, Goto, Leave, disk, lock, history, plan, V2, Writing
<1>1. CASE UNCHANGED vars
  BY <1>1 DEF vars
<1>2. CASE RemoveStaleLock
  BY <1>2 DEF RemoveStaleLock
<1>3. ASSUME NEW p \in Procs, NEW n \in WindowSizes, NEW last \in Days,
             ReadState(p, n, last)
      PROVE  LockHasOwner'
  BY <1>3 DEF ReadState
<1>4. ASSUME NEW p \in Procs, PassGate(p)
      PROVE  LockHasOwner'
  BY <1>4 DEF PassGate, GateOpen
<1>5. ASSUME NEW p \in Procs, Refused(p)
      PROVE  LockHasOwner'
  BY <1>5 DEF Refused
<1>6. ASSUME NEW p \in Procs, SeeNoLock(p)
      PROVE  LockHasOwner'
  BY <1>6 DEF SeeNoLock
<1>7. ASSUME NEW p \in Procs, OpenLock(p)
      PROVE  LockHasOwner'
  <2>1. CASE ToRun(p)
    BY <1>7, <2>1 DEF OpenLock, ToRun, StartRun, Acquire, Begin
  <2>2. CASE ToWrite(p)
    BY <1>7, <2>2 DEF OpenLock, ToWrite, Acquire, Begin
  <2> QED
    BY <1>7, <2>1, <2>2 DEF OpenLock, Acquire, Begin
<1>8. ASSUME NEW p \in Procs, LockMet(p)
      PROVE  LockHasOwner'
  BY <1>8 DEF LockMet
<1>9. ASSUME NEW p \in Procs, LockGone(p)
      PROVE  LockHasOwner'
  <2>1. CASE ToRun(p)
    BY <1>9, <2>1 DEF LockGone, ToRun, StartRun, Begin
  <2>2. CASE ToWrite(p)
    BY <1>9, <2>2 DEF LockGone, ToWrite, Begin
  <2> QED
    BY <1>9, <2>1, <2>2 DEF LockGone, Begin
<1>10. ASSUME NEW p \in Procs, Blocked(p)
      PROVE  LockHasOwner'
  BY <1>10 DEF Blocked
<1>11. ASSUME NEW p \in Procs, OpenTmp(p)
      PROVE  LockHasOwner'
  BY <1>11 DEF OpenTmp
<1>12. ASSUME NEW p \in Procs, FillTmp(p)
      PROVE  LockHasOwner'
  BY <1>12 DEF FillTmp, Written
<1>13. ASSUME NEW p \in Procs, ReplaceThenRun(p)
      PROVE  LockHasOwner'
  BY <1>13 DEF ReplaceThenRun, StartRun, Rename, Renamed
<1>14. ASSUME NEW p \in Procs, ReplaceThenNext(p)
      PROVE  LockHasOwner'
  BY <1>14 DEF ReplaceThenNext, Rename, Renamed
<1>15. ASSUME NEW p \in Procs, ReplaceThenReturn(p)
      PROVE  LockHasOwner'
  BY <1>15 DEF ReplaceThenReturn, Rename, Renamed
<1>16. ASSUME NEW p \in Procs, RunPasses(p)
      PROVE  LockHasOwner'
  BY <1>16 DEF RunPasses, EndRun
<1>17. ASSUME NEW p \in Procs, RunRetried(p)
      PROVE  LockHasOwner'
  BY <1>17 DEF RunRetried
<1>18. ASSUME NEW p \in Procs, RunFails(p)
      PROVE  LockHasOwner'
  BY <1>18 DEF RunFails, EndRun
<1>19. ASSUME NEW p \in Procs, ReleaseSucceeded(p)
      PROVE  LockHasOwner'
  BY <1>19 DEF ReleaseSucceeded, ReleaseAndWrite, Unlock
<1>20. ASSUME NEW p \in Procs, ReleaseFailed(p)
      PROVE  LockHasOwner'
  <2>1. CASE FailedToReturn(p)
    BY <1>20, <2>1 DEF ReleaseFailed, FailedToReturn, ReleaseAndWrite, Unlock
  <2>2. CASE FailedToWrite(p)
    BY <1>20, <2>2 DEF ReleaseFailed, FailedToWrite, ReleaseAndWrite, Unlock
  <2> QED
    BY <1>20, <2>1, <2>2 DEF ReleaseFailed
<1>21. ASSUME NEW p \in Procs, Raise(p)
      PROVE  LockHasOwner'
  BY <1>21 DEF Raise, MayRaise, Unlock
<1>22. ASSUME NEW p \in Procs, Die(p)
      PROVE  LockHasOwner'
  BY <1>22 DEF Die
<1>23. ASSUME NEW p \in Procs, LockTorn(p)
      PROVE  LockHasOwner'
  BY <1>23 DEF LockTorn
<1>24. ASSUME NEW p \in Procs, ReleaseRaises(p)
      PROVE  LockHasOwner'
  BY <1>24 DEF ReleaseRaises
<1> QED
  BY <1>1, <1>2, <1>3, <1>4, <1>5, <1>6, <1>7, <1>8, <1>9, <1>10, <1>11, <1>12,
     <1>13, <1>14, <1>15, <1>16, <1>17, <1>18, <1>19, <1>20, <1>21, <1>22, <1>23, <1>24
  DEF Next, Start, Continue

(* A new payload is in order when it is on its own.                        *)
LEMMA PayloadOrdered ==
    ASSUME TypeOK, AllOrdered, NEW p \in Procs, NEW s,
           payload' = [payload EXCEPT ![p] = s],
           \A q \in Procs \ {p} : pc'[q] = pc[q] /\ after'[q] = after[q],
           UNCHANGED <<version, file, tmp, cur, to, size>>,
           StateOrdered(s),
           IF pc'[p] \in Writing /\ after'[p] = "next"
           THEN EndBefore(s.completed, LastOf(p) + 1) ELSE EndBefore(s.completed, cur[p])
    PROVE  AllOrdered'
<1>1. \A q \in Procs : LastOf(q)' = LastOf(q)
  BY DEF LastOf, EndOf
<1>2. payload'[p] = s /\ \A q \in Procs \ {p} : payload'[q] = payload[q]
  BY DEF TypeOK
<1>3. StateOrdered(file)' /\ StateOrdered(tmp)' /\ \A q \in Procs : StateOrdered(payload[q])'
  BY <1>2 DEF AllOrdered, StateOrdered, EndBefore, V2
<1>4. ASSUME NEW q \in Procs
      PROVE  EndBefore(payload[q].completed,
                 IF pc[q] \in Writing /\ after[q] = "next" THEN LastOf(q) + 1 ELSE cur[q])'
  BY <1>1, <1>2 DEF AllOrdered, EndBefore
<1> QED
  BY <1>3, <1>4 DEF AllOrdered

(* A window that is written down before it runs is not completed.          *)
LEMMA StartOrdered ==
    ASSUME TypeOK, InPlan, AllOrdered, NEW p \in Procs, pc[p] \in {"open", "status"},
           ToWrite(p), UNCHANGED <<version, file, tmp, cur, to, size>>
    PROVE  AllOrdered'
<1> DEFINE s == State(payload[p].next, WindowOf(p), payload[p].completed)
<1>1. cur[p] <= LastOf(p)
  BY WindowEnds
<1>2. EndBefore(payload[p].completed, payload[p].next) /\ EndBefore(payload[p].completed, cur[p])
  BY DEF AllOrdered, StateOrdered, Writing
<1>3. StateOrdered(s) /\ s.completed = payload[p].completed
  BY <1>1, <1>2 DEF StateOrdered, State, WindowOf, Window, ToWrite
<1>4. /\ payload' = [payload EXCEPT ![p] = s] /\ after'[p] = "run"
      /\ \A q \in Procs \ {p} : pc'[q] = pc[q] /\ after'[q] = after[q]
  BY DEF ToWrite, Goto, TypeOK
<1> HIDE DEF s
<1> QED
  BY <1>2, <1>3, <1>4, PayloadOrdered

(* A window that is written down after it ran ends before the next one.    *)
LEMMA SuccessOrdered ==
    ASSUME TypeOK, InPlan, AllOrdered, NEW p \in Procs, ReleaseSucceeded(p)
    PROVE  AllOrdered'
<1> DEFINE s == State(LastOf(p) + 1, NoWindow, payload[p].completed \union {WindowOf(p)})
<1>1. LastOf(p) \in Nat /\ cur[p] \in Nat /\ cur[p] <= LastOf(p)
  BY WindowEnds, LastDayAssumption DEF Days, ReleaseSucceeded
<1>2. \A w \in payload[p].completed : w.end \in Nat /\ w.end < cur[p]
  <2>1. \A w \in payload[p].completed : w.end < cur[p]
    BY DEF AllOrdered, EndBefore, ReleaseSucceeded, Writing
  <2>2. payload[p].completed \subseteq Windows
    BY DEF TypeOK, States
  <2> QED
    BY <2>1, <2>2, LastDayAssumption DEF Windows, Days
<1>3. EndBefore(s.completed, LastOf(p) + 1)
  BY <1>1, <1>2 DEF EndBefore, State, WindowOf, Window
<1>4. StateOrdered(s)
  BY <1>3 DEF StateOrdered, State
<1>5. /\ payload' = [payload EXCEPT ![p] = s] /\ after'[p] = "next" /\ pc'[p] \in Writing
      /\ \A q \in Procs \ {p} : pc'[q] = pc[q] /\ after'[q] = after[q]
      /\ UNCHANGED <<version, file, tmp, cur, to, size>>
  BY DEF ReleaseSucceeded, ReleaseAndWrite, Goto, Writing, disk, lock, history, plan, TypeOK
<1> HIDE DEF s
<1> QED
  BY <1>3, <1>4, <1>5, PayloadOrdered

(* A window is written down as completed behind the next one's start.      *)
LEMMA OrderedStep == TypeOK /\ InPlan /\ AllOrdered /\ [Next]_vars => AllOrdered'
<1> SUFFICES ASSUME TypeOK, InPlan, AllOrdered, [Next]_vars
             PROVE  AllOrdered'
  OBVIOUS
<1> USE LastDayAssumption, SizesAssumption DEF TypeOK, InPlan, AllOrdered, PCs, Goto, Leave, disk, lock, history, plan, V2, Writing, StateOrdered, EndBefore, States, Windows, State,
    Window, NoWindow, NoState, Days
<1>1. CASE UNCHANGED vars
  BY <1>1 DEF vars, LastOf, EndOf
<1>2. CASE RemoveStaleLock
  BY <1>2 DEF RemoveStaleLock, LastOf, EndOf
<1>3. ASSUME NEW p \in Procs, NEW n \in WindowSizes, NEW last \in Days,
             ReadState(p, n, last)
      PROVE  AllOrdered'
  BY <1>3 DEF ReadState, EffectiveStart, Interrupted, LastOf, EndOf
<1>4. ASSUME NEW p \in Procs, PassGate(p)
      PROVE  AllOrdered'
  BY <1>4 DEF PassGate, GateOpen, LastOf, EndOf
<1>5. ASSUME NEW p \in Procs, Refused(p)
      PROVE  AllOrdered'
  BY <1>5 DEF Refused, LastOf, EndOf
<1>6. ASSUME NEW p \in Procs, SeeNoLock(p)
      PROVE  AllOrdered'
  BY <1>6 DEF SeeNoLock, LastOf, EndOf
<1>7. ASSUME NEW p \in Procs, OpenLock(p)
      PROVE  AllOrdered'
  <2>1. CASE ToRun(p)
    BY <1>7, <2>1 DEF OpenLock, ToRun, StartRun, Acquire, Begin, LastOf, EndOf
  <2>2. CASE ToWrite(p)
    <3> HIDE DEF TypeOK, InPlan, AllOrdered
    <3> QED
      BY <1>7, <2>2, StartOrdered DEF OpenLock, Acquire, Begin
  <2> QED
    BY <1>7, <2>1, <2>2 DEF OpenLock, Acquire, Begin
<1>8. ASSUME NEW p \in Procs, LockMet(p)
      PROVE  AllOrdered'
  BY <1>8 DEF LockMet, LastOf, EndOf
<1>9. ASSUME NEW p \in Procs, LockGone(p)
      PROVE  AllOrdered'
  <2>1. CASE ToRun(p)
    BY <1>9, <2>1 DEF LockGone, ToRun, StartRun, Begin, LastOf, EndOf
  <2>2. CASE ToWrite(p)
    <3> HIDE DEF TypeOK, InPlan, AllOrdered
    <3> QED
      BY <1>9, <2>2, StartOrdered DEF LockGone, Begin
  <2> QED
    BY <1>9, <2>1, <2>2 DEF LockGone, Begin
<1>10. ASSUME NEW p \in Procs, Blocked(p)
      PROVE  AllOrdered'
  BY <1>10 DEF Blocked, LastOf, EndOf
<1>11. ASSUME NEW p \in Procs, OpenTmp(p)
      PROVE  AllOrdered'
  BY <1>11 DEF OpenTmp, LastOf, EndOf
<1>12. ASSUME NEW p \in Procs, FillTmp(p)
      PROVE  AllOrdered'
  BY <1>12 DEF FillTmp, Written, LastOf, EndOf
<1>13. ASSUME NEW p \in Procs, ReplaceThenRun(p)
      PROVE  AllOrdered'
  BY <1>13 DEF ReplaceThenRun, StartRun, Rename, Renamed, LastOf, EndOf
<1>14. ASSUME NEW p \in Procs, ReplaceThenNext(p)
      PROVE  AllOrdered'
  BY <1>14 DEF ReplaceThenNext, Rename, Renamed, LastOf, EndOf
<1>15. ASSUME NEW p \in Procs, ReplaceThenReturn(p)
      PROVE  AllOrdered'
  BY <1>15 DEF ReplaceThenReturn, Rename, Renamed, LastOf, EndOf
<1>16. ASSUME NEW p \in Procs, RunPasses(p)
      PROVE  AllOrdered'
  BY <1>16 DEF RunPasses, EndRun, LastOf, EndOf
<1>17. ASSUME NEW p \in Procs, RunRetried(p)
      PROVE  AllOrdered'
  BY <1>17 DEF RunRetried, LastOf, EndOf
<1>18. ASSUME NEW p \in Procs, RunFails(p)
      PROVE  AllOrdered'
  BY <1>18 DEF RunFails, EndRun, LastOf, EndOf
<1>19. ASSUME NEW p \in Procs, ReleaseSucceeded(p)
      PROVE  AllOrdered'
  BY <1>19, SuccessOrdered
<1>20. ASSUME NEW p \in Procs, ReleaseFailed(p)
      PROVE  AllOrdered'
  <2>1. CASE FailedToReturn(p)
    BY <1>20, <2>1 DEF ReleaseFailed, FailedToReturn, ReleaseAndWrite, Unlock, LastOf, EndOf
  <2>2. CASE FailedToWrite(p)
    BY <1>20, <2>2 DEF ReleaseFailed, FailedToWrite, ReleaseAndWrite, Unlock, LastOf, EndOf
  <2> QED
    BY <1>20, <2>1, <2>2 DEF ReleaseFailed
<1>21. ASSUME NEW p \in Procs, Raise(p)
      PROVE  AllOrdered'
  BY <1>21 DEF Raise, MayRaise, Unlock, LastOf, EndOf
<1>22. ASSUME NEW p \in Procs, Die(p)
      PROVE  AllOrdered'
  BY <1>22 DEF Die, LastOf, EndOf
<1>23. ASSUME NEW p \in Procs, LockTorn(p)
      PROVE  AllOrdered'
  BY <1>23 DEF LockTorn, LastOf, EndOf
<1>24. ASSUME NEW p \in Procs, ReleaseRaises(p)
      PROVE  AllOrdered'
  BY <1>24 DEF ReleaseRaises, LastOf, EndOf
<1> QED
  BY <1>1, <1>2, <1>3, <1>4, <1>5, <1>6, <1>7, <1>8, <1>9, <1>10, <1>11, <1>12,
     <1>13, <1>14, <1>15, <1>16, <1>17, <1>18, <1>19, <1>20, <1>21, <1>22, <1>23, <1>24
  DEF Next, Start, Continue

(* A recorded day stays behind every call until two calls meet.            *)
LEMMA RememberedStep ==
    TypeOK /\ InPlan /\ AllOrdered /\ OneWriter /\ Remembered /\ [Next]_vars => Remembered'
<1> SUFFICES ASSUME TypeOK, InPlan, AllOrdered, OneWriter, Remembered, [Next]_vars, ~overlap'
             PROVE  Remembered'
  BY DEF Remembered
<1>0. \A q \in Procs : pc[q] \notin {"idle", "gate"} =>
          /\ cur[q] \in Nat /\ LastOf(q) \in Nat
          /\ cur[q] <= LastOf(q)
  BY WindowEnds, LastDayAssumption DEF Days
<1> USE LastDayAssumption
    DEF TypeOK, InPlan, AllOrdered, Remembered, Beyond, PCs, Goto, Leave, disk, lock, history,
        plan, V2, Writing, StateOrdered, EndBefore, States, Windows, State, Window, NoWindow,
        NoState, Days
<1>1. CASE UNCHANGED vars
  BY <1>1 DEF vars
<1>2. CASE RemoveStaleLock
  BY <1>2 DEF RemoveStaleLock
<1>3. ASSUME NEW p \in Procs, NEW n \in WindowSizes, NEW last \in Days,
             ReadState(p, n, last)
      PROVE  Remembered'
  BY <1>3 DEF ReadState, EffectiveStart, Interrupted
<1>4. ASSUME NEW p \in Procs, PassGate(p)
      PROVE  Remembered'
  BY <1>4 DEF PassGate, GateOpen
<1>5. ASSUME NEW p \in Procs, Refused(p)
      PROVE  Remembered'
  BY <1>5 DEF Refused
<1>6. ASSUME NEW p \in Procs, SeeNoLock(p)
      PROVE  Remembered'
  BY <1>6 DEF SeeNoLock
<1>7. ASSUME NEW p \in Procs, OpenLock(p)
      PROVE  Remembered'
  <2>1. CASE ToRun(p)
    BY <1>7, <2>1 DEF OpenLock, Acquire, Begin, ToRun, StartRun
  <2>2. CASE ToWrite(p)
    BY <1>7, <2>2 DEF OpenLock, Acquire, Begin, ToWrite, WindowOf
  <2> QED
    BY <1>7, <2>1, <2>2 DEF OpenLock, Acquire, Begin
<1>8. ASSUME NEW p \in Procs, LockMet(p)
      PROVE  Remembered'
  BY <1>8 DEF LockMet
<1>9. ASSUME NEW p \in Procs, LockGone(p)
      PROVE  Remembered'
  <2>1. CASE ToRun(p)
    BY <1>9, <2>1 DEF LockGone, Begin, ToRun, StartRun
  <2>2. CASE ToWrite(p)
    BY <1>9, <2>2 DEF LockGone, Begin, ToWrite, WindowOf
  <2> QED
    BY <1>9, <2>1, <2>2 DEF LockGone, Begin
<1>10. ASSUME NEW p \in Procs, Blocked(p)
      PROVE  Remembered'
  BY <1>10 DEF Blocked
<1>11. ASSUME NEW p \in Procs, OpenTmp(p)
      PROVE  Remembered'
  BY <1>11 DEF OpenTmp, MeetOthers, Recorded, DaysOf
<1>12. ASSUME NEW p \in Procs, FillTmp(p)
      PROVE  Remembered'
  <2>1. ~overlap /\ fd[p] = "tmp" /\ tmp' = payload[p] /\ file' = file
    BY <1>12 DEF FillTmp
  <2>2. /\ pc' = [pc EXCEPT ![p] = "replace"] /\ fd' = [fd EXCEPT ![p] = "none"]
        /\ recorded' = recorded /\ cur' = cur /\ payload' = payload
    BY <1>12 DEF FillTmp
  <2>3. \A q \in Procs : pc'[q] = "replace" => tmp' = payload'[q]
    <3> SUFFICES ASSUME NEW q \in Procs, pc'[q] = "replace" PROVE tmp' = payload'[q]
      OBVIOUS
    <3>1. CASE q = p
      BY <2>1, <2>2, <3>1
    <3>2. CASE q # p
      BY <1>12, <2>1, <2>2, <3>2 DEF FillTmp, OneWriter
    <3> QED
      BY <3>1, <3>2
  <2> QED
    BY <1>12, <2>1, <2>2, <2>3 DEF FillTmp
<1>13. ASSUME NEW p \in Procs, ReplaceThenRun(p)
      PROVE  Remembered'
  <2>1. ~overlap /\ \A q \in Procs \ {p} : pc[q] = "idle"
    BY <1>13 DEF ReplaceThenRun, Rename, MeetOthers
  <2>2. tmp = payload[p] /\ Beyond(payload[p]) /\ \A d \in recorded : d < cur[p]
    BY <1>13, <2>1 DEF ReplaceThenRun
  <2>3. recorded' = recorded \union DaysOf(payload[p].completed)
    BY <1>13, <2>2 DEF ReplaceThenRun, Rename, Recorded
  <2>4. \A d \in recorded' : d < payload[p].next
    BY <2>2, <2>3 DEF DaysOf
  <2>5. payload[p].progress # NoWindow => \A d \in recorded' : d < payload[p].progress.start
    BY <2>2, <2>3 DEF DaysOf
  <2>6. \A d \in recorded' : d < cur[p]
    <3>1. EndBefore(payload[p].completed, cur[p])
      BY <1>13 DEF ReplaceThenRun
    <3> QED
      BY <2>2, <2>3, <3>1 DEF DaysOf
  <2>7. file' = payload[p] /\ payload' = payload /\ cur' = cur /\ pc' = [pc EXCEPT ![p] = "run"]
    BY <1>13, <2>2 DEF ReplaceThenRun, StartRun, Rename
  <2> QED
    BY <2>1, <2>4, <2>5, <2>6, <2>7
<1>14. ASSUME NEW p \in Procs, ReplaceThenNext(p)
      PROVE  Remembered'
  <2>1. ~overlap /\ \A q \in Procs \ {p} : pc[q] = "idle"
    BY <1>14 DEF ReplaceThenNext, Rename, MeetOthers
  <2>2. tmp = payload[p] /\ Beyond(payload[p]) /\ \A d \in recorded : d < cur[p]
    BY <1>14, <2>1 DEF ReplaceThenNext
  <2>3. recorded' = recorded \union DaysOf(payload[p].completed)
    BY <1>14, <2>2 DEF ReplaceThenNext, Rename, Recorded
  <2>4. \A d \in recorded' : d < payload[p].next
    BY <2>2, <2>3 DEF DaysOf
  <2>5. payload[p].progress # NoWindow => \A d \in recorded' : d < payload[p].progress.start
    BY <2>2, <2>3 DEF DaysOf
  <2>6. \A d \in recorded' : d < LastOf(p) + 1
    <3>1. EndBefore(payload[p].completed, LastOf(p) + 1)
      BY <1>14 DEF ReplaceThenNext
    <3>2. pc[p] = "replace"
      BY <1>14 DEF ReplaceThenNext
    <3>3. cur[p] \in Nat /\ LastOf(p) \in Nat /\ cur[p] <= LastOf(p)
      BY <1>0, <3>2
    <3> QED
      BY <2>2, <2>3, <3>1, <3>3 DEF DaysOf
  <2>7. /\ file' = payload[p] /\ payload' = payload
        /\ cur' = [cur EXCEPT ![p] = LastOf(p) + 1]
        /\ pc' = [pc EXCEPT ![p] = "acquire"]
    BY <1>14, <2>2 DEF ReplaceThenNext, Rename
  <2> QED
    BY <2>1, <2>4, <2>5, <2>6, <2>7
<1>15. ASSUME NEW p \in Procs, ReplaceThenReturn(p)
      PROVE  Remembered'
  <2>1. ~overlap /\ \A q \in Procs \ {p} : pc[q] = "idle"
    BY <1>15 DEF ReplaceThenReturn, Rename, MeetOthers
  <2>2. tmp = payload[p] /\ Beyond(payload[p]) /\ \A d \in recorded : d < cur[p]
    BY <1>15, <2>1 DEF ReplaceThenReturn
  <2>3. recorded' = recorded \union DaysOf(payload[p].completed)
    BY <1>15, <2>2 DEF ReplaceThenReturn, Rename, Recorded
  <2>4. \A d \in recorded' : d < payload[p].next
    BY <2>2, <2>3 DEF DaysOf
  <2>5. payload[p].progress # NoWindow => \A d \in recorded' : d < payload[p].progress.start
    BY <2>2, <2>3 DEF DaysOf
  <2>6. file' = payload[p] /\ pc' = [pc EXCEPT ![p] = "idle"]
    BY <1>15, <2>2 DEF ReplaceThenReturn, Rename
  <2> QED
    BY <2>1, <2>4, <2>5, <2>6
<1>16. ASSUME NEW p \in Procs, RunPasses(p)
      PROVE  Remembered'
  BY <1>16 DEF RunPasses, EndRun
<1>17. ASSUME NEW p \in Procs, RunRetried(p)
      PROVE  Remembered'
  BY <1>17 DEF RunRetried
<1>18. ASSUME NEW p \in Procs, RunFails(p)
      PROVE  Remembered'
  BY <1>18 DEF RunFails, EndRun
<1>19. ASSUME NEW p \in Procs, ReleaseSucceeded(p)
      PROVE  Remembered'
  <2>1. cur[p] \in Nat /\ LastOf(p) \in Nat /\ cur[p] <= LastOf(p)
    <3>1. pc[p] = "succeeded"
      BY <1>19 DEF ReleaseSucceeded
    <3> QED
      BY <3>1, <1>0
  <2>2. ~overlap /\ Beyond(file) /\ \A d \in recorded : d \in Nat /\ d < cur[p]
    <3>1. ~overlap
      BY <1>19 DEF ReleaseSucceeded, ReleaseAndWrite
    <3>2. pc[p] # "idle"
      BY <1>19 DEF ReleaseSucceeded
    <3>3. \A d \in recorded : d \in Nat
      OBVIOUS
    <3> QED
      BY <3>1, <3>2, <3>3
  <2>3. payload'[p].next = LastOf(p) + 1 /\ payload'[p].progress = NoWindow
    BY <1>19 DEF ReleaseSucceeded, ReleaseAndWrite
  <2>4. Beyond(payload[p])'
    BY <1>19, <2>1, <2>2, <2>3 DEF ReleaseSucceeded, ReleaseAndWrite
  <2>5. \A q \in Procs : q # p => payload'[q] = payload[q] /\ pc'[q] = pc[q]
    BY <1>19 DEF ReleaseSucceeded, ReleaseAndWrite
  <2>6. /\ pc'[p] = "openTmp" /\ cur' = cur /\ fd' = fd
        /\ file' = file /\ tmp' = tmp /\ recorded' = recorded
    BY <1>19 DEF ReleaseSucceeded, ReleaseAndWrite
  <2>7. pc[p] = "succeeded"
    BY <1>19 DEF ReleaseSucceeded
  <2> QED
    BY <2>2, <2>4, <2>5, <2>6, <2>7
<1>20. ASSUME NEW p \in Procs, ReleaseFailed(p)
      PROVE  Remembered'
  <2>1. CASE FailedToReturn(p)
    BY <1>20, <2>1 DEF FailedToReturn
  <2>2. CASE FailedToWrite(p)
    <3>1. ~overlap /\ Beyond(file) /\ \A d \in recorded : d < cur[p]
      BY <1>20, <2>2 DEF ReleaseFailed, FailedToWrite, ReleaseAndWrite
    <3>2. payload'[p].next = cur[p] /\ payload'[p].progress = NoWindow /\ pc'[p] = "openTmp"
      BY <2>2 DEF FailedToWrite, ReleaseAndWrite
    <3>3. \A q \in Procs : q # p => payload'[q] = payload[q] /\ pc'[q] = pc[q]
      BY <2>2 DEF FailedToWrite, ReleaseAndWrite
    <3>4. cur' = cur /\ fd' = fd /\ file' = file /\ tmp' = tmp /\ recorded' = recorded
      BY <2>2 DEF FailedToWrite, ReleaseAndWrite
    <3> QED
      BY <1>20, <3>1, <3>2, <3>3, <3>4 DEF ReleaseFailed
  <2> QED
    BY <1>20, <2>1, <2>2 DEF ReleaseFailed
<1>21. ASSUME NEW p \in Procs, Raise(p)
      PROVE  Remembered'
  BY <1>21 DEF Raise, MayRaise, Unlock
<1>22. ASSUME NEW p \in Procs, Die(p)
      PROVE  Remembered'
  BY <1>22 DEF Die
<1>23. ASSUME NEW p \in Procs, LockTorn(p)
      PROVE  Remembered'
  BY <1>23 DEF LockTorn
<1>24. ASSUME NEW p \in Procs, ReleaseRaises(p)
      PROVE  Remembered'
  BY <1>24 DEF ReleaseRaises
<1> QED
  BY <1>1, <1>2, <1>3, <1>4, <1>5, <1>6, <1>7, <1>8, <1>9, <1>10, <1>11, <1>12, <1>13,
     <1>14, <1>15, <1>16, <1>17, <1>18, <1>19, <1>20, <1>21, <1>22, <1>23, <1>24
  DEF Next, Start, Continue

(* A call that opens the temporary file next to another has met it.        *)
LEMMA OneWriterStep == TypeOK /\ OneWriter /\ [Next]_vars => OneWriter'
<1> SUFFICES ASSUME TypeOK, OneWriter, [Next]_vars, ~overlap' PROVE OneWriter'
  BY DEF OneWriter
<1> USE DEF OneWriter, TypeOK, PCs, Goto, Leave, disk, lock, history, plan
<1>1. CASE UNCHANGED vars
  BY <1>1 DEF vars
<1>2. CASE RemoveStaleLock
  BY <1>2 DEF RemoveStaleLock
<1>3. ASSUME NEW p \in Procs, NEW n \in WindowSizes, NEW last \in Days,
             ReadState(p, n, last)
      PROVE  OneWriter'
  BY <1>3 DEF ReadState
<1>4. ASSUME NEW p \in Procs, PassGate(p) PROVE OneWriter'
  BY <1>4 DEF PassGate
<1>5. ASSUME NEW p \in Procs, Refused(p) PROVE OneWriter'
  BY <1>5 DEF Refused
<1>6. ASSUME NEW p \in Procs, SeeNoLock(p) PROVE OneWriter'
  BY <1>6 DEF SeeNoLock
<1>7. ASSUME NEW p \in Procs, OpenLock(p) PROVE OneWriter'
  BY <1>7 DEF OpenLock, Acquire, Begin, ToRun, StartRun, ToWrite
<1>8. ASSUME NEW p \in Procs, LockTorn(p) PROVE OneWriter'
  BY <1>8 DEF LockTorn
<1>9. ASSUME NEW p \in Procs, LockMet(p) PROVE OneWriter'
  BY <1>9 DEF LockMet
<1>10. ASSUME NEW p \in Procs, LockGone(p) PROVE OneWriter'
  BY <1>10 DEF LockGone, Begin, ToRun, StartRun, ToWrite
<1>11. ASSUME NEW p \in Procs, Blocked(p) PROVE OneWriter'
  BY <1>11 DEF Blocked
<1>12. ASSUME NEW p \in Procs, OpenTmp(p) PROVE OneWriter'
  BY <1>12 DEF OpenTmp, MeetOthers
<1>13. ASSUME NEW p \in Procs, FillTmp(p) PROVE OneWriter'
  BY <1>13 DEF FillTmp
<1>14. ASSUME NEW p \in Procs, ReplaceThenRun(p) PROVE OneWriter'
  BY <1>14 DEF ReplaceThenRun, Rename, MeetOthers, StartRun
<1>15. ASSUME NEW p \in Procs, ReplaceThenNext(p) PROVE OneWriter'
  BY <1>15 DEF ReplaceThenNext, Rename, MeetOthers
<1>16. ASSUME NEW p \in Procs, ReplaceThenReturn(p) PROVE OneWriter'
  BY <1>16 DEF ReplaceThenReturn, Rename, MeetOthers
<1>17. ASSUME NEW p \in Procs, RunPasses(p) PROVE OneWriter'
  BY <1>17 DEF RunPasses, EndRun
<1>18. ASSUME NEW p \in Procs, RunRetried(p) PROVE OneWriter'
  BY <1>18 DEF RunRetried
<1>19. ASSUME NEW p \in Procs, RunFails(p) PROVE OneWriter'
  BY <1>19 DEF RunFails, EndRun
<1>20. ASSUME NEW p \in Procs, ReleaseSucceeded(p) PROVE OneWriter'
  BY <1>20 DEF ReleaseSucceeded, ReleaseAndWrite
<1>21. ASSUME NEW p \in Procs, ReleaseFailed(p) PROVE OneWriter'
  BY <1>21 DEF ReleaseFailed, FailedToReturn, FailedToWrite, ReleaseAndWrite
<1>22. ASSUME NEW p \in Procs, Raise(p) PROVE OneWriter'
  BY <1>22 DEF Raise, MayRaise
<1>23. ASSUME NEW p \in Procs, ReleaseRaises(p) PROVE OneWriter'
  BY <1>23 DEF ReleaseRaises
<1>24. ASSUME NEW p \in Procs, Die(p) PROVE OneWriter'
  BY <1>24 DEF Die
<1> QED
  BY <1>1, <1>2, <1>3, <1>4, <1>5, <1>6, <1>7, <1>8, <1>9, <1>10, <1>11, <1>12, <1>13,
     <1>14, <1>15, <1>16, <1>17, <1>18, <1>19, <1>20, <1>21, <1>22, <1>23, <1>24
  DEF Next, Start, Continue

(* The strengthened invariant holds at the start ...                       *)
LEMMA SyncInit == Init => SyncInv
<1> SUFFICES ASSUME Init PROVE SyncInv
  OBVIOUS
<1> USE LastDayAssumption, AttemptsAssumption, DeathsAssumption
    DEF Init, TypeOK, PCs, Contents, States, State, NoWindow, Window, NoState, Days
<1>1. NoState \in States
  OBVIOUS
<1> HIDE DEF NoState, States
<1>2. file \in States /\ tmp \in States /\ verified \in SUBSET Days
  BY <1>1
<1>3. 0 \in 0..(LastDay + 1) /\ 0 \in 0..LastDay /\ 0 \in 0..MaxAttempts /\ 0 \in 0..MaxDeaths
  OBVIOUS
<1>4. TypeOK
  BY <1>1, <1>2, <1>3
<1> USE DEF NoState, States
<1>5. InPlan
  BY DEF InPlan
<1>6. AllCovered
  BY DEF AllCovered, StateCovered, Covered, Writing
<1>7. OneLockHolder
  BY DEF OneLockHolder
<1>8. HolderWorks /\ LockHasOwner /\ Remembered /\ OneWriter
  BY DEF HolderWorks, LockHasOwner, Remembered, Beyond, OneWriter
<1>9. AllOrdered
  BY DEF AllOrdered, StateOrdered, EndBefore, Writing
<1> QED
  BY <1>4, <1>5, <1>6, <1>7, <1>8, <1>9 DEF SyncInv

(* ... and every step keeps it.                                            *)
LEMMA SyncStep == SyncInv /\ [Next]_vars => SyncInv'
  BY TypeStep, PlanStep, LockStep, CoveredStep, HolderStep, OwnerStep, OrderedStep,
     RememberedStep, OneWriterStep
  DEF SyncInv

-----------------------------------------------------------------------------
(* The inductive invariant of the loop, for both versions of the file.     *)
THEOREM SyncInvariant == Spec => []SyncInv
<1>1. Init => SyncInv
  BY SyncInit
<1>2. SyncInv /\ [Next]_vars => SyncInv'
  BY SyncStep
<1> QED
  BY <1>1, <1>2, PTL DEF Spec

(* Files and locals are typed in every reachable state.                    *)
THEOREM SyncTypeCorrect == Spec => []TypeOK
<1>1. SyncInv => TypeOK
  BY DEF SyncInv
<1> QED
  BY <1>1, SyncInvariant, PTL

(* The checkpoint is safe: no readable state file says that a day is done  *)
(* before a window with that day has passed its post-checks, whatever the  *)
(* number of calls, their window sizes and the moments they are killed.    *)
THEOREM CheckpointSafe == Spec => []CheckpointCovered
<1>1. SyncInv => CheckpointCovered
  BY DEF SyncInv, AllCovered, StateCovered, Covered, CheckpointCovered
<1> QED
  BY <1>1, SyncInvariant, PTL

(* The lock works: whatever calls meet it, find it gone, raise or are      *)
(* killed, the file stays with the one call that created it.               *)
THEOREM LockIsHeldOnce == Spec => []OneLockHolder
<1>1. SyncInv => OneLockHolder
  BY DEF SyncInv
<1> QED
  BY <1>1, SyncInvariant, PTL

(* No return, failure or exception of the run leaves a lock file behind,   *)
(* whatever number of calls run: a lock without an owner comes from a kill *)
(* or from an error of the lock's own creation or release.                 *)
THEOREM LockOwned == Spec => []LockHasOwner
<1>1. SyncInv => LockHasOwner
  BY DEF SyncInv
<1> QED
  BY <1>1, SyncInvariant, PTL

(* What the status report announces is what the next call starts with,     *)
(* since a window in progress is never one that is listed as completed.    *)
THEOREM StatusIsStart == Spec => []StatusAnnouncesStart
<1>1. SyncInv => StatusAnnouncesStart
  <2> SUFFICES ASSUME SyncInv, StatusNext # 0
               PROVE  StatusNext = EffectiveStart(file)
    BY DEF StatusAnnouncesStart
  <2>1. file.next \in Nat /\ file.progress \in Windows \union {NoWindow}
    BY LastDayAssumption DEF SyncInv, TypeOK, States
  <2>2. CASE file.progress = NoWindow
    BY <2>1, <2>2 DEF StatusNext, EffectiveStart, Interrupted
  <2>3. CASE file.progress # NoWindow
    <3>1. /\ V2 /\ file.progress.start <= file.progress.end
          /\ \A w \in file.completed : w.end < file.progress.start
      BY <2>3 DEF SyncInv, AllOrdered, StateOrdered, EndBefore
    <3>2. file.progress.start \in Nat /\ file.progress.end \in Nat
      BY <2>1, <2>3, LastDayAssumption DEF Windows, Days
    <3>3. file.progress \notin file.completed
      BY <3>1, <3>2
    <3> QED
      BY <2>3, <3>1, <3>3 DEF StatusNext, EffectiveStart, Interrupted
  <2> QED
    BY <2>2, <2>3
<1> QED
  BY <1>1, SyncInvariant, PTL

(* Calls that come one after the other run no day again that the state     *)
(* file has recorded as completed, however they end and whatever window    *)
(* size the next one is given.                                             *)
THEOREM CompletedStaysDone == Spec => []CompletedNotRerun
<1>1. SyncInv => CompletedNotRerun
  <2> SUFFICES ASSUME SyncInv, ~overlap, NEW p \in Procs, pc[p] = "run"
               PROVE  (cur[p]..LastOf(p)) \cap recorded = {}
    BY DEF CompletedNotRerun
  <2>1. \A d \in recorded : d \in Nat /\ d < cur[p]
    BY LastDayAssumption DEF SyncInv, TypeOK, Days, Remembered
  <2>2. cur[p] \in Nat /\ LastOf(p) \in Nat
    BY WindowEnds, LastDayAssumption DEF SyncInv, Days
  <2> QED
    BY <2>1, <2>2
<1> QED
  BY <1>1, SyncInvariant, PTL
=============================================================================
