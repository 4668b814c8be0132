------------------------------ MODULE AutoSync ------------------------------
(***************************************************************************)
(* The window loop of mirror-auto-sync --execute (MirrorAutoSyncReporter   *)
(* in mirror.py): the checkpoint file it resumes from, the lock file it    *)
(* takes around each window, the retries of a window, and the calls that   *)
(* run at once, raise or are killed.                                       *)
(*                                                                         *)
(* Days are 1..LastDay and every call asks for them from day 1 on.  A call *)
(* picks its window size and the day its to-date resolves to.  What a      *)
(* mirror run does to the lake is left to FileLake; here a run of a window *)
(* passes its post-checks, fails in a retryable way, or fails for good.    *)
(*                                                                         *)
(* All calls share one state file.  Its version is 1 for an A-share scope  *)
(* and 2 for the HK and US scopes, which also refuse to start next to      *)
(* another writer or to a quarantined file of their apis.  The detector of *)
(* writers looks for the resolved root in their command lines: the model   *)
(* takes every command line to give it that way.                           *)
(***************************************************************************)
EXTENDS Naturals, FiniteSets

CONSTANTS
    Procs,       \* processes that call mirror-auto-sync
    LastDay,     \* the last day any to-date resolves to
    WindowSizes, \* values of --window-days
    MaxAttempts, \* --max-attempts
    Versions,    \* versions the state file may have
    MaxDeaths    \* bound on the processes that are killed

ASSUME LastDayAssumption == LastDay \in Nat
ASSUME SizesAssumption == WindowSizes \subseteq Nat \ {0}
ASSUME AttemptsAssumption == MaxAttempts \in Nat \ {0}
ASSUME VersionsAssumption == Versions \subseteq {1, 2}
ASSUME DeathsAssumption == MaxDeaths \in Nat

VARIABLES
    version,  \* the version of the state file, set by the scope
    file,     \* the payload in the state file
    fileIs,   \* whether that file is there, and whole
    tmp,      \* the payload in .<state>.tmp
    tmpIs,    \* likewise
    lockFile, \* whether <state>.lock is there
    left,     \* it was left there by a kill or by an error of its own open or unlink
    dirty,    \* a quarantine row of the scope is in the catalog
    verified, \* days of the windows that passed their post-checks
    deaths,   \* processes killed so far
    overlap,  \* a call has written the state file next to another call
    recorded, \* while none has: days of the windows it was replaced with as completed
    pc,       \* where a call is
    payload,  \* its state_payload
    cur,      \* the first day of its current window
    to,       \* the day its to-date resolved to
    size,     \* its --window-days
    acquired, \* lock.acquired
    attempt,  \* attempts on its current window
    fd,       \* the file its _atomic_write_state writes into
    after     \* where it goes once the state is written

disk == <<file, fileIs, tmp, tmpIs>>
lock == <<lockFile, left>>
history == <<overlap, recorded>>
plan == <<to, size>>
vars == <<version, file, fileIs, tmp, tmpIs, lockFile, left, dirty, verified, deaths,
          overlap, recorded, pc, payload, cur, to, size, acquired, attempt, fd, after>>

V2 == version = 2

-----------------------------------------------------------------------------
(* The payload of the state file: next_start_date and in_progress_window,  *)
(* both 0 when absent, and completed_windows.                              *)
Days == 1..LastDay
Window(s, e) == [start |-> s, end |-> e]
NoWindow == Window(0, 0)
Windows == [start : Days, end : Days]
State(n, w, c) == [next |-> n, progress |-> w, completed |-> c]
States == [next : 0..(LastDay + 1), progress : Windows \union {NoWindow},
           completed : SUBSET Windows]
NoState == State(0, NoWindow, {})

Contents == {"absent", "empty", "whole", "garbled"}
PCs == {"idle", "gate", "acquire", "open", "status", "openTmp", "fillTmp", "replace",
        "run", "succeeded", "failed"}

(* Every file and local holds what the code may put there.                 *)
TypeOK ==
    /\ version \in Versions
    /\ file \in States
    /\ fileIs \in Contents
    /\ tmp \in States
    /\ tmpIs \in Contents
    /\ lockFile \in BOOLEAN /\ left \in BOOLEAN
    /\ overlap \in BOOLEAN /\ recorded \in SUBSET Days
    /\ dirty \in BOOLEAN
    /\ verified \in SUBSET Days
    /\ deaths \in 0..MaxDeaths
    /\ pc \in [Procs -> PCs]
    /\ payload \in [Procs -> States]
    /\ cur \in [Procs -> 0..(LastDay + 1)]
    /\ to \in [Procs -> 0..LastDay]
    /\ size \in [Procs -> WindowSizes \union {0}]
    /\ acquired \in [Procs -> BOOLEAN]
    /\ attempt \in [Procs -> 0..MaxAttempts]
    /\ fd \in [Procs -> {"none", "tmp", "file", "gone"}]
    /\ after \in [Procs -> {"run", "next", "exit"}]

Init ==
    /\ version \in Versions
    /\ file = NoState /\ fileIs = "absent"
    /\ tmp = NoState /\ tmpIs = "absent"
    /\ lockFile = FALSE /\ left = FALSE
    /\ overlap = FALSE /\ recorded = {}
    /\ dirty = FALSE
    /\ verified = {}
    /\ deaths = 0
    /\ pc = [p \in Procs |-> "idle"]
    /\ payload = [p \in Procs |-> NoState]
    /\ cur = [p \in Procs |-> 0]
    /\ to = [p \in Procs |-> 0]
    /\ size = [p \in Procs |-> 0]
    /\ acquired = [p \in Procs |-> FALSE]
    /\ attempt = [p \in Procs |-> 0]
    /\ fd = [p \in Procs |-> "none"]
    /\ after = [p \in Procs |-> "exit"]

-----------------------------------------------------------------------------
(* Resuming *)

(* _interrupted_window *)
Interrupted(s) == V2 /\ s.progress # NoWindow /\ s.progress \notin s.completed

(* Mutant: an interrupted window is taken for a completed one.             *)
EffectiveStartPast(s) ==
    IF Interrupted(s) THEN s.progress.end + 1 ELSE IF s.next > 1 THEN s.next ELSE 1

(* Where create starts its windows; from_date is day 1.                    *)
EffectiveStart(s) ==
    IF Interrupted(s) THEN s.progress.start ELSE IF s.next > 1 THEN s.next ELSE 1

(* _planned_windows cuts a window of the given size at the to-date.        *)
EndOf(s, n, last) == IF s + n - 1 <= last THEN s + n - 1 ELSE last
LastOf(p) == EndOf(cur[p], size[p], to[p])
WindowOf(p) == Window(cur[p], LastOf(p))

Goto(p, next) == pc' = [pc EXCEPT ![p] = next]

(* The call returns or the process is gone.                                *)
Leave(p) ==
    /\ pc' = [pc EXCEPT ![p] = "idle"]
    /\ payload' = [payload EXCEPT ![p] = NoState]
    /\ cur' = [cur EXCEPT ![p] = 0]
    /\ to' = [to EXCEPT ![p] = 0]
    /\ size' = [size EXCEPT ![p] = 0]
    /\ acquired' = [acquired EXCEPT ![p] = FALSE]
    /\ attempt' = [attempt EXCEPT ![p] = 0]
    /\ after' = [after EXCEPT ![p] = "exit"]

(* The state is read first; a state that does not parse blocks the call.   *)
ReadState(p, n, last) ==
    /\ pc[p] = "idle"
    /\ fileIs \in {"absent", "whole"}
    /\ payload' = [payload EXCEPT ![p] = file]
    /\ cur' = [cur EXCEPT ![p] = EffectiveStart(file)]
    /\ to' = [to EXCEPT ![p] = last]
    /\ size' = [size EXCEPT ![p] = n]
    /\ Goto(p, "gate")
    /\ UNCHANGED <<disk, lock, history, dirty, verified, deaths, version, acquired,
                   attempt, fd, after>>

(* _execute_lock_status, _execute_gate_errors and the end of the plan.     *)
GateOpen(p) ==
    /\ ~lockFile
    /\ V2 => ~dirty /\ \A q \in Procs \ {p} : pc[q] = "idle"
    /\ cur[p] <= to[p]

PassGate(p) ==
    /\ pc[p] = "gate"
    /\ GateOpen(p)
    /\ Goto(p, "acquire")
    /\ UNCHANGED <<disk, lock, history, dirty, verified, deaths, version, payload,
                   cur, plan, acquired, attempt, fd, after>>

(* A version 2 call is also refused because files changed a short while    *)
(* ago, which depends on the clock alone: a call may wait between its read *)
(* of the state and the gate, so that it passes with a state that another  *)
(* call has replaced since.                                                *)
Refused(p) ==
    /\ pc[p] = "gate"
    /\ ~GateOpen(p) \/ V2
    /\ Leave(p)
    /\ UNCHANGED <<disk, lock, history, dirty, verified, deaths, version, fd>>

-----------------------------------------------------------------------------
(* The lock *)

(* acquire asks for the status before it creates the file.                 *)
SeeNoLock(p) ==
    /\ pc[p] = "acquire"
    /\ ~lockFile
    /\ Goto(p, "open")
    /\ UNCHANGED <<disk, lock, history, dirty, verified, deaths, version, payload,
                   cur, plan, acquired, attempt, fd, after>>

(* A lock that is there when the status is asked for blocks the call,      *)
(* which leaves its state alone.                                           *)
Blocked(p) ==
    /\ pc[p] \in {"acquire", "status"}
    /\ lockFile
    /\ Leave(p)
    /\ UNCHANGED <<disk, lock, history, dirty, verified, deaths, version, fd>>

(* A version 1 call goes on to run its window, a version 2 call first      *)
(* writes it down (_write_in_progress_state).                              *)
StartRun(p) == Goto(p, "run") /\ attempt' = [attempt EXCEPT ![p] = 1]
ToRun(p) == ~V2 /\ StartRun(p) /\ UNCHANGED <<payload, after>>
ToWrite(p) ==
    /\ V2
    /\ payload' = [payload EXCEPT ![p] = State(payload[p].next, WindowOf(p),
                                              payload[p].completed)]
    /\ after' = [after EXCEPT ![p] = "run"]
    /\ Goto(p, "openTmp")
    /\ UNCHANGED attempt

Begin(p) ==
    /\ ToRun(p) \/ ToWrite(p)
    /\ UNCHANGED <<disk, left, history, dirty, verified, deaths, version, cur, plan, fd>>

Acquire(p) ==
    /\ lockFile' = TRUE
    /\ acquired' = [acquired EXCEPT ![p] = TRUE]
    /\ Begin(p)

(* open("x") creates the file, and its text is written and closed.         *)
OpenLock(p) == pc[p] = "open" /\ ~lockFile /\ Acquire(p)

(* The write or the close raises when the file is there already: the call  *)
(* ends before the try block whose finally would release it.               *)
LockTorn(p) ==
    /\ pc[p] = "open"
    /\ ~lockFile
    /\ lockFile' = TRUE
    /\ left' = TRUE
    /\ Leave(p)
    /\ UNCHANGED <<disk, history, dirty, verified, deaths, version, fd>>

(* FileExistsError: acquire answers with the status, asked for once more.  *)
LockMet(p) ==
    /\ pc[p] = "open"
    /\ lockFile
    /\ Goto(p, "status")
    /\ UNCHANGED <<disk, lock, history, dirty, verified, deaths, version, payload,
                   cur, plan, acquired, attempt, fd, after>>

(* An answer of "unlocked" holds no blocking errors, so the window is run. *)
LockGone(p) ==
    /\ pc[p] = "status"
    /\ ~lockFile
    /\ Begin(p)
    /\ UNCHANGED <<lockFile, acquired>>

(* Mutant: a call that has not acquired the lock releases it.              *)
UnlockAnyway(p) == lockFile' = FALSE

(* finally: release unlinks the file the call has acquired.                *)
Unlock(p) == lockFile' = (lockFile /\ ~acquired[p])

-----------------------------------------------------------------------------
(* _atomic_write_state: open and truncate the temporary file, fill it,     *)
(* rename it.  Its name is the same for every process, and two of the      *)
(* three writes happen after the lock is released.                         *)

(* History: what the file says is done, until two calls have met over it.  *)
DaysOf(windows) == {d \in Days : \E w \in windows : w.start <= d /\ d <= w.end}
MeetOthers(p) == overlap' = (overlap \/ \E q \in Procs \ {p} : pc[q] # "idle")
Recorded(windows) ==
    recorded' = IF overlap' THEN {} ELSE recorded \union DaysOf(windows)

OpenTmp(p) ==
    /\ pc[p] = "openTmp"
    /\ tmp' = NoState /\ tmpIs' = "empty"
    /\ MeetOthers(p) /\ Recorded({})
    /\ fd' = [fd EXCEPT ![p] = "tmp"]
    /\ Goto(p, "fillTmp")
    /\ UNCHANGED <<file, fileIs, lock, dirty, verified, deaths, version,
                   payload, cur, plan, acquired, attempt, after>>

(* A text written over that of another process may leave its tail.         *)
Written(old) == IF old = "empty" THEN {"whole"} ELSE {"whole", "garbled"}

FillTmp(p) ==
    /\ pc[p] = "fillTmp"
    /\ \/ /\ fd[p] = "tmp"
          /\ tmp' = payload[p]
          /\ tmpIs' \in Written(tmpIs)
          /\ UNCHANGED <<file, fileIs>>
       \/ /\ fd[p] = "file"
          /\ file' = payload[p]
          /\ fileIs' \in Written(fileIs)
          /\ UNCHANGED <<tmp, tmpIs>>
       \/ fd[p] = "gone" /\ UNCHANGED disk
    /\ fd' = [fd EXCEPT ![p] = "none"]
    /\ Goto(p, "replace")
    /\ UNCHANGED <<lock, history, dirty, verified, deaths, version, payload, cur,
                   plan, acquired, attempt, after>>

(* The rename takes the files that others have open along.                 *)
Renamed(f) == CASE f = "tmp" -> "file" [] f = "file" -> "gone" [] OTHER -> f

Rename(p) ==
    /\ tmpIs # "absent"
    /\ MeetOthers(p) /\ Recorded(tmp.completed)
    /\ file' = tmp
    /\ fileIs' = tmpIs
    /\ tmp' = NoState /\ tmpIs' = "absent"
    /\ fd' = [q \in Procs |-> Renamed(fd[q])]
    /\ UNCHANGED <<lock, dirty, verified, deaths, version>>

(* ... and the window is run.                                              *)
ReplaceThenRun(p) ==
    /\ pc[p] = "replace" /\ after[p] = "run"
    /\ Rename(p)
    /\ StartRun(p)
    /\ UNCHANGED <<payload, cur, plan, acquired, after>>

(* Mutant: the window is started once more.                                *)
ReplaceThenAgain(p) ==
    /\ pc[p] = "replace" /\ after[p] = "next" /\ LastOf(p) < to[p]
    /\ Rename(p)
    /\ Goto(p, "acquire")
    /\ UNCHANGED <<payload, cur, plan, acquired, attempt, after>>

(* ... and the next window is started.                                     *)
ReplaceThenNext(p) ==
    /\ pc[p] = "replace" /\ after[p] = "next" /\ LastOf(p) < to[p]
    /\ Rename(p)
    /\ cur' = [cur EXCEPT ![p] = LastOf(p) + 1]
    /\ Goto(p, "acquire")
    /\ UNCHANGED <<payload, plan, acquired, attempt, after>>

(* ... and the call returns, after a failed window or its last one.        *)
ReplaceThenReturn(p) ==
    /\ pc[p] = "replace"
    /\ after[p] = "next" => LastOf(p) >= to[p]
    /\ after[p] # "run"
    /\ Rename(p)
    /\ Leave(p)

-----------------------------------------------------------------------------
(* Running a window *)

EndRun(p, result) == Goto(p, result) /\ attempt' = [attempt EXCEPT ![p] = 0]

(* The run succeeds and _post_checks_passed.                               *)
RunPasses(p) ==
    /\ pc[p] = "run"
    /\ verified' = verified \union cur[p]..LastOf(p)
    /\ EndRun(p, "succeeded")
    /\ UNCHANGED <<disk, lock, history, dirty, deaths, version, payload, cur, plan,
                   acquired, fd, after>>

(* Mutant: the limit on attempts is not tested.                            *)
RunRetriedBeyond(p) ==
    /\ pc[p] = "run"
    /\ attempt' = [attempt EXCEPT ![p] = @ + 1]
    /\ dirty' \in {dirty, TRUE}
    /\ UNCHANGED <<disk, lock, history, verified, deaths, version, pc, payload, cur,
                   plan, acquired, fd, after>>

(* Every failed item has a retryable reason and attempts are left; failed  *)
(* fetches may have left quarantine rows.                                  *)
RunRetried(p) ==
    /\ pc[p] = "run"
    /\ attempt[p] < MaxAttempts
    /\ attempt' = [attempt EXCEPT ![p] = @ + 1]
    /\ dirty' \in {dirty, TRUE}
    /\ UNCHANGED <<disk, lock, history, verified, deaths, version, pc, payload, cur,
                   plan, acquired, fd, after>>

(* A reason that is not retryable, or no attempts left.                    *)
RunFails(p) ==
    /\ pc[p] = "run"
    /\ dirty' \in {dirty, TRUE}
    /\ EndRun(p, "failed")
    /\ UNCHANGED <<disk, lock, history, verified, deaths, version, payload, cur,
                   plan, acquired, fd, after>>

(* Release the lock, then go on to write the new payload.                  *)
ReleaseAndWrite(p, new, next) ==
    /\ Unlock(p)
    /\ acquired' = [acquired EXCEPT ![p] = FALSE]
    /\ payload' = [payload EXCEPT ![p] = new]
    /\ after' = [after EXCEPT ![p] = next]
    /\ Goto(p, "openTmp")
    /\ UNCHANGED <<disk, left, history, dirty, verified, deaths, version, cur, plan,
                   attempt, fd>>

(* Mutant: the window stays in progress in the state of a success.         *)
ReleaseSucceededInProgress(p) ==
    /\ pc[p] = "succeeded"
    /\ ReleaseAndWrite(p, State(LastOf(p) + 1, payload[p].progress,
                                payload[p].completed \union {WindowOf(p)}), "next")

(* Mutant: a succeeded window does not advance the checkpoint.             *)
ReleaseSucceededInPlace(p) ==
    /\ pc[p] = "succeeded"
    /\ ReleaseAndWrite(p, State(cur[p], NoWindow,
                                payload[p].completed \union {WindowOf(p)}), "next")

(* _write_state: a version 1 payload has no window in progress to clear.   *)
ReleaseSucceeded(p) ==
    /\ pc[p] = "succeeded"
    /\ ReleaseAndWrite(p, State(LastOf(p) + 1, NoWindow,
                                payload[p].completed \union {WindowOf(p)}), "next")

(* Mutant: a failed window is passed over.                                 *)
ReleaseFailedPast(p) ==
    /\ pc[p] = "failed"
    /\ ReleaseAndWrite(p, State(LastOf(p) + 1, NoWindow, payload[p].completed), "next")

(* _write_failed_state writes a version 2 payload only.                    *)
FailedToReturn(p) ==
    /\ ~V2
    /\ Unlock(p)
    /\ Leave(p)
    /\ UNCHANGED <<disk, left, history, dirty, verified, deaths, version, fd>>

FailedToWrite(p) ==
    /\ V2
    /\ ReleaseAndWrite(p, State(cur[p], NoWindow, payload[p].completed), "exit")

ReleaseFailed(p) == pc[p] = "failed" /\ (FailedToReturn(p) \/ FailedToWrite(p))

(* A step of the call that may raise, before the release of its lock or    *)
(* after it.                                                               *)
MayRaise(p) ==
    pc[p] \in {"gate", "acquire", "open", "status", "run", "openTmp", "fillTmp", "replace"}

(* Mutant: the lock is kept when the call raises.                          *)
RaiseKeepingLock(p) ==
    /\ MayRaise(p)
    /\ fd' = [fd EXCEPT ![p] = "none"]
    /\ Leave(p)
    /\ UNCHANGED <<disk, lock, history, dirty, verified, deaths, version>>

(* A mirror run, the catalog, the lock's directory, its creation before    *)
(* the file is there, or a write of the state raises, or another process   *)
(* has renamed the temporary file: the call ends.  The finally that gives  *)
(* a lock back surrounds the steps that come after its acquisition.        *)
Raise(p) ==
    /\ MayRaise(p)
    /\ Unlock(p)
    /\ fd' = [fd EXCEPT ![p] = "none"]
    /\ Leave(p)
    /\ UNCHANGED <<disk, left, history, dirty, verified, deaths, version>>

(* The unlink of release raises, after a window or after an exception.     *)
ReleaseRaises(p) ==
    /\ acquired[p]
    /\ left' = TRUE
    /\ fd' = [fd EXCEPT ![p] = "none"]
    /\ Leave(p)
    /\ UNCHANGED <<disk, lockFile, history, dirty, verified, deaths, version>>

-----------------------------------------------------------------------------
(* The process is killed: its lock file and its temporary file stay.       *)
Die(p) ==
    /\ pc[p] # "idle"
    /\ deaths < MaxDeaths
    /\ deaths' = deaths + 1
    /\ left' = (left \/ acquired[p])
    /\ fd' = [fd EXCEPT ![p] = "none"]
    /\ Leave(p)
    /\ UNCHANGED <<disk, lockFile, history, dirty, verified, version>>

(* Nothing deletes a lock that was left but the operator, who has made     *)
(* sure that its process is gone.                                          *)
RemoveStaleLock ==
    /\ lockFile
    /\ \A p \in Procs : ~acquired[p]
    /\ lockFile' = FALSE
    /\ left' = FALSE
    /\ UNCHANGED <<disk, history, dirty, verified, deaths, version, pc, payload, cur,
                   plan, acquired, attempt, fd, after>>

Start(p) == \E n \in WindowSizes, last \in Days : ReadState(p, n, last)

(* The steps of a call that has started.                                   *)
Continue(p) ==
    \/ PassGate(p) \/ Refused(p)
    \/ SeeNoLock(p) \/ OpenLock(p) \/ LockTorn(p)
    \/ LockMet(p) \/ LockGone(p) \/ Blocked(p)
    \/ OpenTmp(p) \/ FillTmp(p)
    \/ ReplaceThenRun(p) \/ ReplaceThenNext(p) \/ ReplaceThenReturn(p)
    \/ RunPasses(p) \/ RunRetried(p) \/ RunFails(p)
    \/ ReleaseSucceeded(p) \/ ReleaseFailed(p)
    \/ Raise(p) \/ ReleaseRaises(p)

Next ==
    \/ \E p \in Procs : Start(p) \/ Continue(p) \/ Die(p)
    \/ RemoveStaleLock

Spec == Init /\ [][Next]_vars

(* A call that has started goes on running.                                *)
FairSpec == Spec /\ \A p \in Procs : WF_vars(Continue(p))

-----------------------------------------------------------------------------
(* Safety *)

(* The checkpoint never gets ahead of the data: every day before the       *)
(* next_start_date of a readable state file belongs to a window whose run  *)
(* passed its post-checks, whatever was killed, raised, retried, resumed   *)
(* or written by two processes at once.                                    *)
CheckpointCovered ==
    fileIs = "whole" => \A d \in Days : d < file.next => d \in verified

(* The lock file belongs to the one call that created it, which finds it   *)
(* in place until it releases it: no release, no raise and no operator     *)
(* takes it from under a call that is alive.                               *)
OneLockHolder ==
    \A p, q \in Procs : acquired[p] => lockFile /\ (acquired[q] => p = q)

(* "Lock acquisition is required before any auto-sync execution window     *)
(* starts" (docs/codex_goal_hk_us_auto_sync_execution_guardrails.md).  An  *)
(* acquire that meets a lock and then finds it released breaks it.         *)
WindowNeedsLock == \A p \in Procs : pc[p] = "run" => acquired[p]

(* A lock file has a living owner: the return, the failure and the         *)
(* exception paths all give it back.  One that has none was left by a      *)
(* process killed while it held it, by a write that failed after the       *)
(* exclusive creation, or by an unlink that failed, and by nothing else.   *)
LockHasOwner == lockFile => left \/ \E p \in Procs : acquired[p]

(* mirror-auto-sync-status announces the window the next call really       *)
(* starts with, after crashes, failures and changes of the window size.    *)
StatusNext == IF file.progress # NoWindow THEN file.progress.start ELSE file.next
StatusAnnouncesStart ==
    fileIs = "whole" /\ StatusNext # 0 => StatusNext = EffectiveStart(file)

(* "completed window not rerun" (the document on the HK and US scopes):     *)
(* calls that come one after the other, killed, raised, failed or resumed  *)
(* with another window size, never run a day again that the state file has *)
(* once recorded as completed.  A call next to another may: it starts from *)
(* the state it has read, and neither gate nor lock looks at it again.     *)
CompletedNotRerun ==
    ~overlap => \A p \in Procs : pc[p] = "run" => (cur[p]..LastOf(p)) \cap recorded = {}

(* "atomically update completed/failed windows": no sequence of writes     *)
(* leaves a state file that no later call can read.                        *)
StateFileReadable == fileIs \in {"absent", "whole"}

-----------------------------------------------------------------------------
(* Liveness *)

(* A call always returns: its windows and its attempts run out.            *)
EveryCallEnds == \A p \in Procs : pc[p] # "idle" ~> pc[p] = "idle"

(* A failure of the host: everything that may raise but the mirror run,    *)
(* and the refusal of a call whose gate is open.                           *)
Lapse(p) ==
    \/ pc[p] # "run" /\ Raise(p)
    \/ LockTorn(p) \/ ReleaseRaises(p)
    \/ GateOpen(p) /\ Refused(p)

(* The host settles, and an operator starts calls again and again up to    *)
(* the last day, removes locks that were left and can count on an api that *)
(* sometimes answers.                                                      *)
Driven ==
    /\ <>[][\A p \in Procs : ~Lapse(p)]_vars
    /\ SF_vars(RemoveStaleLock)
    /\ \A p \in Procs :
        SF_vars(\E n \in WindowSizes : ReadState(p, n, LastDay)) /\ SF_vars(RunPasses(p))

(* Calls that are driven in this way bring the whole range in, and the     *)
(* checkpoint says so, whatever the sizes of their windows and whatever    *)
(* was killed.  The exception is a HK or US scope with a quarantine row:   *)
(* the gate of every later call is closed for good.                        *)
EventuallySynced ==
    Driven => \/ <>[](verified = Days /\ file.next = LastDay + 1)
              \/ <>[](V2 /\ dirty)
=============================================================================
