------------------------------ MODULE ScanLock ------------------------------
(***************************************************************************)
(* The scan lock and the cancel flag of jenkins_watchdog/state.py, the two *)
(* kinds of scan that take the lock (the UI scan of api/router.py and the  *)
(* scheduled scan of scheduler.py), the stop handler, and the processes    *)
(* that run them and may die.                                              *)
(*                                                                         *)
(* Every Valkey command is a step of its own: between two commands of one  *)
(* task any other task, any other replica and the clock may act.  Both     *)
(* keys carry a time to live, counted here in ticks.                       *)
(*                                                                         *)
(* The lock is a lease without an owner: a scan may lose it to the clock,  *)
(* to a scheduler that starts up, or to another scan's DELETE.  The history *)
(* variable exposed holds the running scans to which one of these can have  *)
(* happened.                                                               *)
(***************************************************************************)
EXTENDS Naturals, FiniteSets

CONSTANTS
    Replicas,           \* server processes that share one Valkey
    SchedulerEnabled,   \* the replicas started with SCHEDULER_ENABLED
    LOCK_TTL,           \* ticks until watchdog:lock and the cancel flag expire
    MAX_INVESTIGATIONS, \* max_investigations_per_scan
    Faults,             \* TRUE: commands may fail and processes may die
    NoScan              \* nobody

Kinds == {"ui", "sched"}
Scan  == Replicas \X Kinds
Ui(r)    == <<r, "ui">>
Sched(r) == <<r, "sched">>
IsUi(s)  == s[2] = "ui"

ASSUME ScanLockAssumption ==
    /\ SchedulerEnabled \subseteq Replicas
    /\ LOCK_TTL \in Nat \ {0}
    /\ MAX_INVESTIGATIONS \in Nat
    /\ Faults \in BOOLEAN
    /\ NoScan \notin Scan

VARIABLES
    lockTtl,    \* ticks left of watchdog:lock, 0 when the key is absent
    cancelTtl,  \* ticks left of watchdog:scan:cancelled, 0 when absent
    pc,         \* the next Valkey command or phase of each scan task
    left,       \* investigations the scan has still to run
    quiet,      \* ticks since the scan last set or extended the lock, up to LOCK_TTL
    stop,       \* the stop handler of each replica
    sched,      \* the scheduler task of each replica
    holder,     \* history: the scan whose SET NX created the present key
    exposed     \* history: the running scans that let LOCK_TTL pass without a
                \* refresh, ran while a scheduler started up, sent their DELETE
                \* twice, or ran while an exposed scan sent its own

keys == <<lockTtl, cancelTtl, holder>>
vars == <<lockTtl, cancelTtl, pc, left, quiet, stop, sched, holder, exposed>>

\* Inside the try block of a scan, after the lock was taken.
Guarded == {"detect", "check", "refresh", "run", "rerefresh", "store"}
\* From the SET NX that succeeded up to the DELETE of release_lock.
Holding == Guarded \cup {"acquired", "release"}
Phases  == Holding \cup {"idle", "clear"}
Active(s) == pc[s] \in Holding
Running == {s \in Scan : Active(s)}

TypeOK ==
    /\ lockTtl \in 0..LOCK_TTL
    /\ cancelTtl \in 0..LOCK_TTL
    /\ pc \in [Scan -> Phases]
    /\ left \in [Scan -> 0..MAX_INVESTIGATIONS]
    /\ quiet \in [Scan -> 0..LOCK_TTL]
    /\ stop \in [Replicas -> {"idle", "checked", "flagged"}]
    /\ sched \in [Replicas -> {"boot", "on", "off"}]
    /\ holder \in Scan \cup {NoScan}
    /\ exposed \subseteq Running

Booted(r) == IF r \in SchedulerEnabled THEN "boot" ELSE "off"

Init ==
    /\ lockTtl = 0 /\ cancelTtl = 0 /\ holder = NoScan /\ exposed = {}
    /\ pc = [s \in Scan |-> "idle"]
    /\ left = [s \in Scan |-> 0]
    /\ quiet = [s \in Scan |-> 0]
    /\ stop = [r \in Replicas |-> "idle"]
    /\ sched = [r \in Replicas |-> Booted(r)]

-----------------------------------------------------------------------------
(* The operations of state.py.                                             *)

\* Mutant: SET without NX.
AcquireLockNoNX(s) == lockTtl' = LOCK_TTL /\ holder' = s /\ UNCHANGED cancelTtl

\* SET watchdog:lock "locked" NX EX 300: the value names no owner.
AcquireLock(s) ==
    /\ lockTtl = 0
    /\ lockTtl' = LOCK_TTL /\ holder' = s
    /\ UNCHANGED cancelTtl

\* Mutant: a refresh that reaches no key.
RefreshLockNoExpire == UNCHANGED keys

\* EXPIRE: extends whatever key is there, and restores none that is gone.
RefreshLock ==
    /\ lockTtl' = IF lockTtl > 0 THEN LOCK_TTL ELSE 0
    /\ UNCHANGED <<cancelTtl, holder>>

\* DELETE of both keys, whoever created them.
ReleaseLock == lockTtl' = 0 /\ cancelTtl' = 0 /\ holder' = NoScan

RequestScanCancel == cancelTtl' = LOCK_TTL /\ UNCHANGED <<lockTtl, holder>>

ClearScanCancel == cancelTtl' = 0 /\ UNCHANGED <<lockTtl, holder>>

-----------------------------------------------------------------------------
(* The scans.                                                              *)

\* Scans leave, and those in S that do not are exposed.
Leaving(S) ==
    /\ exposed' = {s \in exposed \cup S : pc'[s] \in Holding}
    /\ quiet' = [s \in Scan |-> IF pc'[s] \in Holding THEN quiet[s] ELSE 0]

Goto(s, phase) == pc' = [pc EXCEPT ![s] = phase]
Rest == <<stop, sched, exposed>>

\* The head of the investigation loop: the UI scan looks at the cancel flag
\* and then refreshes, the scheduled scan refreshes and then looks.
LoopHead(s, n) ==
    IF n = 0 THEN "store" ELSE IF IsUi(s) THEN "check" ELSE "refresh"

\* Mutant: a busy lock does not turn the scan away.
BeginUnlocked(s) ==
    /\ pc[s] = "idle"
    /\ ~IsUi(s) => sched[s[1]] = "on"
    /\ IF lockTtl = 0 THEN AcquireLock(s) ELSE UNCHANGED keys
    /\ Goto(s, "acquired")
    /\ quiet' = [quiet EXCEPT ![s] = 0]
    /\ UNCHANGED left /\ UNCHANGED Rest

\* trigger_scan with no scan active in this process, or the scheduler's turn.
Begin(s) ==
    /\ pc[s] = "idle"
    /\ ~IsUi(s) => sched[s[1]] = "on"
    /\ AcquireLock(s)
    /\ Goto(s, "acquired")
    /\ quiet' = [quiet EXCEPT ![s] = 0]
    /\ UNCHANGED left /\ UNCHANGED Rest

\* The command between taking the lock and entering the try block: the UI
\* drops an old cancel flag, the scheduler only reports its progress.
Prepare(s) ==
    /\ pc[s] = "acquired"
    /\ IF IsUi(s) THEN ClearScanCancel ELSE UNCHANGED keys
    /\ Goto(s, "detect")
    /\ UNCHANGED <<left, quiet>> /\ UNCHANGED Rest

\* Checks, dedupe, triage and plan: no refresh from here to the first one of
\* the investigation loop, however long they take.
Plan(s) ==
    /\ pc[s] = "detect"
    /\ \E n \in 0..MAX_INVESTIGATIONS :
          left' = [left EXCEPT ![s] = n] /\ Goto(s, LoopHead(s, n))
    /\ UNCHANGED keys /\ UNCHANGED quiet /\ UNCHANGED Rest

\* is_scan_cancelled: a cancelled UI scan unwinds to its finally block; a
\* cancelled scheduled scan leaves the loop and stores what it has, and takes
\* a read that fails for "not cancelled".
CheckCancel(s) ==
    /\ pc[s] = "check"
    /\ \/ cancelTtl > 0 /\ Goto(s, IF IsUi(s) THEN "release" ELSE "store")
       \/ cancelTtl = 0 /\ Goto(s, IF IsUi(s) THEN "refresh" ELSE "run")
       \/ Faults /\ ~IsUi(s) /\ Goto(s, "run")
    /\ UNCHANGED keys /\ UNCHANGED <<left, quiet>> /\ UNCHANGED Rest

Refresh(s) ==
    /\ RefreshLock
    /\ quiet' = [quiet EXCEPT ![s] = 0]
    /\ \/ pc[s] = "rerefresh" /\ Goto(s, LoopHead(s, left[s]))
       \/ pc[s] = "refresh" /\ Goto(s, IF IsUi(s) THEN "run" ELSE "check")
    /\ UNCHANGED left /\ UNCHANGED Rest

\* One investigation ends; the UI scan refreshes again if it got a result (and
\* goes on without the refresh when that one fails).
Investigate(s) ==
    /\ pc[s] = "run"
    /\ left' = [left EXCEPT ![s] = @ - 1]
    /\ \/ Goto(s, LoopHead(s, left[s] - 1))
       \/ IsUi(s) /\ Goto(s, "rerefresh")
    /\ UNCHANGED keys /\ UNCHANGED quiet /\ UNCHANGED Rest

\* store_run_result, store_investigations and what follows in the try block.
Store(s) ==
    /\ pc[s] = "store"
    /\ Goto(s, "release")
    /\ UNCHANGED keys /\ UNCHANGED <<left, quiet>> /\ UNCHANGED Rest

Release(s) ==
    /\ pc[s] = "release"
    /\ ReleaseLock
    /\ Goto(s, IF IsUi(s) THEN "clear" ELSE "idle")
    /\ Leaving(IF s \in exposed THEN Running ELSE {})
    /\ UNCHANGED <<left, stop, sched>>

\* The answer to the DELETE does not come, and the client will send it again
\* (retry_on_timeout): the scan no longer has a key of its own by then.
ReleaseUnanswered(s) ==
    /\ Faults
    /\ pc[s] = "release"
    /\ ReleaseLock
    /\ exposed' = IF s \in exposed THEN Running ELSE exposed \cup {s}
    /\ UNCHANGED <<pc, left, quiet, stop, sched>>

\* Mutant: release_lock called twice instead.
ClearReleasing(s) ==
    /\ pc[s] = "clear"
    /\ ReleaseLock
    /\ Goto(s, "idle")
    /\ UNCHANGED <<left, quiet>> /\ UNCHANGED Rest

\* The UI scan's clear_scan_cancel, one more command after the lock is free.
Clear(s) ==
    /\ pc[s] = "clear"
    /\ ClearScanCancel
    /\ Goto(s, "idle")
    /\ UNCHANGED <<left, quiet>> /\ UNCHANGED Rest

\* A command or a phase raises.  Inside the try block the finally block still
\* runs, unless the loop body swallows the exception; before the try block
\* (acquired) and in the finally block (release, clear) the rest is skipped.
Fail(s) ==
    /\ Faults
    /\ \/ /\ pc[s] \in Guarded \ (IF IsUi(s) THEN {"run", "rerefresh"} ELSE {"check"})
          /\ Goto(s, "release")
       \/ pc[s] \in {"acquired", "release", "clear"} /\ Goto(s, "idle")
    /\ Leaving({})
    /\ left' = [left EXCEPT ![s] = 0]
    /\ UNCHANGED keys /\ UNCHANGED <<stop, sched>>

\* task.cancel() at the command the task is waiting for: the try block unwinds
\* to release, anything before or after it is simply cut short.
Cancel(s) ==
    /\ pc' = [pc EXCEPT ![s] = IF @ \in Guarded THEN "release" ELSE "idle"]
    /\ left' = [left EXCEPT ![s] = 0]
    /\ Leaving({})
    /\ UNCHANGED keys

-----------------------------------------------------------------------------
(* The stop handler: a test, an awaited SET, and a cancel of whatever task *)
(* the module global names by then.                                        *)

StopCheck(r) ==
    /\ stop[r] = "idle"
    /\ pc[Ui(r)] \notin {"idle", "acquired"}
    /\ stop' = [stop EXCEPT ![r] = "checked"]
    /\ UNCHANGED keys /\ UNCHANGED <<pc, left, quiet, sched, exposed>>

StopRequest(r) ==
    /\ stop[r] = "checked"
    /\ RequestScanCancel
    /\ stop' = [stop EXCEPT ![r] = "flagged"]
    /\ UNCHANGED <<pc, left, quiet, sched, exposed>>

\* With no task to cancel left the handler raises, the flag stays.
StopCancel(r) ==
    /\ stop[r] = "flagged"
    /\ IF pc[Ui(r)] = "acquired" THEN UNCHANGED keys /\ UNCHANGED <<pc, left, quiet, exposed>>
                                 ELSE Cancel(Ui(r))
    /\ stop' = [stop EXCEPT ![r] = "idle"]
    /\ UNCHANGED sched

-----------------------------------------------------------------------------
(* The scheduler task, the processes and the clock.                        *)

\* Ten seconds after boot the scheduler deletes the lock, whoever holds it.
StartupClear(r) ==
    /\ sched[r] = "boot"
    /\ \/ ReleaseLock /\ exposed' = Running
       \/ UNCHANGED keys /\ UNCHANGED exposed
    /\ sched' = [sched EXCEPT ![r] = "on"]
    /\ UNCHANGED <<pc, left, quiet, stop>>

\* Shutdown: the task is cancelled and not awaited.
StopScheduler(r) ==
    /\ sched[r] # "off"
    /\ sched' = [sched EXCEPT ![r] = "off"]
    /\ Cancel(Sched(r))
    /\ UNCHANGED stop

\* The process dies and is started again; the keys in Valkey survive it.
Crash(r) ==
    /\ Faults
    /\ pc' = [s \in Scan |-> IF s[1] = r THEN "idle" ELSE pc[s]]
    /\ stop' = [stop EXCEPT ![r] = "idle"]
    /\ sched' = [sched EXCEPT ![r] = Booted(r)]
    /\ left' = [s \in Scan |-> IF s[1] = r THEN 0 ELSE left[s]]
    /\ Leaving({})
    /\ UNCHANGED keys

Less(n) == IF n = 0 THEN 0 ELSE n - 1
More(n) == IF n < LOCK_TTL THEN n + 1 ELSE n

\* A tick more for every running scan, one too many for some.
Wait ==
    /\ quiet' = [s \in Scan |-> IF Active(s) THEN More(quiet[s]) ELSE 0]
    /\ exposed' = exposed \cup {s \in Running : quiet[s] + 1 >= LOCK_TTL}

\* Mutants: a key set without EX.
TickLockStays ==
    /\ cancelTtl' = Less(cancelTtl)
    /\ Wait
    /\ UNCHANGED <<lockTtl, holder, pc, left, stop, sched>>
TickFlagStays ==
    /\ lockTtl' = Less(lockTtl)
    /\ holder' = IF lockTtl <= 1 THEN NoScan ELSE holder
    /\ Wait
    /\ UNCHANGED <<cancelTtl, pc, left, stop, sched>>

\* Valkey's clock.
Tick ==
    /\ lockTtl' = Less(lockTtl)
    /\ cancelTtl' = Less(cancelTtl)
    /\ holder' = IF lockTtl <= 1 THEN NoScan ELSE holder
    /\ Wait
    /\ UNCHANGED <<pc, left, stop, sched>>

Step(s) ==
    \/ Prepare(s) \/ Plan(s) \/ CheckCancel(s) \/ Refresh(s)
    \/ Investigate(s) \/ Store(s) \/ Release(s) \/ Clear(s)

Next ==
    \/ \E s \in Scan : Begin(s) \/ Step(s) \/ Fail(s) \/ ReleaseUnanswered(s)
    \/ \E r \in Replicas :
          \/ StopCheck(r) \/ StopRequest(r) \/ StopCancel(r)
          \/ StartupClear(r) \/ StopScheduler(r) \/ Crash(r)
    \/ Tick

Spec == Init /\ [][Next]_vars

\* The clock runs, and a task that can take its next step takes it: every
\* phase has a time limit of its own, and asyncio schedules ready tasks.
Fairness == WF_vars(Tick) /\ \A s \in Scan : WF_vars(Step(s))

FairSpec == Spec /\ Fairness
-----------------------------------------------------------------------------
(* Properties.                                                             *)

\* docs/valkey-deployment.md: the lock "ensures only one scan runs at a time
\* across replicas".  A scan runs from its SET NX to its DELETE.
MutualExclusion ==
    \A s, t \in Scan : Active(s) /\ Active(t) => s = t

\* What the lock does ensure: of two scans that run at once one is exposed, it
\* was silent for a whole LOCK_TTL, ran through the start of a scheduler, or met
\* the late or repeated DELETE of such a scan.  Nothing else, no failure, crash,
\* stop or cancellation at any await, lets a second scan in (acquire_lock,
\* refresh_lock, release_lock and their callers).
OnlyExposedOverlap ==
    \A s, t \in Scan : Active(s) /\ Active(t) /\ s # t => s \in exposed \/ t \in exposed

\* The key exists exactly while its creator is on record.
KeyHasHolder == lockTtl > 0 <=> holder # NoScan

\* A scan whose own key is still there has used up no more of the time to live
\* than it has been quiet for.
HolderCovered ==
    \A s \in Scan : Active(s) /\ holder = s => lockTtl + quiet[s] >= LOCK_TTL

\* A running scan's key is its own, neither lost nor replaced, until it is
\* exposed.
KeyIsOwn == \A s \in Running \ exposed : holder = s

\* The loop body is entered only with an investigation left to run.
Counted == \A s \in Scan : pc[s] \in {"check", "refresh", "run"} => left[s] > 0

\* Why exclusion holds: a running scan that is not exposed still holds the key
\* it created, with at least LOCK_TTL minus its quiet time left on it.
LockInv == KeyHasHolder /\ HolderCovered /\ KeyIsOwn /\ Counted

\* refresh_lock and release_lock name no owner, yet a scan that is not exposed
\* only ever extends or deletes the key it created itself.
OwnKeyOnly ==
    [][\A s \in Scan \ exposed :
          Refresh(s) \/ Release(s) \/ ReleaseUnanswered(s) => holder = s]_vars

\* One abstract mutex among the scans that are not exposed: the set of them
\* goes from none to one and back, and being exposed is leaving it.
Mutex == INSTANCE ScanMutex WITH running <- Running \ exposed
ImplementsMutex == Mutex!Spec

\* Whatever dies, fails or hangs about, the lock is free again and again.
LockFreed == lockTtl > 0 ~> lockTtl = 0

\* A cancel request that reached no scan does not last.
CancelDrains == cancelTtl > 0 ~> cancelTtl = 0

\* README: a scan flow ends in "release lock".  Without faults no key outlives
\* the scan that created it.
NoOrphanLock == \A s \in Scan : holder = s => Active(s)
=============================================================================
