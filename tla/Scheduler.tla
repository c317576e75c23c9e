------------------------------- MODULE Scheduler ------------------------------
(***************************************************************************)
(* The loop of scheduler.py that decides, poll by poll, between a deep     *)
(* scan, a regular one and none, with the scan it runs reduced to its      *)
(* lock, its detection (CheckRegistry) and how it ends.  Time is counted   *)
(* in polls of 30 seconds; it passes while a task sleeps or a scan runs.   *)
(***************************************************************************)
EXTENDS CheckRegistry

CONSTANTS
    RegularInterval,    \* polls between regular scans, 0: none
    DeepInterval,       \* polls between deep scans, 0: none
    Backoff             \* polls slept after an error

ASSUME SchedulerAssumption ==
    /\ RegularInterval \in Nat /\ DeepInterval \in Nat
    /\ Backoff \in Nat \ {0}

Kinds == {"regular", "deep"}
Interval == [regular |-> RegularInterval, deep |-> DeepInterval]

VARIABLES
    loop,       \* where the task of _scheduler_loop is
    nap,        \* polls it has still to sleep
    kind,       \* the scan it runs
    outcome,    \* how that scan ended
    uptime,     \* time.monotonic(), as far as a regular interval counts it
    since,      \* now - _last_regular_scan, now - _last_deep_scan
    lock,       \* watchdog:lock: free, the scheduler's, a UI scan's, or left behind
    stop,       \* stop_scheduler was called in this process
    ago,        \* history: polls since a scan that counts as one succeeded
    unseen      \* history: this process's loop has not counted that success

schedVars == <<loop, nap, kind, outcome, uptime, since, lock, stop, ago, unseen>>
vars == <<detVars, schedVars>>

Places == {"off", "boot", "asleep", "locking", "locked", "detect", "work", "finally"}

TypeOK ==
    /\ RegistryTypeOK
    /\ loop \in Places /\ nap \in 0..Backoff
    /\ kind \in Kinds /\ outcome \in {"none", "ok", "failed", "cancelled"}
    /\ uptime \in 0..RegularInterval
    /\ \A k \in Kinds : since[k] \in 0..Interval[k] /\ ago[k] \in 0..Interval[k]
    /\ lock \in {"free", "sched", "ui", "stuck"}
    /\ stop \in BOOLEAN
    /\ unseen \in [Kinds -> BOOLEAN]

\* A host that has been up for any time starts the process.
Init ==
    /\ RegistryInit
    /\ loop = "boot" /\ nap = 1
    /\ kind = "regular" /\ outcome = "none"
    /\ uptime \in 0..RegularInterval
    /\ since = [k \in Kinds |-> 0] /\ ago = Interval
    /\ unseen = [k \in Kinds |-> FALSE]
    /\ lock \in {"free", "stuck"}
    /\ stop = FALSE

-----------------------------------------------------------------------------
(* The loop.                                                               *)

Histories == <<ago, unseen>>
Clocks == <<uptime, since, Histories>>

Sleep(n) == loop' = "asleep" /\ nap' = n

\* release_lock clears the lock, whoever holds it, or fails unseen; then the
\* times start: never for a regular scan, this moment for a deep one.  Of what
\* succeeded before, the loop knows nothing; a deep scan waits all the same.
StartUp ==
    /\ loop = "boot" /\ nap = 0
    /\ \/ lock' = "free"
       \/ UNCHANGED lock
    /\ since' = [regular |-> uptime, deep |-> 0]
    /\ unseen' = [k \in Kinds |-> k = "regular"]
    /\ Sleep(1)
    /\ UNCHANGED <<kind, outcome, uptime, stop, ago, detVars>>

Due(k) == Interval[k] > 0 /\ since[k] >= Interval[k]

\* Mutant: the interval of the deep scan is not looked at first.
PollRegularFirst ==
    /\ loop = "asleep" /\ nap = 0
    /\ \/ /\ Due("regular")
          /\ kind' = "regular" /\ loop' = "locking" /\ UNCHANGED nap
       \/ /\ Due("deep") /\ ~Due("regular")
          /\ kind' = "deep" /\ loop' = "locking" /\ UNCHANGED nap
       \/ /\ ~Due("deep") /\ ~Due("regular")
          /\ Sleep(1) /\ UNCHANGED kind
    /\ UNCHANGED <<outcome, Clocks, lock, stop, detVars>>
\* A deep scan that is due goes before a regular one.
Poll ==
    /\ loop = "asleep" /\ nap = 0
    /\ \/ /\ Due("deep")
          /\ kind' = "deep" /\ loop' = "locking" /\ UNCHANGED nap
       \/ /\ Due("regular") /\ ~Due("deep")
          /\ kind' = "regular" /\ loop' = "locking" /\ UNCHANGED nap
       \/ /\ ~Due("deep") /\ ~Due("regular")
          /\ Sleep(1) /\ UNCHANGED kind
    /\ UNCHANGED <<outcome, Clocks, lock, stop, detVars>>

\* Mutant: an error of acquire_lock ends the loop.
TryLockFatal ==
    /\ loop = "locking"
    /\ \/ /\ lock = "free"
          /\ lock' = "sched" /\ loop' = "locked" /\ UNCHANGED nap
       \/ /\ lock # "free" /\ Sleep(1) /\ UNCHANGED lock
       \/ /\ loop' = "off" /\ UNCHANGED <<nap, lock>>
    /\ UNCHANGED <<kind, outcome, Clocks, stop, detVars>>
\* acquire_lock: busy means no scan and no new time, so the next poll tries
\* again; an error of the command is the loop's own, and may have cost the
\* answer only.
TryLock ==
    /\ loop = "locking"
    /\ \/ /\ lock = "free"
          /\ lock' = "sched" /\ loop' = "locked" /\ UNCHANGED nap
       \/ /\ lock # "free" /\ Sleep(1) /\ UNCHANGED lock
       \/ /\ Sleep(Backoff)
          /\ UNCHANGED lock \/ (lock = "free" /\ lock' = "stuck")
    /\ UNCHANGED <<kind, outcome, Clocks, stop, detVars>>

\* The progress is written before the try: if that fails nobody releases the
\* lock, which stays until it expires.
Prepare ==
    /\ loop = "locked"
    /\ \/ loop' = "detect" /\ RunAllChecks /\ UNCHANGED <<lock, nap>>
       \/ Sleep(Backoff) /\ lock' = "stuck" /\ UNCHANGED detVars
    /\ outcome' = "none"
    /\ UNCHANGED <<kind, Clocks, stop>>

Detected ==
    /\ loop = "detect" /\ LeaveDetection
    /\ IF det = "returned" THEN loop' = "work" /\ UNCHANGED outcome
       ELSE loop' = "finally" /\ outcome' = "cancelled"
    /\ UNCHANGED <<nap, kind, Clocks, lock, stop>>

\* A deep scan that succeeds counts as both kinds.
Counts(k) == k = "regular" \/ kind = "deep"

\* Everything from the dismissals to the Jira bugs, stored or not.
Work ==
    /\ loop = "work"
    /\ outcome' \in {"ok", "failed"}
    /\ loop' = "finally"
    /\ IF outcome' = "ok"
       THEN /\ ago' = [k \in Kinds |-> IF Counts(k) THEN 0 ELSE ago[k]]
            /\ unseen' = [k \in Kinds |-> Counts(k) \/ unseen[k]]
       ELSE UNCHANGED Histories
    /\ UNCHANGED <<nap, kind, uptime, since, lock, stop, detVars>>

\* Mutant: a deep scan leaves the time of the regular one alone.
CountOwn(clock) == [clock EXCEPT ![kind] = 0]
\* _last_deep_scan and _last_regular_scan: a deep scan counts as both.
Count(clock) == [clock EXCEPT !["regular"] = 0,
                              !["deep"] = IF kind = "deep" THEN 0 ELSE @]

\* The loop takes the times of the scan that has just succeeded.
Counted ==
    /\ since' = Count(since)
    /\ unseen' = [k \in Kinds |-> ~Counts(k) /\ unseen[k]]
NotCounted == UNCHANGED <<since, unseen>>

\* Mutant: the cancellation stops at the scan it interrupts.
FinallySwallowing ==
    /\ loop = "finally"
    /\ lock' = "free" /\ Sleep(1)
    /\ IF outcome = "ok" THEN Counted ELSE NotCounted
    /\ UNCHANGED <<kind, outcome, uptime, stop, ago, detVars>>
\* The lock is deleted, the times are taken if the scan returned True, and a
\* cancelled task ends.  A release that fails takes the place of the result
\* and of the cancellation: the loop goes on, without having counted the scan.
Finally ==
    /\ loop = "finally"
    /\ \/ /\ lock' = "free"
          /\ IF outcome = "cancelled" THEN loop' = "off" /\ UNCHANGED nap
             ELSE Sleep(1)
          /\ IF outcome = "ok" THEN Counted ELSE NotCounted
       \/ /\ lock' = "stuck"
          /\ Sleep(Backoff)
          /\ NotCounted
    /\ UNCHANGED <<kind, outcome, uptime, stop, ago, detVars>>

-----------------------------------------------------------------------------
(* What goes on around it.                                                 *)

\* stop_scheduler cancels the task once, at the await it is in.  Outside the
\* try, and in the finally block, that ends the task at once, whatever its
\* last command did to the lock; a scan is unwound first.
StopsAtOnce ==
    /\ loop \in {"boot", "asleep", "locking", "locked", "finally"}
    /\ loop' = "off"
    /\ \/ loop # "locked" /\ UNCHANGED lock
       \/ loop \in {"boot", "finally"} /\ lock' = "free"
       \/ loop = "locking" /\ lock = "free" /\ lock' = "stuck"
       \/ loop \in {"locked", "finally"} /\ lock' = "stuck"
    /\ UNCHANGED <<outcome, detVars>>

StopsDetection == loop = "detect" /\ CancelDetection /\ UNCHANGED <<loop, outcome, lock>>

StopsWork ==
    /\ loop = "work"
    /\ loop' = "finally" /\ outcome' = "cancelled"
    /\ UNCHANGED <<lock, detVars>>

Stop ==
    /\ ~stop /\ stop' = TRUE
    /\ StopsAtOnce \/ StopsDetection \/ StopsWork
    /\ UNCHANGED <<nap, kind, Clocks>>

\* The process ends, in order or not, and start_scheduler runs in the next.
\* Its scans are gone, and their lock is left behind.
Restart ==
    /\ loop' = "boot" /\ nap' = 1
    /\ kind' = "regular" /\ outcome' = "none" /\ stop' = FALSE
    /\ lock' = IF lock = "free" THEN "free" ELSE "stuck"
    /\ ProcessEnds
    /\ UNCHANGED Clocks

\* A UI scan takes the lock and deletes it; one left behind expires.
LockElsewhere ==
    /\ \/ lock = "free" /\ lock' = "ui"
       \/ lock = "ui" /\ lock' = "free"
       \/ lock = "stuck" /\ lock' = "free"
    /\ UNCHANGED <<loop, nap, kind, outcome, Clocks, stop, detVars>>

Later(clock) == [k \in Kinds |-> IF clock[k] < Interval[k] THEN clock[k] + 1 ELSE clock[k]]

\* A poll's time passes, once nothing is left to do at this moment.
Tick ==
    /\ \/ loop \in {"boot", "asleep"} /\ nap > 0
       \/ loop \in {"off", "detect", "work"}
    /\ nap' = IF nap > 0 THEN nap - 1 ELSE 0
    /\ uptime' = IF uptime < RegularInterval THEN uptime + 1 ELSE uptime
    /\ since' = Later(since) /\ ago' = Later(ago)
    /\ UNCHANGED <<loop, kind, outcome, lock, stop, unseen, detVars>>

Step == StartUp \/ Poll \/ TryLock \/ Prepare \/ Detected \/ Work \/ Finally
Registry == Detecting /\ UNCHANGED schedVars
Next == Step \/ Stop \/ Restart \/ LockElsewhere \/ Tick \/ Registry

\* The event loop runs what is ready, timers fire, keys expire, and the work
\* and the UI scans end: their agents and tools are under timeouts.  A check or
\* the thread of a read need not come back, and nobody need stop or restart
\* anything.
Fairness ==
    /\ WF_vars(Step) /\ WF_vars(Tick)
    /\ WF_vars(lock \in {"ui", "stuck"} /\ LockElsewhere)
    /\ WF_vars((Collect \/ Settled) /\ UNCHANGED schedVars)
    /\ \A c \in Checks : WF_vars((TimesOut(c) \/ Unwinds(c)) /\ UNCHANGED schedVars)

Spec == Init /\ [][Next]_vars /\ Fairness

-----------------------------------------------------------------------------
(* Properties.                                                             *)

\* A scan that is tried follows the last success that counts as one by a whole
\* interval, however scans fail, are stopped or find the lock busy, and a deep
\* one over restarts too (_scheduler_loop).  Exempt is a success this process's
\* loop never counted: of a scan whose release failed (scheduler.py:234), and for
\* a regular scan one of an earlier process (scheduler.py:33).
NoScanTooSoon ==
    [][\A k \in Kinds : (loop' = "locking" /\ loop # "locking" /\ kind' = k)
                            => ago[k] >= Interval[k] \/ unseen[k]]_vars

Trying(k) == loop = "locking" /\ kind = k

\* The scheduler is stopped, starts again, or was ended by the CancelledError of
\* one check, which the loop cannot tell from its own (registry.py:98-99,
\* scheduler.py:55-57).
Excused == stop \/ loop = "boot" \/ (loop = "off" /\ outcome = "cancelled")

\* Unless it is excused, the loop tries deep scans for ever: no failure, busy
\* lock, hanging check, stray thread or regular scan ends it or puts them off.
DeepsGoOn == []<>(Excused \/ Trying("deep"))

\* So are regular ones, unless deep scans are tried for ever and none of them
\* succeeds any more: they take their turn without taking all the turns.
RegularsGoOn ==
    ([]<>Trying("deep") => []<>~Due("deep"))
        => []<>(Excused \/ Trying("regular"))

\* A stop that finds a scan running ends the task, through the checks that have
\* to unwind, unless the lock could not be released (stop_scheduler).
StopIsHeeded ==
    det = "settling" \/ (loop = "finally" /\ outcome = "cancelled")
        ~> loop \in {"off", "boot"} \/ lock = "stuck"

\* Detection comes to an end with checks that never do, and with an executor
\* that earlier reads have filled (CHECK_TIMEOUT_S).
DetectionEnds == det \in {"waiting", "settling"} ~> det \notin {"waiting", "settling"}
=============================================================================
