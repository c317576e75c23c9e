---------------------------- MODULE SchedulerProofs ---------------------------
(***************************************************************************)
(* Proofs about Scheduler for any set of checks, any number of threads and *)
(* any intervals: no check outlives its detection, and no scan comes too   *)
(* soon.                                                                   *)
(***************************************************************************)
EXTENDS Scheduler, TLAPS

(* The detection.                                                          *)

\* Besides the property: a read is awaited by a task that is live, which makes
\* the second half of the property follow from the first.
RegistryInv ==
    /\ RegistryTypeOK
    /\ \A c \in reading : task[c] \in Live
    /\ NoStrayChecks

LEMMA DropTypes ==
    ASSUME RegistryTypeOK, NEW c \in Checks, Drop(c)
    PROVE  reading' \subseteq Checks /\ stray' \in Nat /\ reading' = reading \ {c}
  BY DEF Drop, RegistryTypeOK

LEMMA DetectingKeeps ==
    ASSUME RegistryInv, Detecting
    PROVE  RegistryInv'
<1> USE DEF RegistryInv, RegistryTypeOK, NoStrayChecks, AllDone, Live, Results
<1>1. CASE Collect
  <2>1. det' \in {"returned", "raised"} /\ got' \subseteq Checks
    BY <1>1 DEF Collect
  <2>2. AllDone /\ UNCHANGED <<task, reading, stray>>
    BY <1>1 DEF Collect
  <2> QED
    BY <2>1, <2>2
<1>2. CASE Settled
  BY <1>2 DEF Settled
<1>3. ASSUME NEW c \in Checks, Check(c)
      PROVE  RegistryInv'
  <2>1. task[c] \in Live /\ det \in {"waiting", "settling"}
    BY <1>3 DEF Check, CheckEnds, TimesOut, Unwinds
  <2>2. PICK result \in Results : Ends(c, result)
    BY <1>3 DEF Check, CheckEnds, TimesOut, Unwinds
  <2>3. reading' \subseteq Checks /\ stray' \in Nat /\ reading' = reading \ {c}
    BY <2>2, DropTypes DEF Ends
  <2> QED
    BY <2>1, <2>2, <2>3 DEF Ends
<1>4. ASSUME NEW c \in Checks, Read(c)
      PROVE  RegistryInv'
  <2>1. task[c] \in Live /\ det \in {"waiting", "settling"}
    BY <1>4 DEF Read, ReadStarts, ReadEnds, ReadDropped
  <2>2. UNCHANGED <<det, task, got>>
    BY <1>4 DEF Read, ReadStarts, ReadEnds, ReadDropped, ReadOnly
  <2>3. reading' \in {reading \cup {c}, reading \ {c}} /\ stray' \in Nat
    BY <1>4 DEF Read, ReadStarts, ReadEnds, ReadDropped, Drop
  <2> QED
    BY <2>1, <2>2, <2>3
<1>5. CASE StrayEnds
  BY <1>5 DEF StrayEnds, ReadOnly
<1> QED
  BY <1>1, <1>2, <1>3, <1>4, <1>5 DEF Detecting

LEMMA OthersKeep ==
    ASSUME RegistryInv,
           \/ UNCHANGED detVars
           \/ RunAllChecks
           \/ CancelDetection
           \/ LeaveDetection
           \/ ProcessEnds
    PROVE  RegistryInv'
<1> USE DEF RegistryInv, RegistryTypeOK, NoStrayChecks, AllDone, Live, Results
<1>1. CASE UNCHANGED detVars
  BY <1>1 DEF detVars
<1>2. CASE RunAllChecks
  BY <1>2 DEF RunAllChecks
<1>3. CASE CancelDetection
  BY <1>3 DEF CancelDetection, Cancelling
<1>4. CASE LeaveDetection
  BY <1>4 DEF LeaveDetection
<1>5. CASE ProcessEnds
  BY <1>5 DEF ProcessEnds
<1> QED
  BY <1>1, <1>2, <1>3, <1>4, <1>5

LEMMA RegistryInvHolds == Spec => []RegistryInv
<1>1. Init => RegistryInv
  BY DEF Init, RegistryInit, RegistryInv, RegistryTypeOK, NoStrayChecks,
         AllDone, Live
<1>2. RegistryInv /\ [Next]_vars => RegistryInv'
  <2> SUFFICES ASSUME RegistryInv, [Next]_vars PROVE RegistryInv'
    OBVIOUS
  <2>1. CASE Registry
    BY <2>1, DetectingKeeps DEF Registry
  <2>2. CASE StartUp \/ Poll \/ TryLock \/ Work \/ Finally \/ LockElsewhere \/ Tick
    <3>1. UNCHANGED detVars
      BY <2>2 DEF StartUp, Poll, TryLock, Work, Finally, LockElsewhere, Tick
    <3> QED
      BY <3>1, OthersKeep
  <2>3. CASE Prepare
    BY <2>3, OthersKeep DEF Prepare
  <2>4. CASE Detected
    BY <2>4, OthersKeep DEF Detected
  <2>5. CASE Stop
    <3>1. UNCHANGED detVars \/ CancelDetection
      BY <2>5 DEF Stop, StopsAtOnce, StopsDetection, StopsWork
    <3> QED
      BY <3>1, OthersKeep
  <2>6. CASE Restart
    BY <2>6, OthersKeep DEF Restart
  <2>7. CASE UNCHANGED vars
    <3>1. UNCHANGED detVars
      BY <2>7 DEF vars, detVars
    <3> QED
      BY <3>1, OthersKeep
  <2> QED
    BY <2>1, <2>2, <2>3, <2>4, <2>5, <2>6, <2>7 DEF Next, Step
<1> QED
  BY <1>1, <1>2, PTL DEF Spec

\* Whatever checks and threads there are, no check runs on and none of its reads
\* is awaited when its detection is left.
THEOREM NeverStrayChecks == Spec => []NoStrayChecks
<1>1. RegistryInv => NoStrayChecks
  BY DEF RegistryInv
<1> QED
  BY <1>1, RegistryInvHolds, PTL

-----------------------------------------------------------------------------
(* The intervals.                                                          *)

\* The loop's times are never further back than the last success, but for one
\* it has not counted.
TimesInv ==
    /\ uptime \in 0..RegularInterval
    /\ since \in [Kinds -> Nat] /\ ago \in [Kinds -> Nat]
    /\ unseen \in [Kinds -> BOOLEAN]
    /\ \A k \in Kinds : since[k] <= Interval[k] /\ ago[k] <= Interval[k]
    /\ \A k \in Kinds : unseen[k] \/ since[k] <= ago[k]

LEMMA IntervalType == Interval \in [Kinds -> Nat]
  BY SchedulerAssumption DEF Interval, Kinds

LEMMA TimesKept ==
    ASSUME TimesInv, [Next]_vars
    PROVE  TimesInv'
<1> USE IntervalType DEF TimesInv
<1>1. CASE UNCHANGED Clocks
  BY <1>1 DEF Clocks, Histories
<1>2. CASE StartUp
  <2>1. UNCHANGED <<uptime, ago>>
    BY <1>2 DEF StartUp
  <2>2. since' \in [Kinds -> Nat] /\ since'["regular"] <= RegularInterval
        /\ since'["deep"] = 0
    BY <1>2, SchedulerAssumption DEF StartUp, Kinds
  <2>3. unseen' \in [Kinds -> BOOLEAN] /\ unseen'["regular"]
    BY <1>2 DEF StartUp, Kinds
  <2> QED
    BY <2>1, <2>2, <2>3, SchedulerAssumption DEF Kinds, Interval
<1>3. CASE Tick
  <2>1. uptime' \in 0..RegularInterval /\ UNCHANGED unseen
    BY <1>3, SchedulerAssumption DEF Tick
  <2>2. since' = Later(since) /\ ago' = Later(ago)
    BY <1>3 DEF Tick
  <2> QED
    BY <2>1, <2>2 DEF Later
<1>4. CASE Finally
  <2>1. UNCHANGED <<uptime, ago>>
    BY <1>4 DEF Finally
  <2>2. CASE NotCounted
    BY <2>1, <2>2 DEF NotCounted
  <2>3. CASE Counted
    <3>1. since' \in [Kinds -> Nat] /\ \A k \in Kinds : since'[k] \in {0, since[k]}
      BY <2>3 DEF Counted, Count, Kinds
    <3>2. \A k \in Kinds : Counts(k) => since'[k] = 0
      BY <2>3 DEF Counted, Count, Counts, Kinds
    <3>3. unseen' \in [Kinds -> BOOLEAN]
      BY <2>3 DEF Counted, Counts
    <3>4. \A k \in Kinds : ~Counts(k) => unseen'[k] = unseen[k]
      BY <2>3 DEF Counted, Counts
    <3> QED
      BY <2>1, <3>1, <3>2, <3>3, <3>4
  <2> QED
    BY <1>4, <2>2, <2>3 DEF Finally
<1>5. CASE Work
  <2>1. UNCHANGED <<uptime, since>>
    BY <1>5 DEF Work
  <2>2. CASE UNCHANGED Histories
    BY <2>1, <2>2 DEF Histories
  <2>3. CASE /\ ago' = [k \in Kinds |-> IF Counts(k) THEN 0 ELSE ago[k]]
             /\ unseen' = [k \in Kinds |-> Counts(k) \/ unseen[k]]
    <3>1. ago' \in [Kinds -> Nat] /\ \A k \in Kinds : ago'[k] \in {0, ago[k]}
      BY <2>3
    <3>2. unseen' \in [Kinds -> BOOLEAN]
      BY <2>3 DEF Counts
    <3>3. \A k \in Kinds : ~unseen'[k] => ~unseen[k] /\ ago'[k] = ago[k]
      BY <2>3 DEF Counts
    <3> QED
      BY <2>1, <3>1, <3>2, <3>3
  <2> QED
    BY <1>5, <2>2, <2>3 DEF Work
<1>6. Poll \/ TryLock \/ Prepare \/ Detected \/ Stop \/ Restart
      \/ LockElsewhere \/ Registry \/ UNCHANGED vars => UNCHANGED Clocks
  BY DEF Poll, TryLock, Prepare, Detected, Stop, Restart, LockElsewhere,
         Registry, vars, schedVars, Clocks, Histories
<1> QED
  BY <1>1, <1>2, <1>3, <1>4, <1>5, <1>6 DEF Next, Step

LEMMA TimesInvHolds == Spec => []TimesInv
<1>1. Init => TimesInv
  BY IntervalType DEF Init, TimesInv
<1>2. TimesInv /\ [Next]_vars => TimesInv'
  BY TimesKept
<1> QED
  BY <1>1, <1>2, PTL DEF Spec

\* For any two intervals, a scan comes no sooner than one of them after the
\* last success that counts, over restarts too, unless this process's loop never
\* counted that success.
THEOREM NeverTooSoon == Spec => NoScanTooSoon
<1>1. TimesInv /\ [Next]_vars =>
        [\A k \in Kinds : (loop' = "locking" /\ loop # "locking" /\ kind' = k)
                              => ago[k] >= Interval[k] \/ unseen[k]]_vars
  <2> SUFFICES ASSUME TimesInv, [Next]_vars, NEW k \in Kinds,
                      loop' = "locking", loop # "locking", kind' = k
               PROVE  ago[k] >= Interval[k] \/ unseen[k]
    OBVIOUS
  <2>1. Poll
    BY DEF Next, Step, StartUp, TryLock, Prepare, Detected, Work, Finally, Stop,
           StopsAtOnce, StopsDetection, StopsWork, Restart, LockElsewhere, Tick,
           Registry, Sleep, vars, schedVars
  <2>2. Due(k)
    BY <2>1 DEF Poll, Sleep
  <2> QED
    BY <2>2, IntervalType DEF Due, TimesInv
<1> QED
  BY <1>1, TimesInvHolds, PTL DEF Spec, NoScanTooSoon

-----------------------------------------------------------------------------
(* Type correctness.                                                       *)

\* What the two invariants above leave out of TypeOK.
TaskInv ==
    /\ loop \in Places /\ nap \in 0..Backoff
    /\ kind \in Kinds /\ outcome \in {"none", "ok", "failed", "cancelled"}
    /\ lock \in {"free", "sched", "ui", "stuck"}
    /\ stop \in BOOLEAN

LEMMA TaskKept ==
    ASSUME TaskInv, [Next]_vars
    PROVE  TaskInv'
<1> USE SchedulerAssumption DEF TaskInv, Places, Kinds
<1>1. CASE StartUp
  BY <1>1 DEF StartUp, Sleep
<1>2. CASE Poll
  BY <1>2 DEF Poll, Sleep
<1>3. CASE TryLock
  BY <1>3 DEF TryLock, Sleep
<1>4. CASE Prepare
  BY <1>4 DEF Prepare, Sleep
<1>5. CASE Detected
  BY <1>5 DEF Detected
<1>6. CASE Work
  BY <1>6 DEF Work
<1>7. CASE Finally
  BY <1>7 DEF Finally, Sleep
<1>8. CASE Stop
  <2>1. loop' \in Places /\ lock' \in {"free", "sched", "ui", "stuck"}
        /\ outcome' \in {"none", "ok", "failed", "cancelled"}
    BY <1>8 DEF Stop, StopsAtOnce, StopsDetection, StopsWork
  <2> QED
    BY <1>8, <2>1 DEF Stop
<1>9. CASE Restart
  <2>1. nap' \in 0..Backoff
    BY <1>9 DEF Restart
  <2>2. loop' = "boot" /\ kind' = "regular" /\ outcome' = "none"
        /\ lock' \in {"free", "stuck"} /\ stop' = FALSE
    BY <1>9 DEF Restart
  <2> QED
    BY <2>1, <2>2
<1>10. CASE Tick
  <2>1. nap' \in 0..Backoff
    BY <1>10 DEF Tick
  <2>2. UNCHANGED <<loop, kind, outcome, lock, stop>>
    BY <1>10 DEF Tick
  <2> QED
    BY <2>1, <2>2
<1>11. CASE LockElsewhere
  BY <1>11 DEF LockElsewhere
<1>12. CASE Registry \/ UNCHANGED vars
  BY <1>12 DEF Registry, vars, schedVars
<1> QED
  BY <1>1, <1>2, <1>3, <1>4, <1>5, <1>6, <1>7, <1>8, <1>9, <1>10, <1>11, <1>12
     DEF Next, Step

\* Every variable keeps its type, for any checks, intervals and backoff.
THEOREM TypeCorrect == Spec => []TypeOK
<1>1. Init => TaskInv
  <2> SUFFICES ASSUME Init PROVE TaskInv
    OBVIOUS
  <2>1. nap \in 0..Backoff
    BY SchedulerAssumption DEF Init
  <2>2. loop = "boot" /\ kind = "regular" /\ outcome = "none"
        /\ lock \in {"free", "stuck"} /\ stop = FALSE
    BY DEF Init
  <2> QED
    BY <2>1, <2>2 DEF TaskInv, Places, Kinds
<1>2. TaskInv /\ [Next]_vars => TaskInv'
  BY TaskKept
<1>3. TaskInv /\ TimesInv /\ RegistryInv => TypeOK
  BY IntervalType DEF TaskInv, TimesInv, RegistryInv, TypeOK
<1> QED
  BY <1>1, <1>2, <1>3, TimesInvHolds, RegistryInvHolds, PTL DEF Spec
=============================================================================
