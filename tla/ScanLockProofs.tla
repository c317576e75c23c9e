---------------------------- MODULE ScanLockProofs --------------------------
(***************************************************************************)
(* Proofs about ScanLock for every number of replicas, every time to live  *)
(* and every number of investigations.                                     *)
(*                                                                         *)
(* No theorem assumes that a scan refreshes in time or that nothing runs    *)
(* while a scheduler starts up: what the clock, a start-up release and a    *)
(* late or repeated DELETE can do is in the history variable exposed, and   *)
(* the theorems say that nothing else lets two scans run at once.           *)
(***************************************************************************)
EXTENDS ScanLock, TLAPS

\* The part of the invariant that holds whatever the constants are.
TypeInv == TypeOK /\ Counted

USE ScanLockAssumption

LEMMA ScansOf == \A r \in Replicas : Ui(r) \in Scan /\ Sched(r) \in Scan
  BY DEF Ui, Sched, Scan, Kinds

\* Every state is well typed, and every investigation the loop starts is one
\* the plan counted.
THEOREM TypeCorrect == Spec => []TypeInv
<1>1. Init => TypeInv
  BY DEF Init, TypeInv, TypeOK, Counted, Phases, Holding, Guarded, Booted, Running, Active
<1>2. TypeInv /\ [Next]_vars => TypeInv'
  <2> SUFFICES ASSUME TypeInv, [Next]_vars PROVE TypeInv'
    OBVIOUS
  <2> USE DEF TypeInv, TypeOK, Counted, Phases, Holding, Guarded, Goto, keys, Rest,
             Active, Running, Leaving
  <2>1. ASSUME NEW s \in Scan, Begin(s) PROVE TypeInv'
    BY <2>1 DEF Begin, AcquireLock
  <2>2. ASSUME NEW s \in Scan, Prepare(s) PROVE TypeInv'
    BY <2>2 DEF Prepare, ClearScanCancel
  <2>3. ASSUME NEW s \in Scan, Plan(s) PROVE TypeInv'
    BY <2>3 DEF Plan, LoopHead
  <2>4. ASSUME NEW s \in Scan, CheckCancel(s) PROVE TypeInv'
    BY <2>4 DEF CheckCancel
  <2>5. ASSUME NEW s \in Scan, Refresh(s) PROVE TypeInv'
    BY <2>5 DEF Refresh, RefreshLock, LoopHead
  <2>6. ASSUME NEW s \in Scan, Investigate(s) PROVE TypeInv'
    BY <2>6 DEF Investigate, LoopHead
  <2>7. ASSUME NEW s \in Scan, Store(s) PROVE TypeInv'
    BY <2>7 DEF Store
  <2>8. ASSUME NEW s \in Scan, Release(s) PROVE TypeInv'
    BY <2>8 DEF Release, ReleaseLock
  <2>9. ASSUME NEW s \in Scan, Clear(s) PROVE TypeInv'
    BY <2>9 DEF Clear, ClearScanCancel
  <2>10. ASSUME NEW s \in Scan, Fail(s) PROVE TypeInv'
    BY <2>10 DEF Fail, LoopHead
  <2>11. ASSUME NEW r \in Replicas, StopCheck(r) PROVE TypeInv'
    BY <2>11 DEF StopCheck
  <2>12. ASSUME NEW r \in Replicas, StopRequest(r) PROVE TypeInv'
    BY <2>12 DEF StopRequest, RequestScanCancel
  <2>13. ASSUME NEW r \in Replicas, StopCancel(r) PROVE TypeInv'
    BY <2>13, ScansOf DEF StopCancel, Cancel
  <2>14. ASSUME NEW r \in Replicas, StartupClear(r) PROVE TypeInv'
    BY <2>14 DEF StartupClear, ReleaseLock
  <2>15. ASSUME NEW r \in Replicas, StopScheduler(r) PROVE TypeInv'
    BY <2>15, ScansOf DEF StopScheduler, Cancel
  <2>16. ASSUME NEW r \in Replicas, Crash(r) PROVE TypeInv'
    BY <2>16 DEF Crash, Booted
  <2>17. ASSUME Tick PROVE TypeInv'
    BY <2>17 DEF Tick, Less, Wait, More
  <2>18. ASSUME UNCHANGED vars PROVE TypeInv'
    BY <2>18 DEF vars
  <2>19. ASSUME NEW s \in Scan, ReleaseUnanswered(s) PROVE TypeInv'
    BY <2>19 DEF ReleaseUnanswered, ReleaseLock
  <2> QED
    BY <2>1, <2>2, <2>3, <2>4, <2>5, <2>6, <2>7, <2>8, <2>9, <2>10, <2>11, <2>12,
       <2>13, <2>14, <2>15, <2>16, <2>17, <2>18, <2>19 DEF Next, Step
<1> QED
  BY <1>1, <1>2, PTL DEF Spec

-----------------------------------------------------------------------------
\* What the time to live is worth, for all constants and all interleavings.
Accounted == KeyHasHolder /\ HolderCovered

\* A scan whose key is still there has at least LOCK_TTL minus its quiet time
\* left on it: nothing shortens a lock but its release and the clock.
THEOREM LockAccounted == Spec => []Accounted
<1>1. Init => Accounted
  BY DEF Init, Accounted, KeyHasHolder, HolderCovered
<1>2. TypeInv /\ Accounted /\ [Next]_vars => Accounted'
  <2> SUFFICES ASSUME TypeInv, Accounted, [Next]_vars PROVE Accounted'
    OBVIOUS
  <2> USE DEF TypeInv, TypeOK, Accounted, KeyHasHolder, HolderCovered,
              Active, Phases, Holding, Guarded, Goto, keys, Rest,
              Running, Leaving, Wait, More
  <2>1. ASSUME NEW s \in Scan, Begin(s) PROVE Accounted'
    BY <2>1 DEF Begin, AcquireLock
  <2>2. ASSUME NEW s \in Scan, Prepare(s) PROVE Accounted'
    BY <2>2 DEF Prepare, ClearScanCancel
  <2>3. ASSUME NEW s \in Scan, Plan(s) PROVE Accounted'
    BY <2>3 DEF Plan, LoopHead
  <2>4. ASSUME NEW s \in Scan, CheckCancel(s) PROVE Accounted'
    BY <2>4 DEF CheckCancel
  <2>5. ASSUME NEW s \in Scan, Refresh(s) PROVE Accounted'
    BY <2>5 DEF Refresh, RefreshLock, LoopHead
  <2>6. ASSUME NEW s \in Scan, Investigate(s) PROVE Accounted'
    BY <2>6 DEF Investigate, LoopHead
  <2>7. ASSUME NEW s \in Scan, Store(s) PROVE Accounted'
    BY <2>7 DEF Store
  <2>8. ASSUME NEW s \in Scan, Release(s) PROVE Accounted'
    BY <2>8 DEF Release, ReleaseLock
  <2>9. ASSUME NEW s \in Scan, Clear(s) PROVE Accounted'
    BY <2>9 DEF Clear, ClearScanCancel
  <2>10. ASSUME NEW s \in Scan, Fail(s) PROVE Accounted'
    BY <2>10 DEF Fail, LoopHead
  <2>11. ASSUME NEW r \in Replicas, StopCheck(r) PROVE Accounted'
    BY <2>11 DEF StopCheck
  <2>12. ASSUME NEW r \in Replicas, StopRequest(r) PROVE Accounted'
    BY <2>12 DEF StopRequest, RequestScanCancel
  <2>13. ASSUME NEW r \in Replicas, StopCancel(r) PROVE Accounted'
    BY <2>13 DEF StopCancel, Cancel, Ui
  <2>14. ASSUME NEW r \in Replicas, StartupClear(r) PROVE Accounted'
    BY <2>14 DEF StartupClear, ReleaseLock
  <2>15. ASSUME NEW r \in Replicas, StopScheduler(r) PROVE Accounted'
    BY <2>15 DEF StopScheduler, Cancel, Sched
  <2>16. ASSUME NEW r \in Replicas, Crash(r) PROVE Accounted'
    BY <2>16 DEF Crash
  <2>17. ASSUME Tick PROVE Accounted'
    BY <2>17 DEF Tick, Less
  <2>18. ASSUME UNCHANGED vars PROVE Accounted'
    BY <2>18 DEF vars
  <2>19. ASSUME NEW s \in Scan, ReleaseUnanswered(s) PROVE Accounted'
    BY <2>19 DEF ReleaseUnanswered, ReleaseLock
  <2> QED
    BY <2>1, <2>2, <2>3, <2>4, <2>5, <2>6, <2>7, <2>8, <2>9, <2>10, <2>11, <2>12,
       <2>13, <2>14, <2>15, <2>16, <2>17, <2>18, <2>19 DEF Next, Step
<1> QED
  BY <1>1, <1>2, TypeCorrect, PTL DEF Spec

-----------------------------------------------------------------------------
LEMMA OwnInit == Init => KeyIsOwn
  BY DEF Init, KeyIsOwn, Running, Active, Holding, Guarded

\* No step of any task takes the key of a running scan away without that scan
\* being exposed.
LEMMA OwnStep ==
  ASSUME TypeInv, Accounted, KeyIsOwn, [Next]_vars
  PROVE  KeyIsOwn'
  <2> USE DEF TypeInv, TypeOK, Accounted, KeyHasHolder,
              HolderCovered, KeyIsOwn, Active, Phases, Holding, Guarded, Goto,
              keys, Rest, Running, Leaving, Wait, More
  <2>1. ASSUME NEW s \in Scan, Begin(s) PROVE KeyIsOwn'
    BY <2>1 DEF Begin, AcquireLock
  <2>2. ASSUME NEW s \in Scan, Prepare(s) PROVE KeyIsOwn'
    BY <2>2 DEF Prepare, ClearScanCancel
  <2>3. ASSUME NEW s \in Scan, Plan(s) PROVE KeyIsOwn'
    BY <2>3 DEF Plan, LoopHead
  <2>4. ASSUME NEW s \in Scan, CheckCancel(s) PROVE KeyIsOwn'
    BY <2>4 DEF CheckCancel
  <2>5. ASSUME NEW s \in Scan, Refresh(s) PROVE KeyIsOwn'
    BY <2>5 DEF Refresh, RefreshLock, LoopHead
  <2>6. ASSUME NEW s \in Scan, Investigate(s) PROVE KeyIsOwn'
    BY <2>6 DEF Investigate, LoopHead
  <2>7. ASSUME NEW s \in Scan, Store(s) PROVE KeyIsOwn'
    BY <2>7 DEF Store
  <2>8. ASSUME NEW s \in Scan, Release(s) PROVE KeyIsOwn'
    BY <2>8 DEF Release, ReleaseLock
  <2>9. ASSUME NEW s \in Scan, Clear(s) PROVE KeyIsOwn'
    BY <2>9 DEF Clear, ClearScanCancel
  <2>10. ASSUME NEW s \in Scan, Fail(s) PROVE KeyIsOwn'
    BY <2>10 DEF Fail, LoopHead
  <2>11. ASSUME NEW r \in Replicas, StopCheck(r) PROVE KeyIsOwn'
    BY <2>11 DEF StopCheck
  <2>12. ASSUME NEW r \in Replicas, StopRequest(r) PROVE KeyIsOwn'
    BY <2>12 DEF StopRequest, RequestScanCancel
  <2>13. ASSUME NEW r \in Replicas, StopCancel(r) PROVE KeyIsOwn'
    BY <2>13 DEF StopCancel, Cancel, Ui
  <2>14. ASSUME NEW r \in Replicas, StartupClear(r) PROVE KeyIsOwn'
    BY <2>14 DEF StartupClear, ReleaseLock
  <2>15. ASSUME NEW r \in Replicas, StopScheduler(r) PROVE KeyIsOwn'
    BY <2>15 DEF StopScheduler, Cancel, Sched
  <2>16. ASSUME NEW r \in Replicas, Crash(r) PROVE KeyIsOwn'
    BY <2>16 DEF Crash
  <2>17. ASSUME Tick PROVE KeyIsOwn'
    BY <2>17 DEF Tick, Less
  <2>18. ASSUME UNCHANGED vars PROVE KeyIsOwn'
    BY <2>18 DEF vars
  <2>19. ASSUME NEW s \in Scan, ReleaseUnanswered(s) PROVE KeyIsOwn'
    BY <2>19 DEF ReleaseUnanswered, ReleaseLock
  <2> QED
    BY <2>1, <2>2, <2>3, <2>4, <2>5, <2>6, <2>7, <2>8, <2>9, <2>10, <2>11, <2>12,
       <2>13, <2>14, <2>15, <2>16, <2>17, <2>18, <2>19 DEF Next, Step

\* docs/valkey-deployment.md says the lock "ensures only one scan runs at a
\* time across replicas": it does, but for the exposed scans.
THEOREM Exclusion == Spec => []OnlyExposedOverlap
<1>1. KeyIsOwn => OnlyExposedOverlap
  BY DEF KeyIsOwn, Running, OnlyExposedOverlap
<1>2. TypeInv /\ Accounted /\ KeyIsOwn /\ [Next]_vars => KeyIsOwn'
  BY OwnStep
<1> QED
  BY <1>1, <1>2, OwnInit, TypeCorrect, LockAccounted, PTL DEF Spec

\* The whole inductive invariant, as TLC checks it.
THEOREM LockInvariant == Spec => []LockInv
<1>1. TypeInv /\ Accounted /\ KeyIsOwn => LockInv
  BY DEF TypeInv, Accounted, LockInv
<1>2. TypeInv /\ Accounted /\ KeyIsOwn /\ [Next]_vars => KeyIsOwn'
  BY OwnStep
<1> QED
  BY <1>1, <1>2, OwnInit, TypeCorrect, LockAccounted, PTL DEF Spec

\* A scan that is not exposed never extends or deletes a lock that another
\* scan took, although refresh_lock and release_lock name no owner.
THEOREM OwnKey == Spec => OwnKeyOnly
<1>1. LockInv /\ [Next]_vars
        => [\A s \in Scan \ exposed :
               Refresh(s) \/ Release(s) \/ ReleaseUnanswered(s) => holder = s]_vars
  BY DEF LockInv, KeyIsOwn, Running, Active, Holding, Guarded, Refresh, Release,
         ReleaseUnanswered, Goto
<1> QED
  BY <1>1, LockInvariant, PTL DEF Spec, OwnKeyOnly

-----------------------------------------------------------------------------
\* A scan that starts found the lock free: no other action starts one, and an
\* exposed scan stays exposed as long as it runs.
LEMMA StartsFree ==
  ASSUME TypeInv, [Next]_vars, NEW t \in Scan,
         ~(Active(t) /\ t \notin exposed), Active(t)' /\ t \notin exposed'
  PROVE  lockTtl = 0
  <2> USE DEF TypeInv, TypeOK, Active, Phases, Holding, Guarded, Goto, Rest,
              Running, Leaving, Wait
  <2>1. ASSUME NEW s \in Scan, Begin(s) PROVE lockTtl = 0
    BY <2>1 DEF Begin, AcquireLock
  <2>2. ASSUME NEW s \in Scan, Prepare(s) PROVE lockTtl = 0
    BY <2>2 DEF Prepare
  <2>3. ASSUME NEW s \in Scan, Plan(s) PROVE lockTtl = 0
    BY <2>3 DEF Plan
  <2>4. ASSUME NEW s \in Scan, CheckCancel(s) PROVE lockTtl = 0
    BY <2>4 DEF CheckCancel
  <2>5. ASSUME NEW s \in Scan, Refresh(s) PROVE lockTtl = 0
    BY <2>5 DEF Refresh
  <2>6. ASSUME NEW s \in Scan, Investigate(s) PROVE lockTtl = 0
    BY <2>6 DEF Investigate
  <2>7. ASSUME NEW s \in Scan, Store(s) PROVE lockTtl = 0
    BY <2>7 DEF Store
  <2>8. ASSUME NEW s \in Scan, Release(s) PROVE lockTtl = 0
    BY <2>8 DEF Release
  <2>9. ASSUME NEW s \in Scan, Clear(s) PROVE lockTtl = 0
    BY <2>9 DEF Clear
  <2>10. ASSUME NEW s \in Scan, Fail(s) PROVE lockTtl = 0
    BY <2>10 DEF Fail
  <2>11. ASSUME NEW r \in Replicas, StopCheck(r) PROVE lockTtl = 0
    BY <2>11 DEF StopCheck
  <2>12. ASSUME NEW r \in Replicas, StopRequest(r) PROVE lockTtl = 0
    BY <2>12 DEF StopRequest
  <2>13. ASSUME NEW r \in Replicas, StopCancel(r) PROVE lockTtl = 0
    BY <2>13 DEF StopCancel, Cancel, Ui
  <2>14. ASSUME NEW r \in Replicas, StartupClear(r) PROVE lockTtl = 0
    BY <2>14 DEF StartupClear
  <2>15. ASSUME NEW r \in Replicas, StopScheduler(r) PROVE lockTtl = 0
    BY <2>15 DEF StopScheduler, Cancel, Sched
  <2>16. ASSUME NEW r \in Replicas, Crash(r) PROVE lockTtl = 0
    BY <2>16 DEF Crash
  <2>17. ASSUME Tick PROVE lockTtl = 0
    BY <2>17 DEF Tick
  <2>18. ASSUME UNCHANGED vars PROVE lockTtl = 0
    BY <2>18 DEF vars
  <2>19. ASSUME NEW s \in Scan, ReleaseUnanswered(s) PROVE lockTtl = 0
    BY <2>19 DEF ReleaseUnanswered
  <2> QED
    BY <2>1, <2>2, <2>3, <2>4, <2>5, <2>6, <2>7, <2>8, <2>9, <2>10, <2>11, <2>12,
       <2>13, <2>14, <2>15, <2>16, <2>17, <2>18, <2>19 DEF Next, Step

\* The lock protocol implements the abstract mutex: a scan's SET NX starts its
\* turn, its release (or the end of its process) finishes it.
THEOREM Refinement == Spec => ImplementsMutex
<1> DEFINE running == Running \ exposed
<1>1. Init => Mutex!Init
  BY DEF Init, Mutex!Init, Running, Active, Holding, Guarded
<1>2. LockInv /\ TypeInv /\ LockInv' /\ [Next]_vars => [Mutex!Next]_running
  <2> SUFFICES ASSUME LockInv, TypeInv, LockInv', [Next]_vars
               PROVE  [Mutex!Next]_running
    OBVIOUS
  <2>1. \/ running = {}
        \/ \E s \in Scan : running = {s}
    BY DEF LockInv, KeyIsOwn, Running
  <2>2. \/ running' = {}
        \/ \E s \in Scan : running' = {s}
    BY DEF LockInv, KeyIsOwn, Running
  <2>3. ASSUME NEW s \in Scan, running = {s}, NEW t \in Scan, running' = {t}
        PROVE  s = t
    <3>1. /\ s \in Running \ exposed /\ lockTtl > 0
          /\ Active(t)' /\ t \notin exposed'
      BY <2>3 DEF LockInv, KeyIsOwn, KeyHasHolder, Running
    <3>2. ~(Active(t) /\ t \notin exposed) => lockTtl = 0
      BY <3>1, StartsFree
    <3>3. Active(t) /\ t \notin exposed
      BY <3>1, <3>2 DEF TypeInv, TypeOK
    <3> QED
      BY <2>3, <3>3 DEF Running
  <2> QED
    BY <2>1, <2>2, <2>3 DEF Mutex!Next, Mutex!Start, Mutex!Finish
<1> QED
  BY <1>1, <1>2, TypeCorrect, LockInvariant, PTL DEF Spec, Mutex!Spec, ImplementsMutex
=============================================================================
