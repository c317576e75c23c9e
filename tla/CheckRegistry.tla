----------------------------- MODULE CheckRegistry ----------------------------
(***************************************************************************)
(* run_all_checks of checks/registry.py: a task per check, each under its  *)
(* own timeout, a loop that waits until all are done, and the way out when *)
(* the scan around it is cancelled.  A check reads in the threads of       *)
(* asyncio.to_thread (clients/k8s.py, clients/jenkins.py): dropping the    *)
(* await of a read does not stop its thread, which keeps its place in the  *)
(* executor.                                                               *)
(***************************************************************************)
EXTENDS Naturals, FiniteSets

CONSTANTS
    Checks,
    Workers     \* the threads of the executor that reads run in

ASSUME RegistryAssumption == Workers \in Nat

VARIABLES
    det,        \* what run_all_checks is at
    task,       \* the task of each check
    got,        \* the checks whose findings it returned
    reading,    \* the checks that await a read a thread is at
    stray       \* the threads whose read nobody awaits any more

detVars == <<det, task, got, reading, stray>>

Live == {"running", "cancelling"}
Results == {"answered", "raised", "late", "cancelled"}

RegistryTypeOK ==
    /\ det \in {"idle", "waiting", "settling", "returned", "raised"}
    /\ task \in [Checks -> {"none"} \cup Live \cup Results]
    /\ got \subseteq Checks
    /\ reading \subseteq Checks
    /\ stray \in Nat

RegistryInit ==
    /\ det = "idle"
    /\ task = [c \in Checks |-> "none"]
    /\ got = {}
    /\ reading = {} /\ stray = 0

AllDone == \A c \in Checks : task[c] \notin Live

RunAllChecks ==
    /\ det' = "waiting"
    /\ task' = [c \in Checks |-> "running"]
    /\ got' = {}
    /\ UNCHANGED <<reading, stray>>

-----------------------------------------------------------------------------
(* The reads.  A check is at one read at a time, or waits for all it       *)
(* gathered as for one.                                                    *)

ReadOnly == UNCHANGED <<det, task, got>>

\* run_sync hands the call to the executor; with all threads taken the call
\* queues, and its await can still time out or be cancelled.
ReadStarts(c) ==
    /\ task[c] = "running" /\ c \notin reading
    /\ Cardinality(reading) + stray < Workers
    /\ reading' = reading \cup {c}
    /\ UNCHANGED stray /\ ReadOnly

\* The call returns or raises; a client without a timeout may never do so.
ReadEnds(c) ==
    /\ c \in reading
    /\ reading' = reading \ {c}
    /\ UNCHANGED stray /\ ReadOnly

\* The await of a read ends before the read: the thread goes on.
Drop(c) ==
    /\ reading' = reading \ {c}
    /\ stray' = IF c \in reading THEN stray + 1 ELSE stray

\* run_sync gives up on its call, and the check sees a TimeoutError.
ReadDropped(c) ==
    /\ task[c] = "running" /\ c \in reading
    /\ Drop(c) /\ ReadOnly

\* A thread nobody awaits comes to its end; nothing makes it.
StrayEnds ==
    /\ stray > 0 /\ stray' = stray - 1
    /\ UNCHANGED reading /\ ReadOnly

-----------------------------------------------------------------------------
(* The checks.                                                             *)

Ends(c, result) ==
    /\ task' = [task EXCEPT ![c] = result]
    /\ Drop(c)
    /\ UNCHANGED <<det, got>>

\* check.run() comes back; nothing makes it.  _run_single catches no
\* CancelledError, so one that comes out of the check ends its task cancelled.
CheckEnds(c) ==
    /\ task[c] = "running" /\ c \notin reading
    /\ \E result \in {"answered", "raised", "cancelled"} : Ends(c, result)

\* Mutant: a check has as long as it takes.
NeverTimesOut(c) == task[c] = "late" /\ Ends(c, "late")
\* asyncio.wait_for gives up on it, and _run_single answers no findings; a read
\* it was at goes on in its thread.
TimesOut(c) == task[c] = "running" /\ Ends(c, "late")

\* A cancelled check unwinds, and may fail while it does.
Unwinds(c) ==
    /\ task[c] = "cancelling"
    /\ \E result \in {"cancelled", "raised"} : Ends(c, result)

\* A check that raised is logged; the findings of the others are kept.  One
\* that ended cancelled makes the whole detection raise CancelledError.
Collect ==
    /\ det = "waiting" /\ AllDone
    /\ \/ /\ \A c \in Checks : task[c] # "cancelled"
          /\ det' = "returned"
          /\ got' = {c \in Checks : task[c] = "answered"}
       \/ /\ \E c \in Checks : task[c] = "cancelled"
          /\ det' = "raised"
          /\ UNCHANGED got
    /\ UNCHANGED <<task, reading, stray>>

Cancelling == [c \in Checks |-> IF task[c] = "running" THEN "cancelling" ELSE task[c]]

\* Mutant: the cancellation is passed on before the checks have unwound.
CancelWithoutGather ==
    /\ det = "waiting"
    /\ det' = "raised"
    /\ task' = Cancelling
    /\ UNCHANGED <<got, reading, stray>>
\* CancelledError comes out of asyncio.wait: the checks not done are cancelled
\* and gathered before it is raised again.
CancelDetection ==
    /\ det = "waiting"
    /\ det' = "settling"
    /\ task' = Cancelling
    /\ UNCHANGED <<got, reading, stray>>

Settled ==
    /\ det = "settling" /\ AllDone
    /\ det' = "raised"
    /\ UNCHANGED <<task, got, reading, stray>>

\* The scan takes what run_all_checks returned or raised.
LeaveDetection ==
    /\ det \in {"returned", "raised"}
    /\ det' = "idle" /\ got' = {}
    /\ UNCHANGED <<task, reading, stray>>

\* The process ends, and its tasks and threads with it.
ProcessEnds ==
    /\ det' = "idle"
    /\ task' = [c \in Checks |-> "none"]
    /\ got' = {}
    /\ reading' = {} /\ stray' = 0

Check(c) == CheckEnds(c) \/ TimesOut(c) \/ Unwinds(c)
Read(c) == ReadStarts(c) \/ ReadEnds(c) \/ ReadDropped(c)
Detecting == Collect \/ Settled \/ StrayEnds \/ \E c \in Checks : Check(c) \/ Read(c)

-----------------------------------------------------------------------------
\* When run_all_checks is left, whichever way, none of its checks runs on and no
\* read of one is awaited: no check of an earlier scan starts a read beside those
\* of the next (run_all_checks, the gather of its except branch).  Threads do run
\* on: what is left of a read whose check timed out or was cancelled.
NoStrayChecks ==
    det \in {"idle", "returned", "raised"} => AllDone /\ reading = {}
=============================================================================
