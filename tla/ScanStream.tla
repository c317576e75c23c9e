----------------------------- MODULE ScanStream -----------------------------
(***************************************************************************)
(* The UI scan inside one server process, await by await: trigger_scan,    *)
(* stop_scan, _follow_active_scan and the ends of _run_scan_background     *)
(* (api/router.py), over the module globals _active_scan and _scan_events. *)
(*                                                                         *)
(* asyncio runs one coroutine at a time and switches only at an await, so  *)
(* an action is the code between two awaits.  A put on the unbounded event *)
(* queue never suspends and belongs to the action around it.  What happens *)
(* to the lock in Valkey while its scan is alive is ScanLock's subject:    *)
(* here the lock goes away only when nobody is left to release it.         *)
(***************************************************************************)
EXTENDS Naturals, Sequences, FiniteSets

CONSTANTS
    Clients,    \* browsers: each has at most one request or stream open
    MaxScans,   \* bound: scans started in the life of the process
    MaxEvents,  \* bound: progress events a scan puts before its last ones
    Stops,      \* TRUE: clients press stop
    Faults      \* TRUE: a Valkey command in a scan's finally block may fail

ASSUME ScanStreamAssumption ==
    /\ MaxScans \in Nat /\ MaxEvents \in Nat
    /\ Stops \in BOOLEAN /\ Faults \in BOOLEAN

Scans == 1..MaxScans
None  == 0              \* Python's None for a task or a queue
Nil   == "nil"          \* the sentinel put(None)
Last  == "last"         \* scan_complete, scan_stopped or error
Event == "event"        \* any other progress event

VARIABLES
    lock,          \* watchdog:lock is present
    active,        \* _active_scan
    events,        \* _scan_events
    made,          \* queues created so far; queue n is the n-th
    task,          \* the background tasks: [pc, q], q their event_queue
    log,           \* what was put on each queue, in order
    taken,         \* how much of it was taken off, by whomever
    client,        \* what each client's request or stream is doing
    following,     \* the queue a following client holds
    stopping,      \* the clients whose stop request awaits its SET
    readers,       \* history: the clients that ever held each queue
    interrupted,   \* history: queues whose task was cut short in its finally
                   \* block, or never created
    outpaced       \* history: a scan ended while a request that found none
                   \* active was still waiting for its lock

vars == <<lock, active, events, made, task, log, taken, client, following,
          stopping, readers, interrupted, outpaced>>

Alive(k) == k # None /\ task[k].pc \notin {"none", "done"}

TypeOK ==
    /\ lock \in BOOLEAN
    /\ {active, events, made} \subseteq 0..MaxScans
    /\ task \in [Scans -> [pc : {"none", "run", "release", "clear", "done"},
                           q : 0..MaxScans]]
    /\ log \in [Scans -> Seq({Event, Last, Nil})]
    /\ taken \in [Scans -> Nat] /\ \A q \in Scans : taken[q] <= Len(log[q])
    /\ client \in [Clients -> {"idle", "acquire", "create", "join", "follow"}]
    /\ following \in [Clients -> 0..MaxScans]
    /\ stopping \subseteq Clients
    /\ readers \in [Scans -> SUBSET Clients]
    /\ interrupted \subseteq Scans
    /\ outpaced \in BOOLEAN

Init ==
    /\ lock = FALSE /\ active = None /\ events = None /\ made = 0
    /\ task = [k \in Scans |-> [pc |-> "none", q |-> None]]
    /\ log = [q \in Scans |-> <<>>]
    /\ taken = [q \in Scans |-> 0]
    /\ client = [c \in Clients |-> "idle"]
    /\ following = [c \in Clients |-> None]
    /\ stopping = {}
    /\ readers = [q \in Scans |-> {}]
    /\ interrupted = {}
    /\ outpaced = FALSE

scanVars   == <<made, task, log, interrupted, outpaced>>
streamVars == <<taken, following, readers>>
-----------------------------------------------------------------------------
(* trigger_scan.                                                           *)

\* A scan is active: follow it.  Otherwise ask for the lock.
TriggerCheck(c) ==
    /\ client[c] = "idle"
    /\ client' = [client EXCEPT ![c] = IF Alive(active) THEN "join" ELSE "acquire"]
    /\ UNCHANGED <<lock, active, events, stopping>>
    /\ UNCHANGED scanVars /\ UNCHANGED streamVars

\* Mutant: the answer of acquire_lock is ignored.
TriggerAcquireAnyway(c) ==
    /\ client[c] = "acquire"
    /\ made < MaxScans
    /\ lock' = TRUE
    /\ made' = made + 1
    /\ events' = made'
    /\ client' = [client EXCEPT ![c] = "create"]
    /\ UNCHANGED <<active, stopping, task, log, interrupted>>
    /\ UNCHANGED streamVars /\ UNCHANGED outpaced

\* acquire_lock answered: refused (or the command raised), or a new queue in
\* _scan_events.
TriggerAcquire(c) ==
    /\ client[c] = "acquire"
    /\ \/ /\ lock \/ Faults \/ made = MaxScans
          /\ client' = [client EXCEPT ![c] = "idle"]
          /\ UNCHANGED <<lock, events, made>>
       \/ /\ ~lock /\ made < MaxScans
          /\ lock' = TRUE
          /\ made' = made + 1
          /\ events' = made'
          /\ client' = [client EXCEPT ![c] = "create"]
    /\ UNCHANGED <<active, stopping, task, log, interrupted>>
    /\ UNCHANGED streamVars /\ UNCHANGED outpaced

\* Mutant: _active_scan is not declared global in trigger_scan.
TriggerCreateLocal(c) ==
    /\ client[c] = "create"
    /\ LET k == Cardinality({j \in Scans : task[j].pc # "none"}) + 1 IN
          task' = [task EXCEPT ![k] =
              [pc |-> IF events = None THEN "release" ELSE "run", q |-> events]]
    /\ client' = [client EXCEPT ![c] = "join"]
    /\ UNCHANGED <<lock, active, events, made, log, stopping, interrupted>>
    /\ UNCHANGED streamVars /\ UNCHANGED outpaced

\* clear_scan_cancel answered: create_task reads _scan_events once more, and
\* the first thing the task does is put scan_started on that queue.
TriggerCreate(c) ==
    /\ client[c] = "create"
    /\ LET k == Cardinality({j \in Scans : task[j].pc # "none"}) + 1 IN
          /\ active' = k
          /\ task' = [task EXCEPT ![k] =
                [pc |-> IF events = None THEN "release" ELSE "run", q |-> events]]
    /\ client' = [client EXCEPT ![c] = "join"]
    /\ UNCHANGED <<lock, events, made, log, stopping, interrupted>>
    /\ UNCHANGED streamVars /\ UNCHANGED outpaced

\* clear_scan_cancel raised instead: a lock, a queue and no task.
TriggerFault(c) ==
    /\ Faults
    /\ client[c] = "create"
    /\ client' = [client EXCEPT ![c] = "idle"]
    /\ interrupted' = interrupted \cup ({events} \ {None})
    /\ UNCHANGED <<lock, active, events, made, task, log, stopping>>
    /\ UNCHANGED streamVars /\ UNCHANGED outpaced

-----------------------------------------------------------------------------
(* _run_scan_background.                                                   *)

\* Mutant: a queue of two places that drops what it holds when it is full.
PutReplacing(q, what) ==
    log' = [log EXCEPT ![q] = IF Len(@) = 2 THEN what ELSE @ \o what]

Put(q, what) == log' = [log EXCEPT ![q] = @ \o what]

Progress(k) ==
    /\ task[k].pc = "run"
    /\ Len(log[task[k].q]) < MaxEvents
    /\ Put(task[k].q, <<Event>>)
    /\ UNCHANGED <<lock, active, events, made, task, client, stopping, interrupted>>
    /\ UNCHANGED streamVars /\ UNCHANGED outpaced

\* scan_complete, or error: either way the finally block comes next.
Finish(k) ==
    /\ task[k].pc = "run"
    /\ Put(task[k].q, <<Last>>)
    /\ task' = [task EXCEPT ![k].pc = "release"]
    /\ UNCHANGED <<lock, active, events, made, client, stopping, interrupted>>
    /\ UNCHANGED streamVars /\ UNCHANGED outpaced

ReleaseLock(k) ==
    /\ task[k].pc = "release"
    /\ lock' = FALSE
    /\ outpaced' = (outpaced \/ \E c \in Clients : client[c] = "acquire")
    /\ task' = [task EXCEPT ![k].pc = "clear"]
    /\ UNCHANGED <<active, events, made, log, client, stopping, interrupted>>
    /\ UNCHANGED streamVars

\* Mutant: the globals are reset and the sentinel is forgotten.
EndSilent(k) ==
    /\ task[k].pc = "clear"
    /\ task' = [task EXCEPT ![k].pc = "done"]
    /\ active' = None /\ events' = None
    /\ UNCHANGED <<lock, made, log, client, stopping, interrupted>>
    /\ UNCHANGED streamVars /\ UNCHANGED outpaced

\* clear_scan_cancel answered: sentinel, then the globals.  A task that was
\* given no queue fails at the put and leaves the globals alone.
End(k) ==
    /\ task[k].pc = "clear"
    /\ task' = [task EXCEPT ![k].pc = "done"]
    /\ IF task[k].q = None
         THEN UNCHANGED <<active, events, log>>
         ELSE Put(task[k].q, <<Nil>>) /\ active' = None /\ events' = None
    /\ UNCHANGED <<lock, made, client, stopping, interrupted>>
    /\ UNCHANGED streamVars /\ UNCHANGED outpaced

\* The finally block raises at one of its awaits; the rest of it is skipped.
CutShort(k) ==
    /\ task[k].pc \in {"release", "clear"}
    /\ task' = [task EXCEPT ![k].pc = "done"]
    /\ interrupted' = interrupted \cup ({task[k].q} \ {None})
    /\ UNCHANGED log

\* Mutant: CancelledError passes the handler and nothing is reported.
CancelQuiet(k) ==
    IF task[k].pc = "run"
      THEN task' = [task EXCEPT ![k].pc = "release"] /\ UNCHANGED <<log, interrupted>>
      ELSE CutShort(k)

\* task.cancel(): the try block unwinds with scan_stopped, the finally block
\* is cut short where it waits, a finished task takes no notice.
CancelTask(k) ==
    IF task[k].pc = "run"
      THEN /\ Put(task[k].q, <<Last>>)
           /\ task' = [task EXCEPT ![k].pc = "release"]
           /\ UNCHANGED interrupted
      ELSE CutShort(k)

Fault(k) ==
    /\ Faults
    /\ CutShort(k)
    /\ UNCHANGED <<lock, active, events, made, client, stopping>>
    /\ UNCHANGED streamVars /\ UNCHANGED outpaced

\* The key of a scan that ended without releasing it reaches its time to live.
Expire ==
    /\ lock
    /\ \A k \in Scans : task[k].pc \notin {"run", "release"}
    /\ \A c \in Clients : client[c] # "create"
    /\ lock' = FALSE
    /\ UNCHANGED <<active, events, client, stopping>>
    /\ UNCHANGED scanVars /\ UNCHANGED streamVars

-----------------------------------------------------------------------------
(* stop_scan: test, await, and cancel what _active_scan names by then.     *)

StopCheck(c) ==
    /\ Stops
    /\ c \notin stopping
    /\ Alive(active)
    /\ stopping' = stopping \cup {c}
    /\ UNCHANGED <<lock, active, events, client>>
    /\ UNCHANGED scanVars /\ UNCHANGED streamVars

StopCancel(c) ==
    /\ c \in stopping
    /\ stopping' = stopping \ {c}
    /\ IF Alive(active) THEN CancelTask(active) ELSE UNCHANGED <<task, log, interrupted>>
    /\ UNCHANGED <<lock, active, events, made, client>>
    /\ UNCHANGED streamVars /\ UNCHANGED outpaced

-----------------------------------------------------------------------------
(* _follow_active_scan.                                                    *)

\* The generator starts: it reads _scan_events now, not when it was created.
Join(c) ==
    /\ client[c] = "join"
    /\ \/ events = None /\ client' = [client EXCEPT ![c] = "idle"]
          /\ UNCHANGED <<following, readers>>
       \/ events # None /\ client' = [client EXCEPT ![c] = "follow"]
          /\ following' = [following EXCEPT ![c] = events]
          /\ readers' = [readers EXCEPT ![events] = @ \cup {c}]
    /\ UNCHANGED <<lock, active, events, stopping, taken>> /\ UNCHANGED scanVars

\* queue.get(): the next item goes to one of the followers of the queue.
Take(c) ==
    /\ client[c] = "follow"
    /\ LET q == following[c] IN
          /\ taken[q] < Len(log[q])
          /\ taken' = [taken EXCEPT ![q] = @ + 1]
          /\ IF log[q][taken[q] + 1] = Nil
               THEN /\ client' = [client EXCEPT ![c] = "idle"]
                    /\ following' = [following EXCEPT ![c] = None]
               ELSE UNCHANGED <<client, following>>
    /\ UNCHANGED <<lock, active, events, stopping, readers>> /\ UNCHANGED scanVars

\* The client goes away, as the UI does after scan_complete or scan_stopped.
Leave(c) ==
    /\ client[c] = "follow"
    /\ client' = [client EXCEPT ![c] = "idle"]
    /\ following' = [following EXCEPT ![c] = None]
    /\ UNCHANGED <<lock, active, events, stopping, taken, readers>>
    /\ UNCHANGED scanVars

TaskStep(k) == Finish(k) \/ ReleaseLock(k) \/ End(k)
HandlerStep(c) == TriggerAcquire(c) \/ TriggerCreate(c) \/ StopCancel(c) \/ Join(c)

Next ==
    \/ \E k \in Scans : Progress(k) \/ TaskStep(k) \/ Fault(k)
    \/ \E c \in Clients :
          \/ TriggerCheck(c) \/ TriggerFault(c) \/ StopCheck(c) \/ Leave(c)
          \/ HandlerStep(c) \/ Take(c)
    \/ Expire

Spec == Init /\ [][Next]_vars

\* asyncio runs every ready coroutine; every await of the scan has a timeout.
Fairness ==
    /\ \A k \in Scans : WF_vars(TaskStep(k))
    /\ \A c \in Clients : WF_vars(HandlerStep(c)) /\ WF_vars(Take(c))

FairSpec == Spec /\ Fairness
-----------------------------------------------------------------------------
(* Properties.                                                             *)

\* At most one background scan of this process works at a time: two requests
\* that both found no active scan are told apart by the lock.
OneScan ==
    \A j, k \in Scans :
        task[j].pc \in {"run", "release"} /\ task[k].pc \in {"run", "release"} => j = k

\* "stream progress via SSE": while a scan runs, _scan_events is the queue the
\* scan writes to, so whoever is let in follows the scan that is running -
\* unless a whole scan has gone by while another request waited for its lock.
ActiveHasQueue ==
    \A k \in Scans :
        task[k].pc = "run" /\ ~outpaced => active = k /\ events = task[k].q

\* What a scan puts on its queue: progress, then exactly one last event, then
\* the sentinel, and nothing after it; and a scan that ended has put all of
\* that, unless its finally block was cut short.
WellFormed(s) ==
    \A i \in DOMAIN s :
        /\ s[i] = Last => \A j \in i+1..Len(s) : s[j] = Nil
        /\ s[i] = Nil => i = Len(s) /\ i > 1 /\ s[i-1] = Last
QueueWellFormed ==
    /\ \A q \in Scans : WellFormed(log[q])
    /\ \A k \in Scans :
          task[k].pc = "done" /\ task[k].q \notin interrupted \cup {None}
              => log[task[k].q] # <<>> /\ log[task[k].q][Len(log[task[k].q])] = Nil

\* A client that has a queue to itself gets to the end of its stream, unless
\* the scan's finally block was cut short or a request was outpaced.
SoleFollowerEnds ==
    \A c \in Clients :
        client[c] = "follow"
            ~> \/ client[c] # "follow"
               \/ following[c] \in interrupted \/ outpaced
               \/ readers[following[c]] # {c}

\* "SSE generator that reads events from the background scan task": every
\* client that follows a scan gets to the end of the stream.
EveryFollowerEnds ==
    \A c \in Clients : client[c] = "follow" ~> client[c] # "follow"
=============================================================================
