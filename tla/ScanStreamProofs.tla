--------------------------- MODULE ScanStreamProofs --------------------------
(***************************************************************************)
(* Proofs about ScanStream for any number of clients, scans and events,    *)
(* with stops and faults: one background scan at a time, the globals name  *)
(* the scan that runs, and every queue is written as its readers expect.   *)
(***************************************************************************)
EXTENDS ScanStream, FiniteSetTheorems, TLAPS

USE ScanStreamAssumption

(* Who holds the lock, and how many tasks there are.                       *)

Working(k) == task[k].pc \in {"run", "release"}

\* The lock is held by a task that has not released it, or by a request that
\* has not created its task; by one of them at a time.
HeldOnce ==
    /\ ~lock => /\ \A k \in Scans : ~Working(k)
                /\ \A c \in Clients : client[c] # "create"
    /\ \A j, k \in Scans : Working(j) /\ Working(k) => j = k
    /\ \A c, d \in Clients : client[c] = "create" /\ client[d] = "create" => c = d
    /\ \A k \in Scans, c \in Clients : Working(k) => client[c] # "create"

\* The first n tasks were created, each on a queue made before it; the request
\* that creates the next has made its queue.
Created(n) ==
    /\ \A j \in Scans : task[j].pc # "none" <=> j <= n
    /\ n <= made
    /\ \A c \in Clients : client[c] = "create" => n < made

TypeInv ==
    /\ TypeOK
    /\ HeldOnce
    /\ \E n \in 0..MaxScans : Created(n)

\* The number of the task that TriggerCreate creates.
NextTask == Cardinality({j \in Scans : task[j].pc # "none"}) + 1

LEMMA NextTaskIsNew ==
    ASSUME TypeInv, NEW c \in Clients, client[c] = "create"
    PROVE  NextTask \in Scans /\ task[NextTask].pc = "none" /\ Created(NextTask - 1)
<1>1. PICK n \in 0..MaxScans : Created(n)
  BY DEF TypeInv
<1>2. n < MaxScans
  BY <1>1 DEF Created, TypeInv, TypeOK
<1>3. {j \in Scans : task[j].pc # "none"} = 1..n
  BY <1>1, <1>2 DEF Created, Scans
<1>4. Cardinality(1..n) = n
  BY FS_Interval
<1>5. NextTask = n + 1
  BY <1>3, <1>4 DEF NextTask
<1> QED
  BY <1>1, <1>2, <1>5 DEF Created, Scans

LEMMA CreateIsNext ==
    ASSUME NEW c, TriggerCreate(c)
    PROVE  /\ active' = NextTask
           /\ task' = [task EXCEPT ![NextTask] =
                 [pc |-> IF events = None THEN "release" ELSE "run", q |-> events]]
  BY DEF TriggerCreate, NextTask

\* An action that leaves the lock, the requests' places and the tasks alone.
LEMMA NothingMoves ==
    ASSUME TypeInv, UNCHANGED <<lock, made, task>>,
           \A c \in Clients : client'[c] = "create" <=> client[c] = "create"
    PROVE  HeldOnce' /\ \E n \in 0..MaxScans : Created(n)'
<1>1. PICK n \in 0..MaxScans : Created(n)
  BY DEF TypeInv
<1>2. Created(n)'
  BY <1>1 DEF Created
<1>3. HeldOnce'
  BY DEF TypeInv, HeldOnce, Working
<1> QED
  BY <1>2, <1>3

\* A step of a task that was created: it neither takes the lock nor begins.
LEMMA TaskMoves ==
    ASSUME TypeInv, NEW k \in Scans, task[k].pc # "none",
           task' = [task EXCEPT ![k].pc = task'[k].pc],
           task'[k].pc \in {"run", "release", "clear", "done"},
           task'[k].pc \in {"run", "release"} => Working(k) /\ lock' = lock,
           lock' = lock \/ Working(k), UNCHANGED <<made, client>>
    PROVE  HeldOnce' /\ \E n \in 0..MaxScans : Created(n)'
<1> USE DEF TypeInv, TypeOK
<1>1. PICK n \in 0..MaxScans : Created(n)
  OBVIOUS
<1>2. \A j \in Scans : j # k => task'[j] = task[j]
  OBVIOUS
<1>3. Created(n)'
  BY <1>1, <1>2 DEF Created
<1>4. HeldOnce'
  BY <1>2 DEF HeldOnce, Working
<1> QED
  BY <1>3, <1>4

LEMMA PutTypes ==
    ASSUME TypeOK, NEW q, NEW what \in {Event, Last, Nil}, Put(q, <<what>>), taken' = taken
    PROVE  /\ log' \in [Scans -> Seq({Event, Last, Nil})]
           /\ \A p \in Scans : taken'[p] <= Len(log'[p])
           /\ \A p \in Scans \ {q} : log'[p] = log[p]
           /\ q \in Scans => log'[q] = Append(log[q], what)
<1> USE DEF TypeOK, Put
<1>1. <<what>> \in Seq({Event, Last, Nil})
  OBVIOUS
<1>2. ASSUME NEW p \in Scans
      PROVE  /\ p # q => log'[p] = log[p]
             /\ p = q => log'[p] = log[p] \o <<what>>
  OBVIOUS
<1>3. ASSUME NEW s \in Seq({Event, Last, Nil})
      PROVE  /\ s \o <<what>> \in Seq({Event, Last, Nil})
             /\ s \o <<what>> = Append(s, what)
             /\ Len(s \o <<what>>) = Len(s) + 1
  <2>1. s \o <<what>> = Append(s, what)
    OBVIOUS
  <2> QED
    BY <2>1
<1>4. DOMAIN log' = Scans /\ log' = [p \in Scans |-> log'[p]]
  OBVIOUS
<1>5. ASSUME NEW p \in Scans
      PROVE  log'[p] \in Seq({Event, Last, Nil}) /\ taken'[p] <= Len(log'[p])
  <2>1. log[p] \in Seq({Event, Last, Nil}) /\ taken[p] <= Len(log[p]) /\ taken'[p] = taken[p]
    OBVIOUS
  <2>2. CASE p = q
    BY <2>1, <2>2, <1>2, <1>3
  <2>3. CASE p # q
    BY <2>1, <2>3, <1>2
  <2> QED
    BY <2>2, <2>3
<1>6. log' \in [Scans -> Seq({Event, Last, Nil})]
  BY <1>4, <1>5
<1> QED
  BY <1>2, <1>3, <1>5, <1>6

\* Each action keeps the types of what it changes.
LEMMA TypeKept ==
    ASSUME TypeInv, [Next]_vars
    PROVE  TypeOK'
<1> USE DEF TypeInv, TypeOK, scanVars, streamVars
<1>1. ASSUME NEW k \in Scans, Progress(k)
      PROVE  TypeOK'
  BY <1>1, PutTypes DEF Progress
<1>2. ASSUME NEW k \in Scans, Finish(k)
      PROVE  TypeOK'
  <2>1. task' \in [Scans -> [pc : {"none", "run", "release", "clear", "done"}, q : 0..MaxScans]]
    BY <1>2 DEF Finish
  <2> QED
    BY <1>2, <2>1, PutTypes DEF Finish
<1>3. ASSUME NEW k \in Scans, ReleaseLock(k)
      PROVE  TypeOK'
  BY <1>3 DEF ReleaseLock
<1>4. ASSUME NEW k \in Scans, End(k)
      PROVE  TypeOK'
  <2>1. task' \in [Scans -> [pc : {"none", "run", "release", "clear", "done"}, q : 0..MaxScans]]
    BY <1>4 DEF End
  <2>2. /\ log' \in [Scans -> Seq({Event, Last, Nil})]
        /\ \A p \in Scans : taken'[p] <= Len(log'[p])
        /\ {active', events'} \subseteq 0..MaxScans
    <3>1. CASE task[k].q = None
      BY <1>4, <3>1 DEF End
    <3>2. CASE task[k].q # None
      <4>1. Put(task[k].q, <<Nil>>) /\ active' = None /\ events' = None /\ taken' = taken
        BY <1>4, <3>2 DEF End
      <4> QED
        <5>1. 0 \in 0..MaxScans
          OBVIOUS
        <5>2. log' \in [Scans -> Seq({Event, Last, Nil})] /\ \A p \in Scans : taken'[p] <= Len(log'[p])
          BY <4>1, PutTypes
        <5> QED
          BY <4>1, <5>1, <5>2 DEF None
    <3> QED
      BY <3>1, <3>2
  <2> QED
    BY <1>4, <2>1, <2>2 DEF End
<1>5. ASSUME NEW k \in Scans, CutShort(k)
      PROVE  /\ task' \in [Scans -> [pc : {"none", "run", "release", "clear", "done"}, q : 0..MaxScans]]
             /\ log' = log /\ interrupted' \subseteq Scans
  <2>1. task[k].q \in Scans \cup {None}
    <3>1. task[k].q \in 0..MaxScans
      OBVIOUS
    <3> QED
      BY <3>1 DEF Scans, None
  <2>2. task' \in [Scans -> [pc : {"none", "run", "release", "clear", "done"}, q : 0..MaxScans]]
    BY <1>5 DEF CutShort
  <2> QED
    BY <1>5, <2>1, <2>2 DEF CutShort
<1>6. ASSUME NEW k \in Scans, Fault(k)
      PROVE  TypeOK'
  BY <1>6, <1>5 DEF Fault
<1>7. ASSUME NEW c \in Clients, TriggerCheck(c) \/ TriggerAcquire(c)
      PROVE  TypeOK'
  <2>1. client' \in [Clients -> {"idle", "acquire", "create", "join", "follow"}]
    BY <1>7 DEF TriggerCheck, TriggerAcquire
  <2>2. lock' \in BOOLEAN
    BY <1>7 DEF TriggerCheck, TriggerAcquire
  <2>3. made' \in 0..MaxScans /\ active' \in 0..MaxScans /\ events' \in 0..MaxScans
    <3>1. made \in 0..MaxScans /\ active \in 0..MaxScans /\ events \in 0..MaxScans
      OBVIOUS
    <3>2. CASE UNCHANGED <<active, events, made>>
      BY <3>1, <3>2
    <3>3. CASE made < MaxScans /\ made' = made + 1 /\ events' = made' /\ active' = active
      BY <3>1, <3>3
    <3> QED
      BY <1>7, <3>2, <3>3 DEF TriggerCheck, TriggerAcquire
  <2> QED
    BY <1>7, <2>1, <2>2, <2>3 DEF TriggerCheck, TriggerAcquire
<1>8. ASSUME NEW c \in Clients, TriggerCreate(c)
      PROVE  TypeOK'
  <2>1. NextTask \in 0..MaxScans
    <3>1. NextTask \in Scans
      BY <1>8, NextTaskIsNew DEF TriggerCreate
    <3> QED
      BY <3>1 DEF Scans
  <2>2. task' \in [Scans -> [pc : {"none", "run", "release", "clear", "done"}, q : 0..MaxScans]]
    <3>1. events \in 0..MaxScans
      OBVIOUS
    <3> DEFINE new == [pc |-> IF events = None THEN "release" ELSE "run", q |-> events]
    <3>2. new \in [pc : {"none", "run", "release", "clear", "done"}, q : 0..MaxScans]
      BY <3>1
    <3>3. task' = [task EXCEPT ![NextTask] = new]
      BY <1>8, CreateIsNext
    <3> HIDE DEF new
    <3> QED
      BY <3>2, <3>3
  <2>3. active' \in 0..MaxScans
    BY <1>8, <2>1, CreateIsNext
  <2> QED
    BY <1>8, <2>2, <2>3 DEF TriggerCreate
<1>9. ASSUME NEW c \in Clients, TriggerFault(c)
      PROVE  TypeOK'
  <2>1. events \in Scans \cup {None}
    BY DEF Scans, None
  <2>2. client' \in [Clients -> {"idle", "acquire", "create", "join", "follow"}]
    BY <1>9 DEF TriggerFault
  <2>3. interrupted' \subseteq Scans
    BY <1>9, <2>1 DEF TriggerFault
  <2> QED
    BY <1>9, <2>2, <2>3 DEF TriggerFault
<1>10. ASSUME NEW c \in Clients, StopCheck(c)
       PROVE  TypeOK'
  BY <1>10 DEF StopCheck
<1>11. ASSUME NEW c \in Clients, StopCancel(c)
       PROVE  TypeOK'
  <2>1. CASE ~Alive(active)
    BY <1>11, <2>1 DEF StopCancel
  <2>2. CASE Alive(active)
    <3>1. active \in Scans /\ CancelTask(active)
      BY <1>11, <2>2 DEF StopCancel, Alive, None, Scans
    <3>2. CASE task[active].pc = "run"
      <4>1. task' \in [Scans -> [pc : {"none", "run", "release", "clear", "done"}, q : 0..MaxScans]]
        BY <3>1, <3>2, ZenonT(40) DEF CancelTask
      <4>2. Put(task[active].q, <<Last>>) /\ taken' = taken /\ interrupted' = interrupted
        BY <1>11, <3>1, <3>2 DEF CancelTask, StopCancel
      <4> QED
        BY <1>11, <4>1, <4>2, PutTypes DEF StopCancel
    <3>3. CASE task[active].pc # "run"
      <4>1. CutShort(active)
        BY <3>1, <3>3 DEF CancelTask
      <4> QED
        BY <1>11, <3>1, <4>1, <1>5 DEF StopCancel
    <3> QED
      BY <3>2, <3>3
  <2> QED
    BY <2>1, <2>2
<1>12. ASSUME NEW c \in Clients, Join(c) \/ Leave(c)
       PROVE  TypeOK'
  <2>1. client' \in [Clients -> {"idle", "acquire", "create", "join", "follow"}]
    BY <1>12 DEF Join, Leave
  <2>2. following' \in [Clients -> 0..MaxScans]
    <3>1. events \in 0..MaxScans /\ None \in 0..MaxScans
      BY DEF None
    <3> QED
      BY <1>12, <3>1 DEF Join, Leave
  <2>3. readers' \in [Scans -> SUBSET Clients]
    BY <1>12 DEF Join, Leave
  <2> QED
    BY <1>12, <2>1, <2>2, <2>3 DEF Join, Leave
<1>13. ASSUME NEW c \in Clients, Take(c)
       PROVE  TypeOK'
  <2>1. client' \in [Clients -> {"idle", "acquire", "create", "join", "follow"}]
        /\ following' \in [Clients -> 0..MaxScans]
    <3>1. None \in 0..MaxScans
      BY DEF None
    <3>2. \/ UNCHANGED <<client, following>>
          \/ /\ client' = [client EXCEPT ![c] = "idle"]
             /\ following' = [following EXCEPT ![c] = None]
      BY <1>13 DEF Take
    <3> QED
      BY <3>1, <3>2
  <2>2. taken' \in [Scans -> Nat] /\ \A q \in Scans : taken'[q] <= Len(log[q])
    <3> DEFINE q == following[c]
    <3>1. taken[q] < Len(log[q]) /\ taken' = [taken EXCEPT ![q] = @ + 1]
      BY <1>13 DEF Take
    <3>2. \A p \in Scans : Len(log[p]) \in Nat /\ taken[p] \in Nat /\ taken[p] <= Len(log[p])
      OBVIOUS
    <3>3. taken \in [Scans -> Nat]
      OBVIOUS
    <3> HIDE DEF q
    <3>4. CASE q \in Scans
      <4>1. taken' \in [Scans -> Nat]
        BY <3>1, <3>2, <3>3, <3>4
      <4>2. \A p \in Scans : taken'[p] = IF p = q THEN taken[q] + 1 ELSE taken[p]
        BY <3>1, <3>3
      <4> QED
        BY <3>1, <3>2, <4>1, <4>2
    <3>5. CASE q \notin Scans
      BY <3>1, <3>3, <3>5
    <3> QED
      BY <3>4, <3>5
  <2>3. UNCHANGED <<lock, active, events, made, task, log, stopping, readers, interrupted, outpaced>>
    BY <1>13 DEF Take
  <2> QED
    BY <2>1, <2>2, <2>3
<1>14. CASE Expire
  BY <1>14 DEF Expire
<1>15. CASE UNCHANGED vars
  BY <1>15 DEF vars
<1> QED
  BY <1>1, <1>2, <1>3, <1>4, <1>6, <1>7, <1>8, <1>9, <1>10, <1>11, <1>12, <1>13, <1>14,
     <1>15 DEF Next, TaskStep, HandlerStep

LEMMA OrderKept ==
    ASSUME TypeInv, [Next]_vars
    PROVE  HeldOnce' /\ \E n \in 0..MaxScans : Created(n)'
<1> USE DEF scanVars, streamVars
<1>1. ASSUME NEW k \in Scans, CutShort(k)
      PROVE  /\ task' = [task EXCEPT ![k].pc = task'[k].pc]
             /\ task[k].pc # "none" /\ task'[k].pc = "done"
  BY <1>1 DEF CutShort, TypeInv, TypeOK
<1>2. ASSUME NEW k \in Scans, task[k].pc = "run", task' = [task EXCEPT ![k].pc = "release"]
      PROVE  /\ task' = [task EXCEPT ![k].pc = task'[k].pc]
             /\ task'[k].pc = "release" /\ Working(k)
  BY <1>2 DEF Working, TypeInv, TypeOK
<1>3. ASSUME NEW k \in Scans, Progress(k) \/ Finish(k) \/ ReleaseLock(k) \/ End(k) \/ Fault(k)
      PROVE  HeldOnce' /\ \E n \in 0..MaxScans : Created(n)'
  <2>1. CASE Progress(k)
    BY <2>1, NothingMoves DEF Progress
  <2>2. CASE Finish(k)
    <3>1. task[k].pc = "run" /\ task' = [task EXCEPT ![k].pc = "release"] /\ UNCHANGED <<lock, made, client>>
      BY <2>2 DEF Finish
    <3> QED
      BY <3>1, <1>2, TaskMoves
  <2>3. CASE ReleaseLock(k)
    <3>1. /\ task[k].pc = "release" /\ task' = [task EXCEPT ![k].pc = "clear"]
          /\ UNCHANGED <<made, client>>
      BY <2>3 DEF ReleaseLock
    <3>2. task' = [task EXCEPT ![k].pc = task'[k].pc] /\ task'[k].pc = "clear" /\ Working(k)
      BY <3>1 DEF Working, TypeInv, TypeOK
    <3> QED
      BY <3>1, <3>2, TaskMoves
  <2>4. CASE End(k)
    <3>1. /\ task[k].pc = "clear" /\ task' = [task EXCEPT ![k].pc = "done"]
          /\ UNCHANGED <<lock, made, client>>
      BY <2>4 DEF End
    <3>2. task' = [task EXCEPT ![k].pc = task'[k].pc] /\ task'[k].pc = "done"
      BY <3>1 DEF TypeInv, TypeOK
    <3> QED
      BY <3>1, <3>2, TaskMoves
  <2>5. CASE Fault(k)
    BY <2>5, <1>1, TaskMoves DEF Fault
  <2> QED
    BY <1>3, <2>1, <2>2, <2>3, <2>4, <2>5
<1>4. ASSUME NEW c \in Clients,
             TriggerCheck(c) \/ StopCheck(c) \/ Join(c) \/ Take(c) \/ Leave(c)
      PROVE  HeldOnce' /\ \E n \in 0..MaxScans : Created(n)'
  <2>1. UNCHANGED <<lock, made, task>>
    BY <1>4 DEF TriggerCheck, StopCheck, Join, Take, Leave
  <2>2. \A d \in Clients : client'[d] = "create" <=> client[d] = "create"
    BY <1>4 DEF TriggerCheck, StopCheck, Join, Take, Leave, TypeInv, TypeOK
  <2> QED
    BY <2>1, <2>2, NothingMoves
<1>5. ASSUME NEW c \in Clients, TriggerAcquire(c)
      PROVE  HeldOnce' /\ \E n \in 0..MaxScans : Created(n)'
  <2>1. CASE lock' = lock /\ made' = made /\ client' = [client EXCEPT ![c] = "idle"]
    <3>1. UNCHANGED <<lock, made, task>>
      BY <1>5, <2>1 DEF TriggerAcquire
    <3>2. \A d \in Clients : client'[d] = "create" <=> client[d] = "create"
      BY <1>5, <2>1 DEF TriggerAcquire, TypeInv, TypeOK
    <3> QED
      BY <3>1, <3>2, NothingMoves
  <2>2. CASE ~lock /\ lock' = TRUE /\ made' = made + 1 /\ client' = [client EXCEPT ![c] = "create"]
    <3>1. UNCHANGED task
      BY <1>5 DEF TriggerAcquire
    <3>2. PICK n \in 0..MaxScans : Created(n)
      BY DEF TypeInv
    <3>3. Created(n)'
      BY <2>2, <3>1, <3>2 DEF Created, TypeInv, TypeOK
    <3>4. HeldOnce'
      BY <2>2, <3>1 DEF HeldOnce, Working, TypeInv, TypeOK
    <3> QED
      BY <3>3, <3>4
  <2> QED
    BY <1>5, <2>1, <2>2 DEF TriggerAcquire
<1>6. ASSUME NEW c \in Clients, TriggerCreate(c)
      PROVE  HeldOnce' /\ \E n \in 0..MaxScans : Created(n)'
  <2> DEFINE new == [pc |-> IF events = None THEN "release" ELSE "run", q |-> events]
  <2>1. client[c] = "create" /\ client' = [client EXCEPT ![c] = "join"] /\ UNCHANGED <<lock, made>>
    BY <1>6 DEF TriggerCreate
  <2>2. PICK k \in Scans : k = NextTask /\ task[k].pc = "none" /\ Created(k - 1)
    BY <2>1, NextTaskIsNew
  <2>3. task' = [task EXCEPT ![k] = new]
    BY <1>6, <2>2, CreateIsNext
  <2>4. /\ \A j \in Scans : j # k => task'[j] = task[j]
        /\ task'[k].pc \in {"run", "release"}
    BY <2>2, <2>3 DEF TypeInv, TypeOK
  <2>5. Created(k)'
    <3>1. k \in 1..MaxScans /\ made \in Nat
      BY <2>2 DEF Scans, TypeInv, TypeOK
    <3>2. \A j \in Scans : task'[j].pc # "none" <=> j <= k
      BY <2>2, <2>4, <3>1 DEF Created, Scans
    <3>3. k <= made
      BY <2>1, <2>2, <3>1 DEF Created
    <3>4. \A d \in Clients : client'[d] # "create"
      BY <2>1 DEF HeldOnce, TypeInv, TypeOK
    <3> QED
      BY <2>1, <3>2, <3>3, <3>4 DEF Created
  <2>6. HeldOnce'
    BY <2>1, <2>4 DEF HeldOnce, Working, TypeInv, TypeOK
  <2> QED
    BY <2>2, <2>5, <2>6 DEF Scans
<1>7. ASSUME NEW c \in Clients, TriggerFault(c)
      PROVE  HeldOnce' /\ \E n \in 0..MaxScans : Created(n)'
  <2>1. client' = [client EXCEPT ![c] = "idle"] /\ UNCHANGED <<lock, made, task>>
    BY <1>7 DEF TriggerFault
  <2>2. PICK n \in 0..MaxScans : Created(n)
    BY DEF TypeInv
  <2>3. \A d \in Clients : client'[d] = "create" => client[d] = "create"
    BY <2>1 DEF TypeInv, TypeOK
  <2>4. Created(n)'
    BY <2>1, <2>2, <2>3 DEF Created
  <2>5. HeldOnce'
    BY <2>1, <2>3 DEF HeldOnce, Working, TypeInv
  <2> QED
    BY <2>4, <2>5
<1>8. ASSUME NEW c \in Clients, StopCancel(c)
      PROVE  HeldOnce' /\ \E n \in 0..MaxScans : Created(n)'
  <2>1. UNCHANGED <<lock, made, client>>
    BY <1>8 DEF StopCancel
  <2>2. CASE ~Alive(active)
    <3>1. UNCHANGED task
      BY <1>8, <2>2 DEF StopCancel
    <3> QED
      BY <2>1, <3>1, NothingMoves
  <2>3. CASE Alive(active)
    <3>1. active \in Scans /\ task[active].pc # "none" /\ CancelTask(active)
      BY <1>8, <2>3 DEF StopCancel, Alive, None, Scans, TypeInv, TypeOK
    <3>2. CASE task[active].pc = "run"
      <4>1. task' = [task EXCEPT ![active].pc = "release"]
        BY <3>1, <3>2 DEF CancelTask
      <4> QED
        BY <2>1, <3>1, <3>2, <4>1, <1>2, TaskMoves
    <3>3. CASE task[active].pc # "run"
      <4>1. CutShort(active)
        BY <3>1, <3>3 DEF CancelTask
      <4> QED
        BY <2>1, <3>1, <4>1, <1>1, TaskMoves
    <3> QED
      BY <3>2, <3>3
  <2> QED
    BY <2>2, <2>3
<1>9. CASE Expire
  <2>1. PICK n \in 0..MaxScans : Created(n)
    BY DEF TypeInv
  <2>2. Created(n)'
    BY <1>9, <2>1 DEF Expire, Created
  <2>3. HeldOnce'
    BY <1>9 DEF Expire, HeldOnce, Working, TypeInv
  <2> QED
    BY <2>2, <2>3
<1>10. CASE UNCHANGED vars
  BY <1>10, NothingMoves DEF vars
<1> QED
  BY <1>3, <1>4, <1>5, <1>6, <1>7, <1>8, <1>9, <1>10 DEF Next, TaskStep, HandlerStep

LEMMA TypeInvHolds == Spec => []TypeInv
<1>1. Init => TypeInv
  <2>1. ASSUME Init PROVE TypeOK
    <3>1. 0 \in 0..MaxScans /\ <<>> \in Seq({Event, Last, Nil}) /\ Len(<<>>) = 0
      OBVIOUS
    <3>2. task \in [Scans -> [pc : {"none", "run", "release", "clear", "done"}, q : 0..MaxScans]]
      BY <2>1, <3>1 DEF Init, None
    <3>3. log \in [Scans -> Seq({Event, Last, Nil})] /\ \A q \in Scans : Len(log[q]) = 0
      BY <2>1, <3>1 DEF Init
    <3>4. taken \in [Scans -> Nat] /\ \A q \in Scans : taken[q] <= Len(log[q])
      <4>1. taken \in [Scans -> Nat] /\ \A q \in Scans : taken[q] = 0
        BY <2>1 DEF Init
      <4> QED
        BY <3>3, <4>1
    <3>5. client \in [Clients -> {"idle", "acquire", "create", "join", "follow"}]
          /\ following \in [Clients -> 0..MaxScans] /\ readers \in [Scans -> SUBSET Clients]
      BY <2>1, <3>1 DEF Init, None
    <3>6. lock = FALSE /\ active = 0 /\ events = 0 /\ made = 0
          /\ stopping = {} /\ interrupted = {} /\ outpaced = FALSE
      BY <2>1 DEF Init, None
    <3> QED
      BY <3>1, <3>2, <3>3, <3>4, <3>5, <3>6 DEF TypeOK
  <2>2. Init => HeldOnce
    BY DEF Init, HeldOnce, Working
  <2>3. Init => Created(0) /\ 0 \in 0..MaxScans
    BY DEF Init, Created, Scans
  <2> QED
    BY <2>1, <2>2, <2>3 DEF TypeInv
<1>2. TypeInv /\ [Next]_vars => TypeInv'
  <2> SUFFICES ASSUME TypeInv, [Next]_vars PROVE TypeInv'
    OBVIOUS
  <2>1. TypeOK' /\ HeldOnce' /\ \E n \in 0..MaxScans : Created(n)'
    BY TypeKept, OrderKept
  <2> QED
    BY <2>1 DEF TypeInv
<1> QED
  BY <1>1, <1>2, PTL DEF Spec

\* Every variable keeps its type, whatever clients, stops and faults do.
THEOREM TypeCorrect == Spec => []TypeOK
<1>1. TypeInv => TypeOK
  BY DEF TypeInv
<1> QED
  BY <1>1, TypeInvHolds, PTL

\* However many requests race for it, one scan works at a time.
THEOREM AlwaysOneScan == Spec => []OneScan
<1>1. TypeInv => OneScan
  BY DEF TypeInv, HeldOnce, Working, OneScan
<1> QED
  BY <1>1, TypeInvHolds, PTL

-----------------------------------------------------------------------------
(* What the globals name.                                                  *)

Unfinished(k) == task[k].pc \in {"run", "release", "clear"}

\* Until a request is outpaced, the globals are those of the one task that is
\* not done, and no request gets past its test while that task clears up.
Followed ==
    ~outpaced =>
        \A k \in Scans :
            /\ Unfinished(k) => active = k /\ events = task[k].q
            /\ task[k].pc = "clear" =>
                   \A c \in Clients : client[c] \notin {"acquire", "create"}

\* A step that leaves the globals alone, or has no task to name, keeps it.
LEMMA FollowedKept ==
    ASSUME TypeInv, Followed, [Next]_vars
    PROVE  Followed'
<1> USE DEF scanVars, streamVars
<1> SUFFICES ASSUME ~outpaced' PROVE Followed'
  BY DEF Followed
<1>0. ~outpaced
  <2>1. outpaced' \in {outpaced, TRUE} \/ (outpaced' = (outpaced \/ \E c \in Clients : client[c] = "acquire"))
    BY DEF Next, TaskStep, HandlerStep, Progress, Finish, ReleaseLock, End, Fault, TriggerCheck,
           TriggerAcquire, TriggerCreate, TriggerFault, StopCheck, StopCancel, Join, Take, Leave,
           Expire, vars
  <2> QED
    BY <2>1 DEF TypeInv, TypeOK
<1> USE <1>0 DEF Followed
\* Tasks go on without getting further than they were, requests without asking.
<1>1. ASSUME UNCHANGED <<active, events>>,
             \A k \in Scans : /\ Unfinished(k)' => Unfinished(k) /\ task'[k].q = task[k].q
                              /\ task'[k].pc = "clear" => task[k].pc = "clear",
             \A c \in Clients : client'[c] \in {"acquire", "create"}
                                   => client[c] \in {"acquire", "create"}
      PROVE  Followed'
  BY <1>1
<1>2. ASSUME NEW k \in Scans, CutShort(k)
      PROVE  \A j \in Scans : /\ Unfinished(j)' => Unfinished(j) /\ task'[j].q = task[j].q
                              /\ task'[j].pc = "clear" => task[j].pc = "clear"
  BY <1>2 DEF CutShort, Unfinished, TypeInv, TypeOK
<1>3. ASSUME NEW k \in Scans, task[k].pc = "run", task' = [task EXCEPT ![k].pc = "release"]
      PROVE  \A j \in Scans : /\ Unfinished(j)' => Unfinished(j) /\ task'[j].q = task[j].q
                              /\ task'[j].pc = "clear" => task[j].pc = "clear"
  BY <1>3 DEF Unfinished, TypeInv, TypeOK
<1>4. ASSUME UNCHANGED task
      PROVE  \A j \in Scans : /\ Unfinished(j)' => Unfinished(j) /\ task'[j].q = task[j].q
                              /\ task'[j].pc = "clear" => task[j].pc = "clear"
  BY <1>4 DEF Unfinished
<1>5. ASSUME NEW k \in Scans, Progress(k) \/ Finish(k) \/ Fault(k)
      PROVE  Followed'
  <2>1. UNCHANGED <<active, events, client>>
    BY <1>5 DEF Progress, Finish, Fault
  <2>2. CASE Progress(k)
    <3>1. UNCHANGED task
      BY <2>2 DEF Progress
    <3> QED
      BY <2>1, <3>1, <1>1, <1>4
  <2>3. CASE Finish(k)
    BY <2>1, <2>3, <1>1, <1>3 DEF Finish
  <2>4. CASE Fault(k)
    BY <2>1, <2>4, <1>1, <1>2 DEF Fault
  <2> QED
    BY <1>5, <2>2, <2>3, <2>4
<1>6. ASSUME NEW k \in Scans, ReleaseLock(k)
      PROVE  Followed'
  <2>1. /\ task[k].pc = "release" /\ task' = [task EXCEPT ![k].pc = "clear"]
        /\ UNCHANGED <<active, events, client>>
        /\ \A c \in Clients : client[c] # "acquire"
    BY <1>6 DEF ReleaseLock
  <2>2. \A c \in Clients : client[c] # "create"
    BY <2>1 DEF TypeInv, HeldOnce, Working
  <2>3. \A j \in Scans : Unfinished(j)' => Unfinished(j) /\ task'[j].q = task[j].q
    BY <2>1 DEF Unfinished, TypeInv, TypeOK
  <2> QED
    BY <2>1, <2>2, <2>3
<1>7. ASSUME NEW k \in Scans, End(k)
      PROVE  Followed'
  <2>1. task[k].pc = "clear" /\ task' = [task EXCEPT ![k].pc = "done"]
    BY <1>7 DEF End
  <2>2. \A j \in Scans : ~Unfinished(j)'
    BY <2>1 DEF Unfinished, TypeInv, TypeOK
  <2> QED
    BY <2>2 DEF Unfinished
<1>8. ASSUME NEW c \in Clients, TriggerCheck(c)
      PROVE  Followed'
  <2>1. UNCHANGED <<active, events, task>>
    BY <1>8 DEF TriggerCheck
  <2>2. CASE Alive(active)
    <3>1. client' = [client EXCEPT ![c] = "join"]
      BY <1>8, <2>2 DEF TriggerCheck
    <3>2. \A d \in Clients : client'[d] \in {"acquire", "create"} => client[d] \in {"acquire", "create"}
      BY <3>1 DEF TypeInv, TypeOK
    <3> QED
      BY <2>1, <3>2, <1>1, <1>4
  <2>3. CASE ~Alive(active)
    <3>1. \A k \in Scans : ~Unfinished(k)
      BY <2>3 DEF Alive, Unfinished, None, Scans
    <3> QED
      BY <2>1, <3>1 DEF Unfinished
  <2> QED
    BY <2>2, <2>3
<1>9. ASSUME NEW c \in Clients, TriggerAcquire(c)
      PROVE  Followed'
  <2>1. CASE UNCHANGED events /\ client' = [client EXCEPT ![c] = "idle"]
    <3>1. \A d \in Clients : client'[d] \in {"acquire", "create"} => client[d] \in {"acquire", "create"}
      BY <2>1 DEF TypeInv, TypeOK
    <3>2. UNCHANGED <<active, events, task>>
      BY <1>9, <2>1 DEF TriggerAcquire
    <3> QED
      BY <3>1, <3>2, <1>1, <1>4
  <2>2. CASE ~lock
    <3>1. client[c] = "acquire" /\ UNCHANGED task
      BY <1>9 DEF TriggerAcquire
    <3>2. \A k \in Scans : ~Unfinished(k)
      BY <2>2, <3>1 DEF Unfinished, Working, HeldOnce, TypeInv
    <3> QED
      BY <3>1, <3>2 DEF Unfinished
  <2> QED
    BY <1>9, <2>1, <2>2 DEF TriggerAcquire
<1>10. ASSUME NEW c \in Clients, TriggerCreate(c)
       PROVE  Followed'
  <2> DEFINE new == [pc |-> IF events = None THEN "release" ELSE "run", q |-> events]
  <2>1. client[c] = "create" /\ UNCHANGED events
    BY <1>10 DEF TriggerCreate
  <2>2. task' = [task EXCEPT ![NextTask] = new] /\ active' = NextTask
    BY <1>10, CreateIsNext
  <2>3. \A k \in Scans : ~Unfinished(k)
    BY <2>1 DEF Unfinished, Working, HeldOnce, TypeInv
  <2>4. ASSUME NEW k \in Scans, Unfinished(k)'
        PROVE  k = NextTask /\ task'[k] = new
    BY <2>2, <2>3, <2>4 DEF Unfinished, TypeInv, TypeOK
  <2>5. new.q = events /\ new.pc # "clear"
    OBVIOUS
  <2> HIDE DEF new
  <2> QED
    BY <2>1, <2>2, <2>4, <2>5 DEF Unfinished
<1>11. ASSUME NEW c \in Clients, StopCancel(c)
       PROVE  Followed'
  <2>1. UNCHANGED <<active, events, client>>
    BY <1>11 DEF StopCancel
  <2>2. CASE ~Alive(active)
    BY <1>11, <2>1, <2>2, <1>1, <1>4 DEF StopCancel
  <2>3. CASE Alive(active)
    <3>1. active \in Scans /\ CancelTask(active)
      BY <1>11, <2>3 DEF StopCancel, Alive, None, Scans, TypeInv, TypeOK
    <3>2. CASE task[active].pc = "run"
      BY <2>1, <3>1, <3>2, <1>1, <1>3 DEF CancelTask
    <3>3. CASE task[active].pc # "run"
      BY <2>1, <3>1, <3>3, <1>1, <1>2 DEF CancelTask
    <3> QED
      BY <3>2, <3>3
  <2> QED
    BY <2>2, <2>3
<1>12. ASSUME \/ \E c \in Clients : TriggerFault(c) \/ StopCheck(c) \/ Join(c) \/ Take(c) \/ Leave(c)
              \/ Expire \/ UNCHANGED vars
       PROVE  Followed'
  <2>1. UNCHANGED <<active, events, task>>
    BY <1>12 DEF TriggerFault, StopCheck, Join, Take, Leave, Expire, vars
  <2>2. \A d \in Clients : client'[d] \in {"acquire", "create"} => client[d] \in {"acquire", "create"}
    BY <1>12 DEF TriggerFault, StopCheck, Join, Take, Leave, Expire, vars, TypeInv, TypeOK
  <2> QED
    BY <2>1, <2>2, <1>1, <1>4
<1> QED
  BY <1>5, <1>6, <1>7, <1>8, <1>9, <1>10, <1>11, <1>12 DEF Next, TaskStep, HandlerStep

\* Unless a request was outpaced, the scan that runs is the one the globals
\* name, however many scans came before it.
THEOREM AlwaysFollowed == Spec => []ActiveHasQueue
<1>1. Init => Followed
  BY DEF Init, Followed, Unfinished
<1>2. TypeInv /\ Followed /\ [Next]_vars => Followed'
  BY FollowedKept
<1>3. Followed => ActiveHasQueue
  BY DEF Followed, ActiveHasQueue, Unfinished
<1> QED
  BY <1>1, <1>2, <1>3, TypeInvHolds, PTL DEF Spec

-----------------------------------------------------------------------------
(* What the queues hold.                                                   *)

OnlyEvents(s) == \A i \in DOMAIN s : s[i] = Event
Closed(s) ==
    /\ Len(s) > 0 /\ s[Len(s)] = Last
    /\ \A i \in 1..Len(s) - 1 : s[i] = Event
Ended(s) ==
    /\ Len(s) > 1 /\ s[Len(s)] = Nil /\ s[Len(s) - 1] = Last
    /\ \A i \in 1..Len(s) - 2 : s[i] = Event

\* How far a queue is written follows from where its task is.
Written(k) ==
    LET q == task[k].q IN
    /\ task[k].pc = "none" => q = None
    /\ task[k].pc = "run" => q # None /\ OnlyEvents(log[q])
    /\ q # None =>
          /\ task[k].pc \in {"release", "clear"} => Closed(log[q])
          /\ task[k].pc = "done" => Ended(log[q]) \/ (q \in interrupted /\ Closed(log[q]))

\* Each queue has one writer; the queue a request has made has none yet.
OneWriter ==
    /\ \A j, k \in Scans : task[j].q # None /\ task[j].q = task[k].q => j = k
    /\ \A q \in Scans : (\A k \in Scans : task[k].q # q) => log[q] = <<>>
    /\ \A k \in Scans : task[k].q <= made
    /\ \A c \in Clients : client[c] = "create" =>
          events \in {None, made} /\ \A k \in Scans : task[k].q # made

QueueInv == OneWriter /\ \A k \in Scans : Written(k)

LEMMA Shapes ==
    ASSUME NEW s \in Seq({Event, Last, Nil})
    PROVE  /\ OnlyEvents(s) => OnlyEvents(Append(s, Event)) /\ Closed(Append(s, Last))
           /\ Closed(s) => Ended(Append(s, Nil))
           /\ s = <<>> => OnlyEvents(s)
           /\ OnlyEvents(s) \/ Closed(s) \/ Ended(s) => WellFormed(s)
           /\ Ended(s) => s # <<>> /\ s[Len(s)] = Nil
<1>1. Len(s) \in Nat /\ DOMAIN s = 1..Len(s)
  OBVIOUS
<1>2. ASSUME NEW x \in {Event, Last, Nil}
      PROVE  /\ Len(Append(s, x)) = Len(s) + 1
             /\ DOMAIN Append(s, x) = 1..(Len(s) + 1)
             /\ Append(s, x)[Len(s) + 1] = x
             /\ \A i \in 1..Len(s) : Append(s, x)[i] = s[i]
  OBVIOUS
<1>3. OnlyEvents(s) => OnlyEvents(Append(s, Event)) /\ Closed(Append(s, Last))
  BY <1>1, <1>2 DEF OnlyEvents, Closed
<1>4. Closed(s) => Ended(Append(s, Nil))
  <2>1. SUFFICES ASSUME Closed(s) PROVE Ended(Append(s, Nil))
    OBVIOUS
  <2> DEFINE t == Append(s, Nil)
  <2>2. Len(t) = Len(s) + 1 /\ t[Len(s) + 1] = Nil /\ \A i \in 1..Len(s) : t[i] = s[i]
    BY <1>2
  <2>3. Len(s) > 0 /\ s[Len(s)] = Last /\ \A i \in 1..Len(s) - 1 : s[i] = Event
    BY <2>1 DEF Closed
  <2>4. Len(t) > 1 /\ t[Len(t)] = Nil /\ t[Len(t) - 1] = Last
    <3>1. Len(s) \in 1..Len(s) /\ Len(t) - 1 = Len(s) /\ Len(t) > 1
      BY <1>1, <2>2, <2>3
    <3> QED
      BY <2>2, <2>3, <3>1
  <2>5. \A i \in 1..Len(t) - 2 : t[i] = Event
    BY <1>1, <2>2, <2>3
  <2> QED
    BY <2>4, <2>5 DEF Ended
<1>5. s = <<>> => OnlyEvents(s)
  BY <1>1 DEF OnlyEvents
<1>6. Event # Last /\ Event # Nil /\ Last # Nil
  BY DEF Event, Last, Nil
<1>7. OnlyEvents(s) => WellFormed(s)
  BY <1>1, <1>6 DEF OnlyEvents, WellFormed
<1>8. Closed(s) => WellFormed(s)
  BY <1>1, <1>6 DEF Closed, WellFormed
<1>9. Ended(s) => WellFormed(s)
  BY <1>1, <1>6 DEF Ended, WellFormed
<1>10. Ended(s) => s # <<>> /\ s[Len(s)] = Nil
  BY <1>1 DEF Ended
<1> QED
  BY <1>3, <1>4, <1>5, <1>7, <1>8, <1>9, <1>10

\* A step of one task, which writes to no queue but its own.
LEMMA WriterMoves ==
    ASSUME TypeInv, QueueInv, NEW k \in Scans, task[k].pc # "none",
           task' = [task EXCEPT ![k].pc = task'[k].pc],
           \A q \in Scans \ {task[k].q} : log'[q] = log[q],
           interrupted \subseteq interrupted',
           Written(k)', UNCHANGED <<made, client>>, events' \in {events, None}
    PROVE  QueueInv'
<1>1. \A j \in Scans : task'[j].q = task[j].q /\ (j # k => task'[j] = task[j])
  BY DEF TypeInv, TypeOK
<1>2. OneWriter'
  BY <1>1 DEF OneWriter, QueueInv
<1>3. ASSUME NEW j \in Scans, j # k
      PROVE  Written(j)'
  <2>1. task'[j] = task[j]
    BY <1>1, <1>3
  <2>2. CASE task[j].q = None
    BY <2>1, <2>2 DEF Written, QueueInv
  <2>3. CASE task[j].q # None
    <3>1. task[j].q \in Scans
      BY <2>3 DEF TypeInv, TypeOK, None, Scans
    <3>2. task[j].q # task[k].q
      BY <1>3, <2>3 DEF QueueInv, OneWriter
    <3>3. log'[task[j].q] = log[task[j].q]
      BY <3>1, <3>2
    <3> QED
      BY <2>1, <3>3 DEF Written, QueueInv
  <2> QED
    BY <2>2, <2>3
<1> QED
  BY <1>2, <1>3 DEF QueueInv

\* A step that neither writes nor makes a queue.
LEMMA NobodyWrites ==
    ASSUME TypeInv, QueueInv, UNCHANGED <<made, task, log, events>>,
           interrupted \subseteq interrupted',
           \A c \in Clients : client'[c] = "create" => client[c] = "create"
    PROVE  QueueInv'
<1>1. OneWriter'
  BY DEF QueueInv, OneWriter
<1>2. \A k \in Scans : Written(k)'
  BY DEF QueueInv, Written
<1> QED
  BY <1>1, <1>2 DEF QueueInv

LEMMA QueuesKept ==
    ASSUME TypeInv, QueueInv, [Next]_vars
    PROVE  QueueInv'
<1> USE DEF scanVars, streamVars
<1>1. ASSUME NEW k \in Scans, task[k].q # None
      PROVE  task[k].q \in Scans /\ log[task[k].q] \in Seq({Event, Last, Nil})
  <2>1. task[k].q \in 0..MaxScans
    BY DEF TypeInv, TypeOK
  <2>2. task[k].q \in Scans
    BY <1>1, <2>1 DEF Scans, None
  <2> QED
    BY <2>2 DEF TypeInv, TypeOK
<1>2. ASSUME NEW k \in Scans, CutShort(k), UNCHANGED <<made, client, events>>
      PROVE  QueueInv'
  <2>1. /\ task[k].pc \in {"release", "clear"} /\ task' = [task EXCEPT ![k].pc = "done"]
        /\ interrupted' = interrupted \cup ({task[k].q} \ {None}) /\ UNCHANGED log
    BY <1>2 DEF CutShort
  <2>2. task' = [task EXCEPT ![k].pc = task'[k].pc] /\ task'[k].pc = "done" /\ task'[k].q = task[k].q
    BY <2>1 DEF TypeInv, TypeOK
  <2>3. Written(k)'
    BY <2>1, <2>2 DEF Written, QueueInv
  <2> QED
    BY <1>2, <2>1, <2>2, <2>3, WriterMoves
<1>3. ASSUME NEW k \in Scans, task[k].pc = "run", Put(task[k].q, <<Last>>),
             task' = [task EXCEPT ![k].pc = "release"],
             UNCHANGED <<made, client, events, interrupted, taken>>
      PROVE  QueueInv'
  <2>1. task[k].q # None /\ OnlyEvents(log[task[k].q]) /\ task[k].q \in Scans
    <3>1. task[k].q # None /\ OnlyEvents(log[task[k].q])
      BY <1>3 DEF QueueInv, Written
    <3> QED
      BY <1>1, <3>1
  <2>2. /\ \A q \in Scans \ {task[k].q} : log'[q] = log[q]
        /\ log'[task[k].q] = Append(log[task[k].q], Last)
    BY <1>3, <2>1, PutTypes DEF TypeInv
  <2>3. Closed(log'[task[k].q])
    BY <1>1, <2>1, <2>2, Shapes
  <2>4. task' = [task EXCEPT ![k].pc = task'[k].pc] /\ task'[k].pc = "release" /\ task'[k].q = task[k].q
    BY <1>3 DEF TypeInv, TypeOK
  <2>5. Written(k)'
    BY <2>3, <2>4 DEF Written
  <2> QED
    BY <1>3, <2>2, <2>4, <2>5, WriterMoves
<1>4. ASSUME NEW k \in Scans, Progress(k)
      PROVE  QueueInv'
  <2>1. task[k].pc = "run" /\ Put(task[k].q, <<Event>>) /\ UNCHANGED <<task, made, client, events, interrupted, taken>>
    BY <1>4 DEF Progress
  <2>2. task[k].q # None /\ OnlyEvents(log[task[k].q]) /\ task[k].q \in Scans
    <3>1. task[k].q # None /\ OnlyEvents(log[task[k].q])
      BY <2>1 DEF QueueInv, Written
    <3> QED
      BY <1>1, <3>1
  <2>3. /\ \A q \in Scans \ {task[k].q} : log'[q] = log[q]
        /\ log'[task[k].q] = Append(log[task[k].q], Event)
    BY <2>1, <2>2, PutTypes DEF TypeInv
  <2>4. OnlyEvents(log'[task[k].q])
    BY <1>1, <2>2, <2>3, Shapes
  <2>5. task' = [task EXCEPT ![k].pc = task'[k].pc]
    BY <2>1 DEF TypeInv, TypeOK
  <2>6. Written(k)'
    BY <2>1, <2>2, <2>4 DEF Written
  <2> QED
    BY <2>1, <2>3, <2>5, <2>6, WriterMoves
<1>5. ASSUME NEW k \in Scans, Finish(k)
      PROVE  QueueInv'
  BY <1>5, <1>3 DEF Finish
<1>6. ASSUME NEW k \in Scans, ReleaseLock(k)
      PROVE  QueueInv'
  <2>1. task[k].pc = "release" /\ task' = [task EXCEPT ![k].pc = "clear"]
        /\ UNCHANGED <<log, made, client, events, interrupted>>
    BY <1>6 DEF ReleaseLock
  <2>2. task' = [task EXCEPT ![k].pc = task'[k].pc] /\ task'[k].pc = "clear" /\ task'[k].q = task[k].q
    BY <2>1 DEF TypeInv, TypeOK
  <2>3. Written(k)'
    BY <2>1, <2>2 DEF Written, QueueInv
  <2> QED
    BY <2>1, <2>2, <2>3, WriterMoves
<1>7. ASSUME NEW k \in Scans, End(k)
      PROVE  QueueInv'
  <2>1. task[k].pc = "clear" /\ task' = [task EXCEPT ![k].pc = "done"]
        /\ UNCHANGED <<made, client, interrupted, taken>> /\ events' \in {events, None}
    BY <1>7 DEF End
  <2>2. task' = [task EXCEPT ![k].pc = task'[k].pc] /\ task'[k].pc = "done" /\ task'[k].q = task[k].q
    BY <2>1 DEF TypeInv, TypeOK
  <2>3. CASE task[k].q = None
    <3>1. UNCHANGED log
      BY <1>7, <2>3 DEF End
    <3>2. Written(k)'
      BY <2>2, <2>3 DEF Written
    <3> QED
      BY <2>1, <2>2, <3>1, <3>2, WriterMoves
  <2>4. CASE task[k].q # None
    <3>1. Closed(log[task[k].q]) /\ task[k].q \in Scans
      <4>1. Closed(log[task[k].q])
        BY <2>1, <2>4 DEF QueueInv, Written
      <4> QED
        BY <1>1, <2>4, <4>1
    <3>2. Put(task[k].q, <<Nil>>)
      BY <1>7, <2>4 DEF End
    <3>3. /\ \A q \in Scans \ {task[k].q} : log'[q] = log[q]
          /\ log'[task[k].q] = Append(log[task[k].q], Nil)
      BY <2>1, <3>1, <3>2, PutTypes DEF TypeInv
    <3>4. Ended(log'[task[k].q])
      BY <1>1, <2>4, <3>1, <3>3, Shapes
    <3>5. Written(k)'
      BY <2>2, <3>4 DEF Written
    <3> QED
      BY <2>1, <2>2, <3>3, <3>5, WriterMoves
  <2> QED
    BY <2>3, <2>4
<1>8. ASSUME NEW k \in Scans, Fault(k)
      PROVE  QueueInv'
  BY <1>8, <1>2 DEF Fault
<1>9. ASSUME NEW c \in Clients, TriggerAcquire(c)
      PROVE  QueueInv'
  <2>1. UNCHANGED <<task, log, interrupted>>
    BY <1>9 DEF TriggerAcquire
  <2>2. CASE UNCHANGED <<events, made>> /\ client' = [client EXCEPT ![c] = "idle"]
    <3>1. \A d \in Clients : client'[d] = "create" => client[d] = "create"
      BY <2>2 DEF TypeInv, TypeOK
    <3> QED
      BY <2>1, <2>2, <3>1, NobodyWrites
  <2>3. CASE made' = made + 1 /\ events' = made'
    <3>1. made \in Nat /\ \A k \in Scans : task[k].q \in Nat /\ task[k].q <= made
      BY DEF TypeInv, TypeOK, QueueInv, OneWriter
    <3>2. \A k \in Scans : task[k].q <= made' /\ task[k].q # made'
      BY <2>3, <3>1
    <3>3. OneWriter'
      BY <2>1, <2>3, <3>2 DEF OneWriter, QueueInv
    <3>4. \A k \in Scans : Written(k)'
      BY <2>1 DEF QueueInv, Written
    <3> QED
      BY <3>3, <3>4 DEF QueueInv
  <2> QED
    BY <1>9, <2>2, <2>3 DEF TriggerAcquire
<1>10. ASSUME NEW c \in Clients, TriggerCreate(c)
       PROVE  QueueInv'
  <2> DEFINE new == [pc |-> IF events = None THEN "release" ELSE "run", q |-> events]
  <2>1. client[c] = "create" /\ client' = [client EXCEPT ![c] = "join"]
        /\ UNCHANGED <<events, made, log, interrupted>>
    BY <1>10 DEF TriggerCreate
  <2>2. PICK k \in Scans : k = NextTask /\ task[k].pc = "none"
    BY <2>1, NextTaskIsNew
  <2>3. task' = [task EXCEPT ![k] = new]
    BY <1>10, <2>2, CreateIsNext
  <2>4. task'[k] = new /\ \A j \in Scans : j # k => task'[j] = task[j]
    BY <2>2, <2>3 DEF TypeInv, TypeOK
  <2>5. new.q = events /\ new.pc = IF events = None THEN "release" ELSE "run"
    OBVIOUS
  <2>6. events \in {None, made} /\ (\A j \in Scans : task[j].q # made) /\ task[k].q = None
    BY <2>1, <2>2 DEF QueueInv, OneWriter, Written
  <2>7. events # None => events \in Scans /\ log[events] = <<>>
    BY <2>6 DEF TypeInv, TypeOK, QueueInv, OneWriter, Scans, None
  <2> HIDE DEF new
  <2>8. \A d \in Clients : client'[d] # "create"
    BY <2>1 DEF TypeInv, TypeOK, HeldOnce
  <2>9. OneWriter'
    <3>1. \A i, j \in Scans : task'[i].q # None /\ task'[i].q = task'[j].q => i = j
      BY <2>4, <2>5, <2>6 DEF QueueInv, OneWriter
    <3>2. ASSUME NEW q \in Scans, \A j \in Scans : task'[j].q # q
          PROVE  log'[q] = <<>>
      <4>1. \A j \in Scans : task[j].q # q
        BY <2>4, <2>6, <3>2 DEF None, Scans
      <4> QED
        BY <2>1, <4>1 DEF QueueInv, OneWriter
    <3>3. \A j \in Scans : task'[j].q <= made'
      <4>1. made \in Nat
        BY DEF TypeInv, TypeOK
      <4> QED
        BY <2>1, <2>4, <2>5, <2>6, <4>1 DEF QueueInv, OneWriter, None
    <3> QED
      BY <2>8, <3>1, <3>2, <3>3 DEF OneWriter
  <2>10. ASSUME NEW j \in Scans PROVE Written(j)'
    <3>1. CASE j # k
      BY <2>1, <2>4, <3>1 DEF Written, QueueInv
    <3>2. CASE j = k /\ events = None
      BY <2>4, <2>5, <3>2 DEF Written
    <3>3. CASE j = k /\ events # None
      <4>1. OnlyEvents(log'[events])
        <5>1. log'[events] = <<>> /\ <<>> \in Seq({Event, Last, Nil})
          BY <2>1, <2>7, <3>3
        <5> QED
          BY <5>1, Shapes
      <4> QED
        BY <2>4, <2>5, <3>3, <4>1 DEF Written
    <3> QED
      BY <3>1, <3>2, <3>3
  <2> QED
    BY <2>9, <2>10 DEF QueueInv
<1>11. ASSUME NEW c \in Clients, StopCancel(c)
       PROVE  QueueInv'
  <2>1. UNCHANGED <<events, made, client, taken>>
    BY <1>11 DEF StopCancel
  <2>2. CASE ~Alive(active)
    <3>1. UNCHANGED <<task, log, interrupted>>
      BY <1>11, <2>2 DEF StopCancel
    <3> QED
      BY <2>1, <3>1, NobodyWrites
  <2>3. CASE Alive(active)
    <3>1. active \in Scans /\ CancelTask(active)
      BY <1>11, <2>3 DEF StopCancel, Alive, None, Scans, TypeInv, TypeOK
    <3>2. CASE task[active].pc = "run"
      BY <2>1, <3>1, <3>2, <1>3 DEF CancelTask
    <3>3. CASE task[active].pc # "run"
      BY <2>1, <3>1, <3>3, <1>2 DEF CancelTask
    <3> QED
      BY <3>2, <3>3
  <2> QED
    BY <2>2, <2>3
<1>12. ASSUME \/ \E c \in Clients : \/ TriggerCheck(c) \/ TriggerFault(c) \/ StopCheck(c)
                                    \/ Join(c) \/ Take(c) \/ Leave(c)
              \/ Expire \/ UNCHANGED vars
       PROVE  QueueInv'
  <2>1. UNCHANGED <<made, task, log, events>> /\ interrupted \subseteq interrupted'
    BY <1>12 DEF TriggerCheck, TriggerFault, StopCheck, Join, Take, Leave, Expire, vars
  <2>2. \A d \in Clients : client'[d] = "create" => client[d] = "create"
    BY <1>12 DEF TriggerCheck, TriggerFault, StopCheck, Join, Take, Leave, Expire, vars,
                TypeInv, TypeOK
  <2> QED
    BY <2>1, <2>2, NobodyWrites
<1> QED
  BY <1>4, <1>5, <1>6, <1>7, <1>8, <1>9, <1>10, <1>11, <1>12 DEF Next, TaskStep, HandlerStep

\* However scans, stops and faults fall together, each queue is written by one
\* task and ends as its readers expect, unless its finally block was cut short.
THEOREM AlwaysWellFormed == Spec => []QueueWellFormed
<1>1. Init => QueueInv
  <2>1. ASSUME Init PROVE OneWriter /\ \A k \in Scans : Written(k)
    <3>1. \A k \in Scans : task[k].pc = "none" /\ task[k].q = None
      BY <2>1 DEF Init
    <3>2. \A q \in Scans : log[q] = <<>>
      BY <2>1 DEF Init
    <3>3. made = 0 /\ \A c \in Clients : client[c] = "idle"
      BY <2>1 DEF Init
    <3> QED
      BY <3>1, <3>2, <3>3 DEF OneWriter, Written, None
  <2> QED
    BY <2>1 DEF QueueInv
<1>2. TypeInv /\ QueueInv /\ [Next]_vars => QueueInv'
  BY QueuesKept
<1>3. TypeInv /\ QueueInv => QueueWellFormed
  <2> SUFFICES ASSUME TypeInv, QueueInv PROVE QueueWellFormed
    OBVIOUS
  <2>1. ASSUME NEW q \in Scans PROVE WellFormed(log[q])
    <3>1. log[q] \in Seq({Event, Last, Nil})
      BY DEF TypeInv, TypeOK
    <3>2. CASE \A k \in Scans : task[k].q # q
      BY <3>1, <3>2, Shapes DEF QueueInv, OneWriter
    <3>3. CASE \E k \in Scans : task[k].q = q
      <4>1. PICK k \in Scans : task[k].q = q
        BY <3>3
      <4>2. q # None /\ Written(k) /\ task[k].pc \in {"none", "run", "release", "clear", "done"}
        BY DEF QueueInv, TypeInv, TypeOK, None, Scans
      <4>3. OnlyEvents(log[q]) \/ Closed(log[q]) \/ Ended(log[q])
        BY <4>1, <4>2 DEF Written
      <4> QED
        BY <3>1, <4>3, Shapes
    <3> QED
      BY <3>2, <3>3
  <2>2. ASSUME NEW k \in Scans, task[k].pc = "done", task[k].q \notin interrupted \cup {None}
        PROVE  log[task[k].q] # <<>> /\ log[task[k].q][Len(log[task[k].q])] = Nil
    <3>1. Ended(log[task[k].q])
      BY <2>2 DEF QueueInv, Written
    <3>2. log[task[k].q] \in Seq({Event, Last, Nil})
      <4>1. task[k].q \in 0..MaxScans /\ task[k].q # 0
        BY <2>2 DEF TypeInv, TypeOK, None
      <4>2. task[k].q \in Scans
        BY <4>1 DEF Scans
      <4> QED
        BY <4>2 DEF TypeInv, TypeOK
    <3> QED
      BY <3>1, <3>2, Shapes
  <2> QED
    BY <2>1, <2>2 DEF QueueWellFormed
<1> QED
  BY <1>1, <1>2, <1>3, TypeInvHolds, PTL DEF Spec
=============================================================================
